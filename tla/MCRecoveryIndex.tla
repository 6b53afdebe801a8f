----------------------------- MODULE MCRecoveryIndex -----------------------------
(***************************************************************************)
(* Two branches; o1 is paid by a transaction that is in both of them, at   *)
(* different heights, o3 and o4 belong to one branch only, and o2 pays a   *)
(* subaddress which is known only after o1 was found.  A run takes a part: *)
(*                                                                         *)
(*      g -- a1 {o1} -- a2 {o2}                                            *)
(*       `-- b1 {o3} -- b2 {o1, o4} -- b3                                  *)
(***************************************************************************)
EXTENDS RecoveryIndex, TLC

AncOf ==
    "g" :> {"g"} @@ "a1" :> {"g", "a1"} @@ "a2" :> {"g", "a1", "a2"}
        @@ "b1" :> {"g", "b1"} @@ "b2" :> {"g", "b1", "b2"}
        @@ "b3" :> {"g", "b1", "b2", "b3"}

CreatedIn ==
    "g" :> {} @@ "a1" :> {"o1"} @@ "a2" :> {"o2"}
        @@ "b1" :> {"o3"} @@ "b2" :> {"o1", "o4"} @@ "b3" :> {}

MCAnc == [b \in Blocks |-> AncOf[b]]

MCOutputsOf == [b \in Blocks |-> CreatedIn[b] \cap Outputs]

MCPayee == "o1" :> "s1" @@ "o2" :> "s1" @@ "o3" :> "s1" @@ "o4" :> "s2"

MCSubIndex == "o1" :> 1 @@ "o2" :> 2 @@ "o3" :> 0 @@ "o4" :> 0

=============================================================================
