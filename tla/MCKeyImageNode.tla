----------------------------- MODULE MCKeyImageNode -----------------------------
(***************************************************************************)
(* Block trees in which two branches carry the same transaction and some   *)
(* block repeats a key image.  A run takes a part of this one:             *)
(*                                                                         *)
(*      g -- a1 {t1, t2} -- x2 {t3}     t3 spends the output t1 spends     *)
(*      |`-- b1 {t1}     -- b2 {t2}                                        *)
(*       `-- y1 {t1, t3}                                                   *)
(***************************************************************************)
EXTENDS KeyImageNode, TLC

ParentOf ==
    "g" :> "g" @@ "a1" :> "g" @@ "x2" :> "a1"
        @@ "b1" :> "g" @@ "b2" :> "b1" @@ "y1" :> "g"

TxsOf ==
    "g" :> {} @@ "a1" :> {"t1", "t2"} @@ "x2" :> {"t3"}
        @@ "b1" :> {"t1"} @@ "b2" :> {"t2"} @@ "y1" :> {"t1", "t3"}

MCParent == [b \in Blocks |-> ParentOf[b]]

MCAnc == [b \in Blocks |-> {b, ParentOf[b], ParentOf[ParentOf[b]]}]

MCBlockTxs == [b \in Blocks |-> TxsOf[b]]

MCKeyImageOf == "t1" :> "k1" @@ "t2" :> "k2" @@ "t3" :> "k1"

=============================================================================
