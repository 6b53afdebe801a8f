------------------------------- MODULE NonceSlots -------------------------------
(***************************************************************************)
(* What the nonce records promise, on either side of a swap: a slot has    *)
(* one value in use, the nonce handed out for it, the session it was       *)
(* handed out to or the aggregate signed with it, and takes no other until *)
(* it is closed.  No cache, failed write, lock, restart or second caller   *)
(* can be seen here.                                                       *)
(***************************************************************************)
CONSTANTS Keys, Values

VARIABLE used   \* per slot, the values in use

Init == used = [k \in Keys |-> {}]

Use(k, v) ==
    /\ used[k] \subseteq {v}
    /\ used' = [used EXCEPT ![k] = {v}]

\* The signing is over, or the operator has erased the record.
Close(k) == used' = [used EXCEPT ![k] = {}]

Next == \E k \in Keys : Close(k) \/ \E v \in Values : Use(k, v)

Spec == Init /\ [][Next]_used
=================================================================================
