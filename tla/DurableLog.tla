----------------------------- MODULE DurableLog -----------------------------
(***************************************************************************)
(* What durable cuts promise: a log of blocks whose committed length never *)
(* shrinks, not even when power fails, and a reader that is only ever      *)
(* shown a committed prefix and never a shorter one than before until it   *)
(* is opened again.                                                        *)
(***************************************************************************)
EXTENDS Naturals

VARIABLES committed, seen

Init == committed = 0 /\ seen = 0

Commit ==
    /\ committed' \in Nat /\ committed' > committed
    /\ seen' = seen

Read ==
    /\ seen' \in Nat /\ seen <= seen' /\ seen' <= committed
    /\ committed' = committed

(* The reader is gone; a power failure may turn out to have committed more. *)
Reopen ==
    /\ committed' \in Nat /\ committed' >= committed
    /\ seen' = 0

Next == Commit \/ Read \/ Reopen

Spec == Init /\ [][Next]_<<committed, seen>>
=============================================================================
