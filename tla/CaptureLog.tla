----------------------------- MODULE CaptureLog -----------------------------
(***************************************************************************)
(* What the Recorder promises for the calls its ingestion thread makes     *)
(* while a capture runs: every call that was answered Ok is one entry of   *)
(* a log, the corpus applies the log in order without skipping an entry,   *)
(* and a durable cut always covers a prefix of what was applied.           *)
(***************************************************************************)
EXTENDS Naturals, Sequences

CONSTANT Entry

VARIABLES
    accepted,   \* the entries acknowledged to the ingestion thread
    applied,    \* the entries the corpus writer has taken
    durable     \* how many entries the last durable cut covers

vars == <<accepted, applied, durable>>

Init ==
    /\ accepted = << >>
    /\ applied = << >>
    /\ durable = 0

Accept(e) ==
    /\ accepted' = Append(accepted, e)
    /\ UNCHANGED <<applied, durable>>

Apply ==
    /\ Len(applied) < Len(accepted)
    /\ applied' = Append(applied, accepted[Len(applied) + 1])
    /\ UNCHANGED <<accepted, durable>>

Commit ==
    /\ durable' = Len(applied)
    /\ UNCHANGED <<accepted, applied>>

Next ==
    \/ \E e \in Entry : Accept(e)
    \/ Apply
    \/ Commit

Spec == Init /\ [][Next]_vars
=============================================================================
