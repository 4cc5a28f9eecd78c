---- MODULE ManifestReplacement ----
(***************************************************************************)
(* Replacing manifest.json (and the instrument metadata beside it): the new *)
(* document is written to a temporary file, the current one is copied to   *)
(* .prev, and the temporary is renamed over it.  Any call may fail and the *)
(* process may die between two of them; a file being written or copied is  *)
(* torn until that is done.                                                *)
(***************************************************************************)
EXTENDS Naturals

CONSTANT MaxVersion     \* bound: documents written in one session
ASSUME MaxVersionAssumption == MaxVersion \in Nat

VARIABLES
    temp, target, prev,     \* the files: a version, Absent or Torn
    at,                     \* where writeManifestFile_ is
    version, acked,         \* document being written; last one reported written
    ready,                  \* previousReady
    unseen,                 \* history: this replacement could not examine the document it replaces
    broken                  \* history: the document was lost, and none is in its place yet

manifestVars == <<temp, target, prev, at, version, acked, ready, unseen, broken>>
Absent == 0
Torn == MaxVersion + 1
Whole(f) == f \in 1..MaxVersion

ManifestInit ==
    /\ temp = Absent /\ target = Absent /\ prev = Absent
    /\ at = "idle" /\ version = 0 /\ acked = 0 /\ ready = FALSE /\ unseen = FALSE /\ broken = FALSE

Go(there) == at' = there
Files == <<temp, target, prev>>

\* writeFileFully: the temporary is truncated, written, flushed and measured.
Begin ==
    /\ at = "idle" /\ version < MaxVersion
    /\ version' = version + 1 /\ temp' = Torn /\ ready' = FALSE /\ unseen' = FALSE /\ Go("writing")
    /\ UNCHANGED <<target, prev, acked, broken>>

Written ==
    /\ at = "writing" /\ temp' = version /\ Go("keeping")
    /\ UNCHANGED <<target, prev, version, acked, ready, unseen, broken>>

\* A document that came out short is removed; one that could not be written stays torn.
WriteFails ==
    /\ at = "writing" /\ temp' \in {Absent, Torn} /\ Go("idle")
    /\ UNCHANGED <<target, prev, version, acked, ready, unseen, broken>>

KeepsNothing ==
    /\ at = "keeping" /\ Go("renaming")
    /\ UNCHANGED <<Files, version, acked, ready, unseen, broken>>

\* replaceFilePreservingPrevious: a document that is found is copied before it is replaced.
Keep ==
    /\ at = "keeping"
    /\ IF target = Absent THEN Go("renaming") /\ UNCHANGED prev
       ELSE prev' = Torn /\ Go("copying")
    /\ UNCHANGED <<temp, target, version, acked, ready, unseen, broken>>

\* exists() or file_size() fails, or the file is empty: the replacement goes on without a copy.
KeepFails ==
    /\ at = "keeping" /\ target # Absent /\ unseen' = TRUE /\ Go("renaming")
    /\ UNCHANGED <<Files, version, acked, ready, broken>>

Copied ==
    /\ at = "copying" /\ prev' = target /\ ready' = TRUE /\ Go("renaming")
    /\ UNCHANGED <<temp, target, version, acked, unseen, broken>>

CopyFails ==
    /\ at = "copying" /\ Go("idle")
    /\ UNCHANGED <<Files, version, acked, ready, unseen, broken>>

Rename ==
    /\ at \in {"renaming", "renaming again"}
    /\ target' = temp /\ temp' = Absent /\ acked' = temp /\ broken' = FALSE /\ Go("idle")
    /\ UNCHANGED <<prev, version, ready, unseen>>

RenameFails ==
    /\ at = "renaming" /\ Go("removing")
    /\ UNCHANGED <<Files, version, acked, ready, unseen, broken>>

Remove ==
    /\ at = "removing" /\ target' = Absent /\ broken' = (broken \/ unseen) /\ Go("renaming again")
    /\ UNCHANGED <<temp, prev, version, acked, ready, unseen>>

\* exists() fails this time: the document stays where it is.
RemoveSkipped ==
    /\ at = "removing" /\ target # Absent /\ Go("renaming again")
    /\ UNCHANGED <<Files, version, acked, ready, unseen, broken>>

RemoveFails ==
    /\ at = "removing" /\ target # Absent /\ Go("idle")
    /\ UNCHANGED <<Files, version, acked, ready, unseen, broken>>

\* The second rename failed too: the kept document is copied back.
Restore ==
    /\ at = "renaming again"
    /\ IF ready THEN target' = Torn /\ Go("restoring") ELSE Go("idle") /\ UNCHANGED target
    /\ UNCHANGED <<temp, prev, version, acked, ready, unseen, broken>>

Restored ==
    /\ at = "restoring" /\ target' = prev /\ Go("idle")
    /\ UNCHANGED <<temp, prev, version, acked, ready, unseen, broken>>

\* The copy back fails before it touches manifest.json, or after it has.
RestoreRefused ==
    /\ at = "renaming again" /\ ready /\ broken' = (broken \/ target = Absent) /\ Go("idle")
    /\ UNCHANGED <<Files, version, acked, ready, unseen>>

RestoreFails ==
    /\ at = "restoring" /\ broken' = TRUE /\ Go("idle")
    /\ UNCHANGED <<Files, version, acked, ready, unseen>>

\* A session directory is not written again after its process died.
Crash ==
    /\ at # "dead" /\ Go("dead")
    /\ UNCHANGED <<Files, version, acked, ready, unseen, broken>>

ManifestNext ==
    \/ Begin \/ Written \/ WriteFails \/ Keep \/ KeepFails \/ Copied \/ CopyFails \/ Rename \/ RenameFails
    \/ Remove \/ RemoveSkipped \/ RemoveFails \/ Restore \/ Restored \/ RestoreRefused \/ RestoreFails
    \/ Crash

ManifestSpec == ManifestInit /\ [][ManifestNext]_manifestVars

\* Type correctness: files hold a version or one of the two other conditions.
ManifestTypeOK ==
    /\ temp \in Absent..Torn /\ target \in Absent..Torn /\ prev \in Absent..Torn
    /\ acked <= version

\* The last document reported as written, or a newer one, is whole in manifest.json or in
\* the copy kept of it, whichever calls fail and wherever the process dies.  The code loses
\* it in two ways only, and then until the next document is in place: the copy back itself
\* fails, or a document that could not be examined (so that none was kept) is removed after
\* a rename that failed.
AcknowledgedSurvives ==
    (acked > 0 /\ ~broken) => (Whole(target) /\ target >= acked) \/ (Whole(prev) /\ prev >= acked)

\* A reader of manifest.json finds a whole document or none, outside the copying back,
\* unless the document was lost.
TargetNeverTorn == (~broken /\ target = Torn) => at \in {"restoring", "dead"} /\ Whole(prev)

\* What manifest.json holds never goes back to an older document than one reported,
\* unless that one was lost.
NeverOlder == [][(~broken' /\ Whole(target')) => target' >= acked']_manifestVars
====
