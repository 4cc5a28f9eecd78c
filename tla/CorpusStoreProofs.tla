------------------------- MODULE CorpusStoreProofs -------------------------
(***************************************************************************)
(* Three parts of the store that share no state, each for every value of   *)
(* its constants: the replacement of manifest.json, the state a reader     *)
(* keeps of a source, and the capture queue in front of the corpus writer. *)
(***************************************************************************)
EXTENDS ManifestReplacement, SourceState, BufferedCorpusWriter, TLAPS

-----------------------------------------------------------------------------
(* Replacing manifest.json, for any number of documents written, failures  *)
(* at any call and a crash at any point.                                   *)

Places == {"idle", "writing", "keeping", "copying", "renaming", "removing", "renaming again",
           "restoring", "dead"}

\* Where each variable ranges.
Types ==
    /\ temp \in Absent..Torn /\ target \in Absent..Torn /\ prev \in Absent..Torn
    /\ at \in Places /\ version \in 0..MaxVersion /\ acked \in 0..version

\* From the end of the writing until the rename, the temporary is the document being written.
Prepared ==
    /\ at = "writing" => Whole(version)
    /\ at \in {"writing", "keeping"} => ~ready
    /\ at \in {"keeping", "copying", "renaming", "removing", "renaming again"} => Whole(version) /\ temp = version

\* What is known of the two files while the document is not lost: until it is removed, a
\* document is kept or could not be examined, and the latter is not removed.
Saved == Whole(prev) /\ prev >= acked
Shown == acked > 0 => Whole(target) /\ target >= acked
Sound ==
    /\ Whole(target) => target >= acked
    /\ at \in {"idle", "writing", "keeping", "copying", "renaming", "removing"} => target # Torn /\ Shown
    /\ at = "copying" => target # Absent
    /\ at \in {"renaming", "removing"} => (ready => Saved) /\ (~ready => target = Absent \/ unseen)
    /\ at = "renaming again" => target # Torn /\ (ready => Saved) /\ (~ready => Shown)
    /\ at = "restoring" => Saved
    /\ at = "dead" => (target = Torn => Whole(prev)) /\ (acked > 0 => (Whole(target) \/ Saved))

ReplaceInv == Types /\ Prepared /\ (~broken => Sound)

\* A file is absent, torn or holds one whole document.
LEMMA FileKinds ==
  /\ Torn # Absent /\ ~Whole(Torn) /\ ~Whole(Absent)
  /\ Torn \in Absent..Torn /\ Absent \in Absent..Torn
  /\ \A f \in Absent..Torn : f = Absent \/ f = Torn \/ Whole(f)
  /\ \A f : Whole(f) => f \in Absent..Torn
  BY MaxVersionAssumption DEF Whole, Absent, Torn

LEMMA UpToItself == \A v \in 0..MaxVersion : v \in 0..v
  BY MaxVersionAssumption

LEMMA InitEstablishes == ManifestInit => ReplaceInv
<1> SUFFICES ASSUME ManifestInit PROVE ReplaceInv
  BY Zenon
<1>1. Types
  BY MaxVersionAssumption DEF ManifestInit, Types, Places, Absent, Torn
<1>2. Prepared
  BY Zenon DEF ManifestInit, Prepared
<1>3. Sound
  <2>1. acked = 0 /\ target = Absent /\ at = "idle" /\ ~(acked > 0)
    BY DEF ManifestInit
  <2> QED BY <2>1, FileKinds, Zenon DEF Sound, Shown
<1> QED BY <1>1, <1>2, <1>3, Zenon DEF ReplaceInv

\* The invariant implies type correctness and what the three properties say of a state.
LEMMA InvariantSuffices ==
  ReplaceInv => ManifestTypeOK /\ AcknowledgedSurvives /\ TargetNeverTorn /\ (~broken /\ Whole(target) => target >= acked)
<1> SUFFICES ASSUME ReplaceInv
             PROVE  ManifestTypeOK /\ AcknowledgedSurvives /\ TargetNeverTorn /\ (~broken /\ Whole(target) => target >= acked)
  BY Zenon
<1>1. ManifestTypeOK
  BY MaxVersionAssumption DEF ReplaceInv, Types, ManifestTypeOK, Absent, Torn
<1>2. ~broken /\ Whole(target) => target >= acked
  BY Zenon DEF ReplaceInv, Sound
<1>3. TargetNeverTorn
  <2> SUFFICES ASSUME ~broken, target = Torn PROVE at \in {"restoring", "dead"} /\ Whole(prev)
    BY Zenon DEF TargetNeverTorn
  <2>1. at \in Places /\ Sound
    BY Zenon DEF ReplaceInv, Types
  <2>2. Torn # Absent
    BY MaxVersionAssumption DEF Absent, Torn
  <2>3. at # "renaming again"
    BY <2>1, <2>2, Zenon DEF Sound
  <2> QED BY <2>1, <2>3, Zenon DEF Sound, Saved, Places
<1>4. AcknowledgedSurvives
  <2> SUFFICES ASSUME acked > 0, ~broken
               PROVE  (Whole(target) /\ target >= acked) \/ Saved
    BY Zenon DEF AcknowledgedSurvives, Saved
  <2>1. at \in Places /\ Sound /\ acked # 0
    BY DEF ReplaceInv, Types
  <2>2. CASE at \in {"idle", "writing", "keeping", "copying", "renaming", "removing"}
    BY <2>1, <2>2, Zenon DEF Sound, Shown
  <2>3. CASE at = "renaming again"
    BY <2>1, <2>3, Zenon DEF Sound, Shown
  <2>4. CASE at \in {"restoring", "dead"}
    BY <2>1, <2>4, Zenon DEF Sound
  <2> QED BY <2>1, <2>2, <2>3, <2>4, Zenon DEF Places
<1> QED BY <1>1, <1>2, <1>3, <1>4, Zenon

\* Each step keeps the ranges of the variables.
LEMMA StepKeepsTypes == ReplaceInv /\ [ManifestNext]_manifestVars => Types'
<1> SUFFICES ASSUME Types, Prepared, [ManifestNext]_manifestVars PROVE Types'
  BY Zenon DEF ReplaceInv
<1> USE MaxVersionAssumption, FileKinds DEF Types, Places, Go, Files
<1>1. CASE Begin
  BY <1>1 DEF Begin
<1>2. CASE Written
  <2>1. version \in Absent..Torn
    BY <1>2, Zenon DEF Written, Prepared
  <2> QED BY <1>2, <2>1, Zenon DEF Written
<1>3. CASE WriteFails
  BY <1>3, Zenon DEF WriteFails
<1>4. CASE Keep
  <2>1. CASE target = Absent
    BY <1>4, <2>1, Zenon DEF Keep
  <2>2. CASE ~(target = Absent)
    BY <1>4, <2>2, Zenon DEF Keep
  <2> QED BY <2>1, <2>2, Zenon
<1>5. CASE Copied
  BY <1>5, Zenon DEF Copied
<1>6. CASE CopyFails
  BY <1>6, Zenon DEF CopyFails
<1>7. CASE Rename
  <2>1. Whole(version) /\ temp = version
    BY <1>7, Zenon DEF Rename, Prepared
  <2>2. version \in 0..version
    BY UpToItself, Zenon
  <2> QED BY <1>7, <2>1, <2>2, Zenon DEF Rename
<1>8. CASE RenameFails
  BY <1>8, Zenon DEF RenameFails
<1>9. CASE Remove
  BY <1>9, Zenon DEF Remove
<1>10. CASE RemoveFails
  BY <1>10, Zenon DEF RemoveFails
<1>11. CASE Restore
  <2>1. CASE ready
    BY <1>11, <2>1, Zenon DEF Restore
  <2>2. CASE ~(ready)
    BY <1>11, <2>2, Zenon DEF Restore
  <2> QED BY <2>1, <2>2, Zenon
<1>12. CASE Restored
  BY <1>12, Zenon DEF Restored
<1>13. CASE RestoreFails
  BY <1>13, Zenon DEF RestoreFails
<1>14. CASE Crash
  BY <1>14, Zenon DEF Crash
<1>15. CASE UNCHANGED manifestVars
  BY <1>15, Zenon DEF manifestVars
<1>16. CASE KeepFails
  BY <1>16, Zenon DEF KeepFails
<1>17. CASE RemoveSkipped
  BY <1>17, Zenon DEF RemoveSkipped
<1>18. CASE RestoreRefused
  BY <1>18, Zenon DEF RestoreRefused
<1> QED BY <1>1, <1>2, <1>3, <1>4, <1>5, <1>6, <1>7, <1>8, <1>9, <1>10, <1>11, <1>12, <1>13, <1>14, <1>15, <1>16, <1>17, <1>18, Zenon DEF ManifestNext

\* The temporary is the document being written from the end of the writing to the rename.
LEMMA StepKeepsPrepared == ReplaceInv /\ [ManifestNext]_manifestVars => Prepared'
<1> SUFFICES ASSUME Types, Prepared, [ManifestNext]_manifestVars PROVE Prepared'
  BY Zenon DEF ReplaceInv
<1> USE DEF Prepared, Go, Files
<1>1. CASE Begin
  <2>1. Whole(version') /\ at' = "writing" /\ ~ready'
    BY <1>1, MaxVersionAssumption DEF Begin, Whole, Types
  <2> QED BY <2>1, Zenon
<1>2. CASE Written
  BY <1>2, Zenon DEF Written
<1>3. CASE WriteFails
  BY <1>3, Zenon DEF WriteFails
<1>4. CASE Keep
  <2>1. CASE target = Absent
    BY <1>4, <2>1, Zenon DEF Keep
  <2>2. CASE ~(target = Absent)
    BY <1>4, <2>2, Zenon DEF Keep
  <2> QED BY <2>1, <2>2, Zenon
<1>5. CASE Copied
  BY <1>5, Zenon DEF Copied
<1>6. CASE CopyFails
  BY <1>6, Zenon DEF CopyFails
<1>7. CASE Rename
  BY <1>7, Zenon DEF Rename
<1>8. CASE RenameFails
  BY <1>8, Zenon DEF RenameFails
<1>9. CASE Remove
  BY <1>9, Zenon DEF Remove
<1>10. CASE RemoveFails
  BY <1>10, Zenon DEF RemoveFails
<1>11. CASE Restore
  <2>1. CASE ready
    BY <1>11, <2>1, Zenon DEF Restore
  <2>2. CASE ~(ready)
    BY <1>11, <2>2, Zenon DEF Restore
  <2> QED BY <2>1, <2>2, Zenon
<1>12. CASE Restored
  BY <1>12, Zenon DEF Restored
<1>13. CASE RestoreFails
  BY <1>13, Zenon DEF RestoreFails
<1>14. CASE Crash
  BY <1>14, Zenon DEF Crash
<1>15. CASE UNCHANGED manifestVars
  BY <1>15, Zenon DEF manifestVars
<1>16. CASE KeepFails
  BY <1>16, Zenon DEF KeepFails
<1>17. CASE RemoveSkipped
  BY <1>17, Zenon DEF RemoveSkipped
<1>18. CASE RestoreRefused
  BY <1>18, Zenon DEF RestoreRefused
<1> QED BY <1>1, <1>2, <1>3, <1>4, <1>5, <1>6, <1>7, <1>8, <1>9, <1>10, <1>11, <1>12, <1>13, <1>14, <1>15, <1>16, <1>17, <1>18, Zenon DEF ManifestNext

\* What is known of the two files survives every call, every failure and a crash.
LEMMA StepKeepsSound == ReplaceInv /\ [ManifestNext]_manifestVars /\ ~broken' => Sound'
<1> SUFFICES ASSUME ReplaceInv, [ManifestNext]_manifestVars, ~broken' PROVE Sound'
  BY Zenon
<1>0. Types /\ Prepared /\ Types'
  BY StepKeepsTypes, Zenon DEF ReplaceInv
<1>b. ~broken => Sound
  BY Zenon DEF ReplaceInv
<1> USE FileKinds DEF Sound, Saved, Shown, Go, Files
<1>1. CASE Begin
  BY <1>1, <1>0, <1>b, Zenon DEF Begin
<1>2. CASE Written
  BY <1>2, <1>0, <1>b, Zenon DEF Written
<1>3. CASE WriteFails
  BY <1>3, <1>0, <1>b, Zenon DEF WriteFails
<1>4. CASE Keep
  <2>1. CASE target = Absent
    <3>1. ~ready /\ ~broken /\ at' = "renaming"
      BY <1>4, <2>1, <1>0, Zenon DEF Keep, Prepared
    <3> QED BY <1>4, <2>1, <3>1, <1>b, Zenon DEF Keep
  <2>2. CASE ~(target = Absent)
    BY <1>4, <2>2, <1>0, <1>b, Zenon DEF Keep
  <2> QED BY <2>1, <2>2, Zenon
<1>5. CASE Copied
  <2>1. /\ at' = "renaming" /\ target' = target /\ prev' = target /\ acked' = acked /\ ready' /\ ~broken
    BY <1>5, Zenon DEF Copied
  <2>2. target # Absent /\ target # Torn /\ target \in Absent..Torn /\ (Whole(target) => target >= acked)
    BY <1>5, <1>0, <1>b, Zenon DEF Copied, Types
  <2> QED BY <2>1, <2>2, Zenon
<1>6. CASE CopyFails
  BY <1>6, <1>0, <1>b, Zenon DEF CopyFails
<1>7. CASE Rename
  <2>1. at' = "idle" /\ target' = version /\ acked' = version /\ Whole(version)
    BY <1>7, <1>0, Zenon DEF Rename, Prepared
  <2>2. version >= version
    BY <1>0 DEF Types
  <2> QED BY <2>1, <2>2, Zenon
<1>8. CASE RenameFails
  BY <1>8, <1>0, <1>b, Zenon DEF RenameFails
<1>9. CASE Remove
  <2>1. /\ at' = "renaming again" /\ target' = Absent /\ prev' = prev /\ acked' = acked
        /\ ready' = ready /\ ~broken /\ ~unseen
    BY <1>9, Zenon DEF Remove
  <2>2. ~ready => ~(acked > 0)
    BY <1>9, <1>b, <2>1, Zenon DEF Remove
  <2>3. ready => Whole(prev) /\ prev >= acked
    BY <1>9, <1>b, <2>1, Zenon DEF Remove
  <2> QED BY <2>1, <2>2, <2>3, Zenon
<1>10. CASE RemoveFails
  BY <1>10, <1>0, <1>b, Zenon DEF RemoveFails
<1>11. CASE Restore
  <2>1. CASE ready
    BY <1>11, <2>1, <1>0, <1>b, Zenon DEF Restore
  <2>2. CASE ~(ready)
    BY <1>11, <2>2, <1>0, <1>b, Zenon DEF Restore
  <2> QED BY <2>1, <2>2, Zenon
<1>12. CASE Restored
  BY <1>12, <1>0, <1>b, Zenon DEF Restored
<1>13. CASE RestoreFails
  BY <1>13, <1>0, <1>b, Zenon DEF RestoreFails
<1>14. CASE Crash
  <2>1. ManifestTypeOK /\ AcknowledgedSurvives /\ TargetNeverTorn /\ (~broken /\ Whole(target) => target >= acked)
    BY InvariantSuffices, Zenon
  <2>2. /\ at' = "dead" /\ target' = target /\ prev' = prev /\ acked' = acked /\ ~broken
    BY <1>14, Zenon DEF Crash
  <2>3. target = Torn => Whole(prev)
    BY <2>1, <2>2, Zenon DEF TargetNeverTorn
  <2>4. acked > 0 => (Whole(target) \/ Saved)
    BY <2>1, <2>2, Zenon DEF AcknowledgedSurvives
  <2> QED BY <2>1, <2>2, <2>3, <2>4, Zenon
<1>15. CASE UNCHANGED manifestVars
  BY <1>15, <1>0, <1>b, Zenon DEF manifestVars
<1>16. CASE KeepFails
  BY <1>16, <1>0, <1>b, Zenon DEF KeepFails, Prepared
<1>17. CASE RemoveSkipped
  BY <1>17, <1>0, <1>b, Zenon DEF RemoveSkipped
<1>18. CASE RestoreRefused
  <2>1. at' = "idle" /\ target' = target /\ acked' = acked /\ ~broken /\ target # Absent /\ ready
    BY <1>18, Zenon DEF RestoreRefused
  <2>2. target # Torn /\ (Whole(target) => target >= acked)
    BY <1>18, <1>b, <2>1, Zenon DEF RestoreRefused
  <2>3. Whole(target)
    BY <1>0, <2>1, <2>2, Zenon DEF Types
  <2> QED BY <2>1, <2>2, <2>3, Zenon
<1> QED BY <1>1, <1>2, <1>3, <1>4, <1>5, <1>6, <1>7, <1>8, <1>9, <1>10, <1>11, <1>12, <1>13, <1>14, <1>15, <1>16, <1>17, <1>18, Zenon DEF ManifestNext

LEMMA StepKeeps == ReplaceInv /\ [ManifestNext]_manifestVars => ReplaceInv'
  BY StepKeepsTypes, StepKeepsPrepared, StepKeepsSound, Zenon DEF ReplaceInv

\* Wherever the process dies and whichever calls fail, the last document reported as written, or a
\* newer one, is whole in manifest.json or in its kept copy, except after a copy back that failed or
\* the removal of a document that could not be examined, until the next document is in place.
THEOREM AcknowledgedManifestSurvives == ManifestSpec => []AcknowledgedSurvives
  BY InitEstablishes, StepKeeps, InvariantSuffices, PTL DEF ManifestSpec

\* manifest.json is torn only while the kept document is being copied back over it, or where the
\* process died doing so, and that document is whole then.
THEOREM ManifestNeverTorn == ManifestSpec => []TargetNeverTorn
  BY InitEstablishes, StepKeeps, InvariantSuffices, PTL DEF ManifestSpec

\* No step leaves in manifest.json a document older than the last one reported as written.
THEOREM ManifestNeverOlder == ManifestSpec => NeverOlder
<1>1. ReplaceInv' => ((~broken' /\ Whole(target')) => target' >= acked')
  BY Zenon DEF ReplaceInv, Sound, Whole
<1>2. ReplaceInv /\ [ManifestNext]_manifestVars => [(~broken' /\ Whole(target')) => target' >= acked']_manifestVars
  BY <1>1, StepKeeps, Zenon
<1> QED BY InitEstablishes, StepKeeps, <1>2, PTL DEF ManifestSpec, NeverOlder

-----------------------------------------------------------------------------
(* The state of a source over any stream of stored records: its health     *)
(* overlays nest and say what the whole stream says, and its rows are of   *)
(* the subscription in force.                                              *)

\* OverlaysNest needs only the types of the overlays to be inductive.
NestInv == SourceTypeOK /\ OverlaysNest

\* A row can only take channels out of the overlays, and takes depth out of
\* the recovering overlay together with the unhealthy one.
LEMMA RowNests ==
  ASSUME NestInv, NEW r \in Rows, source' = AfterRow(source, r)
  PROVE  NestInv'
<1>1. CASE Clears(source, r)
  <2>1. source' = [source EXCEPT !.unhealthy = source.unhealthy \ {r.channel},
                   !.recovering = IF r.channel = Depth THEN source.recovering \ {Depth} ELSE source.recovering]
    BY <1>1, Zenon DEF AfterRow
  <2>2. SourceTypeOK'
    BY <2>1, Zenon DEF NestInv, SourceTypeOK
  <2>3. /\ source'.administrative = source.administrative
        /\ source'.unhealthy = source.unhealthy \ {r.channel}
        /\ source'.recovering = IF r.channel = Depth THEN source.recovering \ {Depth} ELSE source.recovering
    BY <2>1, Zenon DEF NestInv, SourceTypeOK
  <2>4. r.channel = Depth => Depth \notin source.administrative
    BY <1>1, Zenon DEF Clears
  <2>5. OverlaysNest'
    BY <2>3, <2>4, Zenon DEF OverlaysNest, NestInv
  <2> QED BY <2>2, <2>5, Zenon DEF NestInv
<1>2. CASE ~Clears(source, r)
  BY <1>2, Zenon DEF AfterRow, NestInv, SourceTypeOK, OverlaysNest
<1> QED BY <1>1, <1>2, Zenon

\* A report only adds to the unhealthy overlay.
LEMMA ReportNests ==
  ASSUME NestInv, NEW r \in Reports, source' = AfterReport(source, r)
  PROVE  NestInv'
<1>1. source' = [source EXCEPT !.unhealthy = source.unhealthy \cup {r.channel}]
  BY Zenon DEF AfterReport
<1>2. SourceTypeOK'
  BY <1>1 DEF NestInv, SourceTypeOK, Reports
<1>3. /\ source'.administrative = source.administrative
      /\ source'.unhealthy = source.unhealthy \cup {r.channel}
      /\ source'.recovering = source.recovering
  BY <1>1, Zenon DEF NestInv, SourceTypeOK
<1>4. OverlaysNest'
  BY <1>3, Zenon DEF OverlaysNest, NestInv
<1> QED BY <1>2, <1>4, Zenon DEF NestInv

\* A marker of depth moves it between the two special overlays and marks it
\* unhealthy either way; a marker of another channel touches neither.
LEMMA MarkerNests ==
  ASSUME NestInv, NEW r \in Markers, source' = AfterMarker(source, r)
  PROVE  NestInv'
<1> DEFINE unhealthy == IF r.recovered /\ r.channel # Depth
                          THEN source.unhealthy \ {r.channel} ELSE source.unhealthy \cup {r.channel}
           held == IF r.channel # Depth THEN source.administrative
                   ELSE IF r.recovered THEN source.administrative \ {Depth} ELSE source.administrative \cup {Depth}
           pending == IF r.channel # Depth THEN source.recovering
                      ELSE IF r.recovered THEN source.recovering \cup {Depth} ELSE source.recovering \ {Depth}
<1>1. source' = [source EXCEPT !.gen = r.gen, !.unhealthy = unhealthy,
                               !.administrative = held, !.recovering = pending]
  BY Zenon DEF AfterMarker
<1>2. r.channel \in MarketChannels /\ r.gen \in 0..MaxGeneration
  BY BoundsAssumption DEF Markers
<1>3. /\ unhealthy \in SUBSET MarketChannels /\ held \in SUBSET MarketChannels /\ pending \in SUBSET MarketChannels
  BY <1>2, DepthAssumption, Zenon DEF NestInv, SourceTypeOK
<1>4. SourceTypeOK'
  <2> HIDE DEF unhealthy, held, pending
  <2> QED BY <1>1, <1>2, <1>3, Zenon DEF NestInv, SourceTypeOK
<1>5. source'.unhealthy = unhealthy /\ source'.administrative = held /\ source'.recovering = pending
  <2> HIDE DEF unhealthy, held, pending
  <2> QED BY <1>1, Zenon DEF NestInv, SourceTypeOK
<1>6. CASE r.channel # Depth
  BY <1>4, <1>5, <1>6, Zenon DEF NestInv, OverlaysNest
<1>7. CASE r.channel = Depth
  <2>1. CASE r.recovered
    BY <1>4, <1>5, <1>7, <2>1, Zenon DEF NestInv, OverlaysNest
  <2>2. CASE ~r.recovered
    BY <1>4, <1>5, <1>7, <2>2, Zenon DEF NestInv, OverlaysNest
  <2> QED BY <2>1, <2>2, Zenon
<1> QED BY <1>6, <1>7, Zenon

\* A transition filters the three overlays by the same rule.
LEMMA TransitionNests ==
  ASSUME NestInv, NEW t \in Transitions, source' = AfterTransition(source, t)
  PROVE  NestInv'
<1>1. /\ source'.unhealthy = Kept(source, t, source.unhealthy)
      /\ source'.administrative = Kept(source, t, source.administrative)
      /\ source'.recovering = Kept(source, t, source.recovering)
  BY Zenon DEF AfterTransition
<1>2. OverlaysNest'
  BY <1>1, Zenon DEF OverlaysNest, NestInv, Kept
<1>3. /\ t.gen \in 0..MaxGeneration /\ t.after \in SUBSET MarketChannels /\ t.exact \in SUBSET MarketChannels
      /\ t.rules \in Rules /\ t.revision \in 0..MaxRevision
  BY BoundsAssumption DEF Transitions
<1>4. /\ Kept(source, t, source.unhealthy) \in SUBSET MarketChannels
      /\ Kept(source, t, source.administrative) \in SUBSET MarketChannels
      /\ Kept(source, t, source.recovering) \in SUBSET MarketChannels
  BY Zenon DEF Kept, NestInv, SourceTypeOK
<1>5. SourceTypeOK'
  BY <1>3, <1>4, Zenon DEF AfterTransition, SourceTypeOK
<1> QED BY <1>2, <1>5, Zenon DEF NestInv

LEMMA InitNests ==
  SourceInit => NestInv
<1> SUFFICES ASSUME SourceInit PROVE NestInv
  BY Zenon
<1>1. PICK present \in BOOLEAN, offered \in SUBSET MarketChannels, rules \in Rules :
        \E exact \in SUBSET offered :
          source = Initial(present /\ offered # {}, 1, offered, exact, rules)
  BY Zenon DEF SourceInit
<1>2. PICK exact \in SUBSET offered :
        source = Initial(present /\ offered # {}, 1, offered, exact, rules)
  BY <1>1, Zenon
<1> QED BY <1>2, BoundsAssumption DEF Initial, NestInv, SourceTypeOK, OverlaysNest

\* One record keeps the overlays nested.
LEMMA NestStep ==
  ASSUME NestInv, NEW r \in Records, Advance(r)
  PROVE  NestInv'
<1>1. CASE r \in Rows
  <2>1. r.kind = "row" BY <1>1, Zenon DEF Rows
  <2> QED BY <1>1, <2>1, RowNests, Zenon DEF Advance, Advanced
<1>2. CASE r \in Reports
  <2>1. r.kind = "report" BY <1>2, Zenon DEF Reports
  <2> QED BY <1>2, <2>1, ReportNests, Zenon DEF Advance, Advanced
<1>3. CASE r \in Markers
  <2>1. r.kind = "marker" BY <1>3, Zenon DEF Markers
  <2> QED BY <1>3, <2>1, MarkerNests, Zenon DEF Advance, Advanced
<1>4. CASE r \in Transitions
  <2>1. r.kind = "transition" BY <1>4, Zenon DEF Transitions
  <2> QED BY <1>4, <2>1, TransitionNests, Zenon DEF Advance, Advanced
<1> QED BY <1>1, <1>2, <1>3, <1>4, Zenon DEF Records

\* Whatever records a stored stream holds, a source it accepts keeps its
\* overlays nested: the loss mark and the pending recovery are exclusive,
\* concern depth only, and each implies that depth is reported unhealthy.
THEOREM SourceOverlaysNest == SourceSpec => []OverlaysNest
<1>1. SourceInit => NestInv
  BY InitNests, Zenon
<1>2. NestInv /\ [SourceNext]_sourceVars => NestInv'
  <2> SUFFICES ASSUME NestInv, [SourceNext]_sourceVars PROVE NestInv'
    BY Zenon
  <2>1. CASE UNCHANGED sourceVars
    BY <2>1, Zenon DEF sourceVars, NestInv, SourceTypeOK, OverlaysNest
  <2> QED BY <2>1, NestStep, Zenon DEF SourceNext
<1>3. NestInv => OverlaysNest
  BY Zenon DEF NestInv
<1> QED BY <1>1, <1>2, <1>3, PTL DEF SourceSpec

-----------------------------------------------------------------------------
(* What the stored stream says and what the state holds.                   *)

\* The overlays are functions of the stream: the loss mark stands for a loss
\* marker not answered yet.
HistoryInv ==
  /\ log \in Seq(Records)
  /\ UnhealthyByHistory
  /\ Depth \in source.administrative <=> HeldAt(Len(log) + 1)

\* The state holds the subscription of the last transition and the latest
\* generation.
SubscriptionInv ==
  /\ RowsUnderSubscription
  /\ \A j \in 1..Len(log) :
       /\ log[j].gen <= source.gen
       /\ log[j].kind = "transition" /\ (\A k \in j + 1..Len(log) : log[k].kind # "transition")
            => log[j].after = source.available /\ log[j].exact = source.exact

\* A record is added behind the others.
LEMMA RecordAdded ==
  ASSUME log \in Seq(Records), NEW r \in Records, log' = Append(log, r)
  PROVE  /\ Len(log) \in Nat /\ Len(log') = Len(log) + 1 /\ log' \in Seq(Records)
         /\ log'[Len(log) + 1] = r
         /\ \A i \in 1..Len(log) : log'[i] = log[i]
OBVIOUS

\* What an earlier record says is not changed by a later one.
LEMMA EarlierRecords ==
  ASSUME log \in Seq(Records), NEW r \in Records, log' = Append(log, r)
  PROVE  /\ \A i \in 1..Len(log) : \A c : (Alarms(i, c)' <=> Alarms(i, c)) /\ (Heals(i, c)' <=> Heals(i, c))
         /\ \A i \in 1..Len(log) + 1 : HeldAt(i)' <=> HeldAt(i)
<1>1. Len(log) \in Nat /\ \A i \in 1..Len(log) : log'[i] = log[i]
  BY RecordAdded, Zenon
<1>2. \A i \in 1..Len(log) : \A c : (Restarts(i, c)' <=> Restarts(i, c)) /\ (Alarms(i, c)' <=> Alarms(i, c))
  BY <1>1, Zenon DEF Restarts, Alarms
<1>3. ASSUME NEW i \in 1..Len(log) + 1 PROVE HeldAt(i)' <=> HeldAt(i)
  <2>1. \A j \in 1..i - 1 : j \in 1..Len(log) /\ \A k \in j + 1..i - 1 : k \in 1..Len(log)
    BY <1>1
  <2> QED BY <1>1, <1>2, <2>1, Zenon DEF HeldAt
<1>4. \A i \in 1..Len(log) : \A c : Heals(i, c)' <=> Heals(i, c)
  <2>1. \A i \in 1..Len(log) : i \in 1..Len(log) + 1
    BY <1>1
  <2> QED BY <1>1, <1>2, <1>3, <2>1 DEF Heals
<1> QED BY <1>2, <1>3, <1>4, Zenon

\* The verdict of the stream about a channel after one more record.
LEMMA HistoryAdded ==
  ASSUME HistoryInv, NEW r \in Records, log' = Append(log, r), NEW n, n = Len(log) + 1
  PROVE  /\ \A c \in MarketChannels :
              (\E i \in 1..Len(log') : Alarms(i, c)' /\ \A j \in i + 1..Len(log') : ~Heals(j, c)')
                <=> Alarms(n, c)' \/ (c \in source.unhealthy /\ ~Heals(n, c)')
         /\ HeldAt(Len(log) + 1)' <=>
              \/ r.kind = "marker" /\ r.channel = Depth /\ ~r.recovered
              \/ /\ Depth \in source.administrative /\ ~Restarts(n, Depth)'
                 /\ ~(r.kind = "marker" /\ r.channel = Depth)
<1>1. /\ Len(log) \in Nat /\ Len(log') = n /\ n \in Nat /\ n \in 1..n /\ log'[n] = r
      /\ \A i \in 1..n - 1 : log'[i] = log[i]
  BY RecordAdded DEF HistoryInv
<1>2. /\ \A i \in 1..n - 1 : \A c : (Alarms(i, c)' <=> Alarms(i, c)) /\ (Heals(i, c)' <=> Heals(i, c))
      /\ HeldAt(n)' <=> HeldAt(n)
  BY <1>1, EarlierRecords DEF HistoryInv
<1>3. /\ 1..n = (1..n - 1) \cup {n}
      /\ \A i \in 1..n - 1 : i + 1..n = (i + 1..n - 1) \cup {n} /\ \A j \in i + 1..n - 1 : j \in 1..n - 1
      /\ n + 1..n = {} /\ n + 1 - 1 = n
  BY <1>1
<1>4. ASSUME NEW c \in MarketChannels
      PROVE  (\E i \in 1..n : Alarms(i, c)' /\ \A j \in i + 1..n : ~Heals(j, c)')
               <=> Alarms(n, c)' \/ (c \in source.unhealthy /\ ~Heals(n, c)')
  <2>1. c \in source.unhealthy <=>
          \E i \in 1..n - 1 : Alarms(i, c) /\ \A j \in i + 1..n - 1 : ~Heals(j, c)
    BY <1>1 DEF HistoryInv, UnhealthyByHistory
  <2>2. ASSUME NEW i \in 1..n - 1
        PROVE  (Alarms(i, c)' /\ \A j \in i + 1..n : ~Heals(j, c)')
                 <=> (Alarms(i, c) /\ \A j \in i + 1..n - 1 : ~Heals(j, c)) /\ ~Heals(n, c)'
    BY <1>2, <1>3
  <2>3. (Alarms(n, c)' /\ \A j \in n + 1..n : ~Heals(j, c)') <=> Alarms(n, c)'
    BY <1>3, Zenon
  <2> QED BY <1>3, <2>1, <2>2, <2>3, Zenon
<1>5. HeldAt(n + 1)' <=>
        \/ r.kind = "marker" /\ r.channel = Depth /\ ~r.recovered
        \/ /\ HeldAt(n) /\ ~Restarts(n, Depth)'
           /\ ~(r.kind = "marker" /\ r.channel = Depth)
  <2> DEFINE M(j) == log'[j].kind = "marker" /\ log'[j].channel = Depth
             Q(k) == ~Restarts(k, Depth)' /\ ~M(k)
             L(j) == M(j) /\ ~log'[j].recovered
  <2>1. HeldAt(n + 1)' <=> \E j \in 1..n : L(j) /\ \A k \in j + 1..n : Q(k)
    <3>1. HeldAt(n + 1)' <=> \E j \in 1..(n + 1) - 1 : L(j) /\ \A k \in j + 1..(n + 1) - 1 : Q(k)
      BY Zenon DEF HeldAt
    <3> HIDE DEF L, Q
    <3> QED BY <1>1, <1>3, <3>1
  <2>2. HeldAt(n)' <=> \E j \in 1..n - 1 : L(j) /\ \A k \in j + 1..n - 1 : Q(k)
    BY Zenon DEF HeldAt
  <2>3. (\E j \in 1..n : L(j) /\ \A k \in j + 1..n : Q(k)) <=>
          L(n) \/ ((\E j \in 1..n - 1 : L(j) /\ \A k \in j + 1..n - 1 : Q(k)) /\ Q(n))
    <3> HIDE DEF L, Q
    <3> QED BY <1>3
  <2>4. /\ L(n) <=> r.kind = "marker" /\ r.channel = Depth /\ ~r.recovered
        /\ Q(n) <=> ~Restarts(n, Depth)' /\ ~(r.kind = "marker" /\ r.channel = Depth)
    BY <1>1, Zenon
  <2> HIDE DEF L, Q
  <2> QED BY <1>2, <2>1, <2>2, <2>3, <2>4, Zenon
<1> QED BY <1>1, <1>4, <1>5, Zenon DEF HistoryInv

\* Each record changes the overlays as the stream now reads.
LEMMA HistoryStep ==
  ASSUME NestInv, HistoryInv, NEW r \in Records, Advance(r)
  PROVE  HistoryInv'
<1>0. PICK n : n = Len(log) + 1
  BY Zenon
<1>1. log' = Append(log, r) /\ source' = Advanced(source, r) /\ Accepts(source, r)
  BY Zenon DEF Advance
<1>2. Len(log') = n /\ log'[n] = r /\ log' \in Seq(Records)
  BY <1>0, <1>1, RecordAdded, Zenon DEF HistoryInv
<1>3. /\ source'.unhealthy \in SUBSET MarketChannels
      /\ source.unhealthy \in SUBSET MarketChannels
  <2>1. source.unhealthy \in SUBSET MarketChannels
    BY Zenon DEF NestInv, SourceTypeOK
  <2>2. SourceTypeOK'
    BY NestStep, Zenon DEF NestInv
  <2> QED BY <2>1, <2>2, Zenon DEF SourceTypeOK
<1> SUFFICES /\ \A c \in MarketChannels :
                  c \in source'.unhealthy <=>
                    Alarms(n, c)' \/ (c \in source.unhealthy /\ ~Heals(n, c)')
             /\ Depth \in source'.administrative <=>
                  \/ r.kind = "marker" /\ r.channel = Depth /\ ~r.recovered
                  \/ /\ Depth \in source.administrative /\ ~Restarts(n, Depth)'
                     /\ ~(r.kind = "marker" /\ r.channel = Depth)
  <2>1. /\ \A c \in MarketChannels :
             (\E i \in 1..Len(log') : Alarms(i, c)' /\ \A j \in i + 1..Len(log') : ~Heals(j, c)')
                <=> Alarms(n, c)' \/ (c \in source.unhealthy /\ ~Heals(n, c)')
        /\ HeldAt(Len(log) + 1)' <=>
             \/ r.kind = "marker" /\ r.channel = Depth /\ ~r.recovered
             \/ /\ Depth \in source.administrative /\ ~Restarts(n, Depth)'
                /\ ~(r.kind = "marker" /\ r.channel = Depth)
    BY <1>0, <1>1, HistoryAdded, Zenon
  <2>2. UnhealthyByHistory'
    BY <1>3, <2>1, Zenon DEF UnhealthyByHistory
  <2> QED BY <1>2, <2>1, <2>2, Zenon DEF HistoryInv
<1>4. CASE r \in Rows
  <2>1. r.kind = "row"
    BY <1>4, Zenon DEF Rows
  <2>2. /\ \A c : ~Alarms(n, c)' /\ ~Restarts(n, c)'
        /\ \A c : Heals(n, c)' <=>
             r.channel = c /\ r.exact /\ (c = Depth => r.book /\ ~HeldAt(n)')
    BY <1>2, <2>1, Zenon DEF Alarms, Restarts, Heals
  <2>3. HeldAt(n)' <=> Depth \in source.administrative
    <3>1. n \in 1..n /\ Len(log) \in Nat
      BY <1>0, <1>1, RecordAdded DEF HistoryInv
    <3> QED BY <1>0, <1>1, <3>1, EarlierRecords, Zenon DEF HistoryInv
  <2>4. source' = AfterRow(source, r)
    BY <1>1, <2>1, Zenon DEF Advanced
  <2>5. /\ source'.unhealthy = IF Clears(source, r) THEN source.unhealthy \ {r.channel} ELSE source.unhealthy
        /\ source'.administrative = source.administrative
    BY <2>4, Zenon DEF AfterRow, NestInv, SourceTypeOK
  <2> QED BY <2>1, <2>2, <2>3, <2>5, Zenon DEF Clears
<1>5. CASE r \in Reports
  <2>1. r.kind = "report"
    BY <1>5, Zenon DEF Reports
  <2>2. \A c : (Alarms(n, c)' <=> r.channel = c) /\ ~Restarts(n, c)' /\ ~Heals(n, c)'
    BY <1>2, <2>1, Zenon DEF Alarms, Restarts, Heals
  <2>3. source'.unhealthy = source.unhealthy \cup {r.channel}
        /\ source'.administrative = source.administrative
    BY <1>1, <2>1, Zenon DEF Advanced, AfterReport, NestInv, SourceTypeOK
  <2> QED BY <2>1, <2>2, <2>3, Zenon
<1>6. CASE r \in Markers
  <2>1. r.kind = "marker"
    BY <1>6, Zenon DEF Markers
  <2>2. \A c : /\ Alarms(n, c)' <=> r.channel = c /\ (r.recovered => c = Depth)
               /\ Heals(n, c)' <=> r.channel = c /\ r.recovered /\ c # Depth
               /\ ~Restarts(n, c)'
    BY <1>2, <2>1, Zenon DEF Alarms, Restarts, Heals
  <2>3. source' = AfterMarker(source, r)
    BY <1>1, <2>1, Zenon DEF Advanced
  <2>4. /\ source'.unhealthy = IF r.recovered /\ r.channel # Depth
                                 THEN source.unhealthy \ {r.channel} ELSE source.unhealthy \cup {r.channel}
        /\ source'.administrative = IF r.channel # Depth THEN source.administrative
                                    ELSE IF r.recovered THEN source.administrative \ {Depth}
                                    ELSE source.administrative \cup {Depth}
    BY <2>3, Zenon DEF AfterMarker, NestInv, SourceTypeOK
  <2>5. \A c \in MarketChannels :
          c \in source'.unhealthy <=> Alarms(n, c)' \/ (c \in source.unhealthy /\ ~Heals(n, c)')
    BY <2>2, <2>4, Zenon
  <2>6. Depth \in source'.administrative <=>
          \/ r.channel = Depth /\ ~r.recovered
          \/ Depth \in source.administrative /\ r.channel # Depth
    BY <2>4, Zenon
  <2> QED BY <2>1, <2>2, <2>5, <2>6, Zenon
<1>7. CASE r \in Transitions
  <2>1. r.kind = "transition"
    BY <1>7, Zenon DEF Transitions
  <2>2. r.previous = source.gen
    BY <1>1, <2>1, Zenon DEF Accepts, AcceptsTransition
  <2>3. \A c : /\ ~Alarms(n, c)'
               /\ Restarts(n, c)' <=> r.gen # source.gen \/ c \in Gained(r) \cup Lost(r)
               /\ Heals(n, c)' <=> Restarts(n, c)'
    BY <1>2, <2>1, <2>2, Zenon DEF Alarms, Restarts, Heals
  <2>4. /\ source'.unhealthy = Kept(source, r, source.unhealthy)
        /\ source'.administrative = Kept(source, r, source.administrative)
    BY <1>1, <2>1, Zenon DEF Advanced, AfterTransition
  <2>5. \A c, marks : c \in Kept(source, r, marks) <=> c \in marks /\ ~Restarts(n, c)'
    BY <2>3, Zenon DEF Kept
  <2> QED BY <2>1, <2>3, <2>4, <2>5
<1> QED BY <1>4, <1>5, <1>6, <1>7, Zenon DEF Records

\* A row is accepted under the subscription and the generation in force.
LEMMA SubscriptionStep ==
  ASSUME NestInv, log \in Seq(Records), SubscriptionInv, NEW r \in Records, Advance(r)
  PROVE  SubscriptionInv'
<1> DEFINE n == Len(log) + 1
           Newest(j) == log[j].kind = "transition" /\ \A k \in j + 1..n - 1 : log[k].kind # "transition"
<1>1. log' = Append(log, r) /\ source' = Advanced(source, r) /\ Accepts(source, r)
  BY Zenon DEF Advance
<1>2. /\ Len(log) \in Nat /\ Len(log') = n /\ log'[n] = r /\ n \in 1..n
      /\ \A i \in 1..n - 1 : log'[i] = log[i]
  BY <1>1, RecordAdded
<1>3. 1..n = (1..n - 1) \cup {n} /\ n + 1..n = {} /\ n - 1 = Len(log)
  BY <1>2
<1>4. \A j \in 1..n - 1 : /\ log[j].gen <= source.gen
                          /\ Newest(j) => log[j].after = source.available /\ log[j].exact = source.exact
  BY <1>3, Zenon DEF SubscriptionInv
<1>5. /\ r.gen \in Nat /\ source.gen \in Nat /\ \A j \in 1..n - 1 : log[j].gen \in Nat
  <2>1. \A q \in Records : q.gen \in Nat
    BY BoundsAssumption DEF Records, Rows, Reports, Markers, Transitions
  <2>2. source.gen \in Nat
    BY BoundsAssumption DEF NestInv, SourceTypeOK
  <2> QED BY <1>3, <2>1, <2>2
<1>6. /\ source.gen <= r.gen /\ source'.gen = r.gen
      /\ r.kind = "row" => r.channel \in source.available /\ (r.exact => r.channel \in source.exact)
      /\ r.kind = "transition" => source'.available = r.after /\ source'.exact = r.exact
      /\ r.kind # "transition" => source'.available = source.available /\ source'.exact = source.exact
  <2>1. CASE r \in Rows
    <3>1. r.kind = "row"
      BY <2>1, Zenon DEF Rows
    <3>2. r.gen = source.gen /\ r.channel \in source.available /\ (r.exact => r.channel \in source.exact)
      BY <1>1, <3>1, Zenon DEF Accepts, AcceptsRow
    <3>3. source'.gen = source.gen /\ source'.available = source.available /\ source'.exact = source.exact
      BY <1>1, <3>1, Zenon DEF Advanced, AfterRow, NestInv, SourceTypeOK
    <3> QED BY <1>5, <3>1, <3>2, <3>3
  <2>2. CASE r \in Reports
    <3>1. r.kind = "report"
      BY <2>2, Zenon DEF Reports
    <3>2. r.gen = source.gen
      BY <1>1, <3>1, Zenon DEF Accepts, AcceptsReport
    <3>3. source'.gen = source.gen /\ source'.available = source.available /\ source'.exact = source.exact
      BY <1>1, <3>1, Zenon DEF Advanced, AfterReport, NestInv, SourceTypeOK
    <3> QED BY <1>5, <3>1, <3>2, <3>3
  <2>3. CASE r \in Markers
    <3>1. r.kind = "marker"
      BY <2>3, Zenon DEF Markers
    <3>2. source.gen <= r.gen
      BY <1>1, <1>5, <3>1, Zenon DEF Accepts, AcceptsMarker
    <3>3. source'.gen = r.gen /\ source'.available = source.available /\ source'.exact = source.exact
      BY <1>1, <3>1, Zenon DEF Advanced, AfterMarker, NestInv, SourceTypeOK
    <3> QED BY <3>1, <3>2, <3>3, Zenon
  <2>4. CASE r \in Transitions
    <3>1. r.kind = "transition"
      BY <2>4, Zenon DEF Transitions
    <3>2. source.gen <= r.gen
      BY <1>1, <1>5, <3>1, Zenon DEF Accepts, AcceptsTransition
    <3>3. source'.gen = r.gen /\ source'.available = r.after /\ source'.exact = r.exact
      BY <1>1, <3>1, Zenon DEF Advanced, AfterTransition
    <3> QED BY <3>1, <3>2, <3>3, Zenon
  <2> QED BY <2>1, <2>2, <2>3, <2>4, Zenon DEF Records
<1>7. RowsUnderSubscription'
  <2> SUFFICES ASSUME NEW i \in 1..n, log'[i].kind = "row", NEW j \in 1..i - 1
               PROVE  /\ log'[j].kind = "transition" /\ (\A k \in j + 1..i - 1 : log'[k].kind # "transition")
                           => log'[i].channel \in log'[j].after
                              /\ (log'[i].exact => log'[i].channel \in log'[j].exact)
                      /\ log'[j].gen <= log'[i].gen
    BY <1>2, Zenon DEF RowsUnderSubscription
  <2>1. j \in 1..n - 1 /\ log'[j] = log[j] /\ \A k \in j + 1..i - 1 : log'[k] = log[k]
    BY <1>2
  <2>2. CASE i = n
    <3>1. log[j].gen <= r.gen
      BY <1>4, <1>5, <1>6, <2>1
    <3> QED BY <1>2, <1>4, <1>6, <2>1, <2>2, <3>1
  <2>3. CASE i # n
    <3>1. i \in 1..Len(log) /\ log'[i] = log[i]
      BY <1>2, <1>3, <2>3, Zenon
    <3> QED BY <2>1, <3>1 DEF SubscriptionInv, RowsUnderSubscription
  <2> QED BY <2>2, <2>3, Zenon
<1>8. ASSUME NEW j \in 1..n
      PROVE  /\ log'[j].gen <= source'.gen
             /\ log'[j].kind = "transition" /\ (\A k \in j + 1..n : log'[k].kind # "transition")
                  => log'[j].after = source'.available /\ log'[j].exact = source'.exact
  <2>1. CASE j = n
    BY <1>2, <1>5, <1>6, <2>1
  <2>2. CASE j # n
    <3>1. j \in 1..n - 1 /\ log'[j] = log[j] /\ n \in j + 1..n
          /\ \A k \in j + 1..n - 1 : k \in j + 1..n /\ log'[k] = log[k]
      BY <1>2, <1>3, <2>2
    <3>2. log[j].gen <= r.gen
      BY <1>4, <1>5, <1>6, <3>1
    <3> QED BY <1>2, <1>4, <1>6, <3>1, <3>2
  <2> QED BY <2>1, <2>2, Zenon
<1> QED BY <1>2, <1>7, <1>8, Zenon DEF SubscriptionInv

StreamInv == NestInv /\ HistoryInv /\ SubscriptionInv

LEMMA StreamInvariant == SourceSpec => []StreamInv
<1>1. SourceInit => StreamInv
  <2> SUFFICES ASSUME SourceInit PROVE StreamInv
    BY Zenon
  <2>1. log = <<>> /\ Len(log) = 0 /\ source.unhealthy = {} /\ source.administrative = {}
    BY DEF SourceInit, Initial
  <2>2. HistoryInv
    BY <2>1 DEF HistoryInv, UnhealthyByHistory, HeldAt
  <2>3. SubscriptionInv
    BY <2>1 DEF SubscriptionInv, RowsUnderSubscription
  <2> QED BY <2>2, <2>3, InitNests, Zenon DEF StreamInv
<1>2. StreamInv /\ [SourceNext]_sourceVars => StreamInv'
  <2> SUFFICES ASSUME StreamInv, [SourceNext]_sourceVars PROVE StreamInv'
    BY Zenon
  <2>1. CASE UNCHANGED sourceVars
    <3>1. source' = source /\ log' = log
      BY <2>1, Zenon DEF sourceVars
    <3>2. NestInv'
      BY <3>1, Zenon DEF StreamInv, NestInv, SourceTypeOK, OverlaysNest
    <3>3. \A i, c : (Restarts(i, c)' <=> Restarts(i, c)) /\ (Alarms(i, c)' <=> Alarms(i, c))
      BY <3>1, Zenon DEF Restarts, Alarms
    <3>4. \A i : HeldAt(i)' <=> HeldAt(i)
      BY <3>1, <3>3, Zenon DEF HeldAt
    <3>5. \A i, c : Heals(i, c)' <=> Heals(i, c)
      BY <3>1, <3>3, <3>4 DEF Heals
    <3>6. UnhealthyByHistory'
      BY <3>1, <3>3, <3>5, Zenon DEF StreamInv, HistoryInv, UnhealthyByHistory
    <3>7. HeldAt(Len(log) + 1)' <=> HeldAt(Len(log) + 1)
      BY <3>1, <3>3, Zenon DEF HeldAt
    <3>8. HistoryInv'
      BY <3>1, <3>6, <3>7, Zenon DEF StreamInv, HistoryInv
    <3>9. SubscriptionInv'
      BY <3>1, Zenon DEF StreamInv, SubscriptionInv, RowsUnderSubscription
    <3> QED BY <3>2, <3>8, <3>9, Zenon DEF StreamInv
  <2>2. ASSUME NEW r \in Records, Advance(r) PROVE StreamInv'
    BY <2>2, NestStep, HistoryStep, SubscriptionStep, Zenon DEF StreamInv, HistoryInv
  <2> QED BY <2>1, <2>2, Zenon DEF SourceNext
<1> QED BY <1>1, <1>2, PTL DEF SourceSpec

\* For any stream, a source's unhealthy channels are those with an alarm that
\* nothing has healed since: the overlays, kept record by record, say no more
\* and no less than a reading of the whole stream.
THEOREM HealthIsHistory == SourceSpec => []UnhealthyByHistory
<1>1. StreamInv => UnhealthyByHistory
  BY Zenon DEF StreamInv, HistoryInv
<1> QED BY <1>1, StreamInvariant, PTL

\* For any stream, each market row is of a channel that the last transition
\* before it makes available, and of no earlier generation than any record
\* before it.
THEOREM RowsSubscribed == SourceSpec => []RowsUnderSubscription
<1>1. StreamInv => RowsUnderSubscription
  BY Zenon DEF StreamInv, SubscriptionInv
<1> QED BY <1>1, StreamInvariant, PTL

-----------------------------------------------------------------------------
(* The capture queue, for every capacity, every cursor limit and every     *)
(* interleaving of its three threads.                                      *)

(* The calls the corpus writer took so far; the worker moves read_ one     *)
(* step later.                                                             *)
Consumed == IF workerPc = "advance" THEN read_ + 1 ELSE read_

(* Cursors: what each thread may assume of the other's counter. *)
CursorInv ==
    /\ Len(accepted) = written_
    /\ Len(applied) = Consumed
    /\ Consumed <= written_
    /\ callerPc \notin {"draining", "drained"} => read = Consumed
    /\ workerPc = "consume" => read < written_
    /\ written_ <= read_ + Capacity
    /\ callerPc \in {"copy", "publish"} =>
         written_ < read_ + Capacity /\ written_ < SequenceLimit
    /\ durable <= Len(applied)

(* Slots: everything between the cursors is what was acknowledged. *)
SlotInv ==
    /\ \A i \in read_ .. written_ - 1 :
         CallFor(records_[i % Capacity]) = accepted[i + 1]
    /\ callerPc = "publish" => CallFor(records_[written_ % Capacity]) = call

(* Shutdown: how far each thread is when the stop flag is up. *)
StopInv ==
    /\ stop => stop_
    /\ stop_ <=> callerPc \notin {"idle", "copy", "publish"}
    /\ callerPc \in {"finished", "draining", "drained"} => workerPc = "exited"
    /\ workerPc # "exited" => status_ = "Ok"
    /\ callerPc = "draining" => status_ # "Error"
    /\ callerPc = "finished" => result = status_
    /\ callerPc = "drained" /\ result = "Ok" => read_ = written_

(* Commits: what the dirty flag says about the last cut. *)
CommitInv ==
    /\ workerPc # "advance" /\ ~dirty /\ callerPc \notin {"draining", "drained"} =>
         durable = Len(applied) /\ durableReference = reference
    /\ ~referencePending_ => reference = referencePayload_
    /\ workerPc = "tail" /\ stop /\ read = written_ => ~dirty
    /\ workerPc = "exited" /\ status_ = "Ok" /\ callerPc \notin {"draining", "drained"} =>
         stop_ /\ read = written_ /\ ~dirty

IInv == TypeOK /\ CursorInv /\ SlotInv /\ AppliedInOrder /\ StopInv /\ CommitInv

(* What a log of calls is after one more.                                  *)
LEMMA AppendedCall ==
    ASSUME NEW S, NEW seq \in Seq(S), NEW elt \in S
    PROVE  /\ Append(seq, elt) \in Seq(S)
           /\ Len(Append(seq, elt)) = Len(seq) + 1
           /\ \A i \in 1 .. Len(seq) : Append(seq, elt)[i] = seq[i]
           /\ Append(seq, elt)[Len(seq) + 1] = elt
OBVIOUS

LEMMA SameCalls ==
    ASSUME NEW S, NEW s \in Seq(S), NEW t \in Seq(S), Len(s) = Len(t),
           \A i \in 1 .. Len(s) : s[i] = t[i]
    PROVE  s = t
OBVIOUS

-----------------------------------------------------------------------------
(* Two cursor values less than a capacity apart never share a slot, which  *)
(* is why the guard of enqueue() protects every unread item.               *)
LEMMA SlotsDistinct ==
    ASSUME NEW c \in Nat \ {0}, NEW a \in Nat, NEW b \in Nat, a < b, b < a + c
    PROVE  a % c # b % c
<1> DEFINE p == a \div c
           q == b \div c
<1>1. p \in Nat /\ q \in Nat /\ a % c \in Nat /\ b % c \in Nat
  OBVIOUS
<1>2. a = (c * p) + (a % c) /\ b = (c * q) + (b % c)
  OBVIOUS
<1> SUFFICES ASSUME a % c = b % c PROVE FALSE
  BY Zenon
<1> HIDE DEF p, q
<1>3. b - a = c * (q - p)
  BY <1>1, <1>2
<1>4. CASE q <= p
  <2>1. c * (q - p) <= 0
    BY <1>1, <1>4
  <2> QED BY <2>1, <1>3
<1>5. CASE q > p
  <2>1. c * (q - p) >= c
    BY <1>1, <1>5
  <2> QED BY <2>1, <1>3
<1> QED BY <1>1, <1>4, <1>5

LEMMA SlotInRange ==
    ASSUME NEW i \in Nat
    PROVE  i % Capacity \in 0 .. Capacity - 1
BY CapacityAssumption

(* consume() makes the call that the public method encoded. *)
LEMMA CallRoundTrip ==
    ASSUME NEW e \in Entry
    PROVE  /\ [kind |-> KindOf(e.op), bytes |-> e.payload] \in Item
           /\ CallFor([kind |-> KindOf(e.op), bytes |-> e.payload]) = e
BY DEF Entry, Op, Item, KindOf, CallFor

LEMMA CallForType ==
    ASSUME NEW item \in Item
    PROVE  CallFor(item) \in Entry
BY Zenon DEF Entry, Op, Item, CallFor

LEMMA AdmissionOk ==
    ASSUME TypeOK, Admission = "Ok"
    PROVE  ~stop_ /\ ~QueueFull /\ ~CursorSpent
BY Zenon DEF Admission, TypeOK, Status

LEMMA AdmissionType ==
    ASSUME TypeOK
    PROVE  Admission \in Reply
BY Zenon DEF Admission, TypeOK, Status, Reply

(* What a step of the three threads is. *)
LEMMA Steps ==
  ASSUME [Next]_vars
  PROVE  \/ UNCHANGED vars
         \/ \E entry \in Entry : EnqueueCheck(entry)
         \/ \E payload \in Reference : AppendReferencePayload(payload)
         \/ EnqueueCopy \/ EnqueuePublish
         \/ WorkerLoad \/ WorkerConsume \/ WorkerAdvance \/ WorkerReference
         \/ WorkerStop \/ WorkerPublish \/ WorkerTail
         \/ FinishRequest \/ FinishJoin
         \/ DrainFrozenStart \/ DrainFrozenRecord \/ DrainFrozenEnd
BY Zenon DEF Next, Caller, Worker, DrainFrozen

(* Which steps write what. *)
Writers ==
    /\ UNCHANGED records_ \/ EnqueueCopy
    /\ UNCHANGED <<written_, accepted>> \/ EnqueuePublish
    /\ UNCHANGED read_ \/ WorkerAdvance \/ DrainFrozenRecord
    /\ UNCHANGED applied \/ WorkerConsume \/ DrainFrozenRecord
    /\ UNCHANGED reference \/ WorkerReference
    /\ UNCHANGED durable \/ WorkerPublish
    /\ callerPc' = "publish" => EnqueueCopy \/ UNCHANGED <<callerPc, call>>

LEMMA StepWriters ==
  ASSUME [Next]_vars
  PROVE  Writers
<1>1. CASE UNCHANGED vars
  BY <1>1, Zenon DEF Writers, vars, queueVars, callerVars, corpusVars
<1>2. ASSUME NEW entry \in Entry, EnqueueCheck(entry) PROVE Writers
  BY <1>2, Zenon DEF Writers, EnqueueCheck, queueVars, corpusVars
<1>3. ASSUME NEW payload \in Reference, AppendReferencePayload(payload) PROVE Writers
  BY <1>3, Zenon DEF Writers, AppendReferencePayload, queueVars, callerVars, corpusVars
<1>4. CASE EnqueueCopy
  BY <1>4, Zenon DEF Writers, EnqueueCopy, queueVars, corpusVars
<1>5. CASE EnqueuePublish
  BY <1>5, Zenon DEF Writers, EnqueuePublish, corpusVars
<1>6. CASE WorkerLoad
  BY <1>6, Zenon DEF Writers, WorkerLoad, queueVars, callerVars, corpusVars
<1>7. CASE WorkerConsume
  BY <1>7, Zenon DEF Writers, WorkerConsume, callerVars
<1>8. CASE WorkerAdvance
  BY <1>8, Zenon DEF Writers, WorkerAdvance, callerVars, corpusVars
<1>9. CASE WorkerReference
  BY <1>9, Zenon DEF Writers, WorkerReference, callerVars
<1>10. CASE WorkerStop
  BY <1>10, Zenon DEF Writers, WorkerStop, queueVars, callerVars, corpusVars
<1>11. CASE WorkerPublish
  BY <1>11, Zenon DEF Writers, WorkerPublish, callerVars
<1>12. CASE WorkerTail
  BY <1>12, Zenon DEF Writers, WorkerTail, queueVars, callerVars, corpusVars
<1>13. CASE FinishRequest
  BY <1>13, Zenon DEF Writers, FinishRequest, corpusVars
<1>14. CASE FinishJoin
  BY <1>14, Zenon DEF Writers, FinishJoin, queueVars, corpusVars
<1>15. CASE DrainFrozenStart
  BY <1>15, Zenon DEF Writers, DrainFrozenStart, queueVars, corpusVars
<1>16. CASE DrainFrozenRecord
  BY <1>16, Zenon DEF Writers, DrainFrozenRecord
<1>17. CASE DrainFrozenEnd
  BY <1>17, Zenon DEF Writers, DrainFrozenEnd, corpusVars
<1> QED
  BY <1>1, <1>2, <1>3, <1>4, <1>5, <1>6, <1>7, <1>8, <1>9,
     <1>10, <1>11, <1>12, <1>13, <1>14, <1>15, <1>16, <1>17, Steps, Zenon

-----------------------------------------------------------------------------
LEMMA InitInv == Init => IInv
<1> SUFFICES ASSUME Init PROVE IInv
  BY Zenon
<1> USE CapacityAssumption, SequenceLimitAssumption
<1>1. call \in Entry
  BY PayloadAssumption, Zenon DEF Init, Entry, Op
<1>2. records_ \in [0 .. Capacity - 1 -> Item]
  BY DEF Init, Item
<1>3. accepted \in Seq(Entry) /\ applied \in Seq(Entry)
  BY DEF Init
<1>3a. TypeOK
  BY <1>1, <1>2, <1>3, 0 \in 0 .. SequenceLimit, Zenon DEF Init, TypeOK, Status, Reply
<1>4. CursorInv
  BY DEF Init, CursorInv, Consumed
<1>5. SlotInv /\ AppliedInOrder
  BY DEF Init, SlotInv, AppliedInOrder
<1>6. StopInv /\ CommitInv
  BY Zenon DEF Init, StopInv, CommitInv
<1> QED BY <1>3a, <1>4, <1>5, <1>6, Zenon DEF IInv

LEMMA TypeStep == IInv /\ [Next]_vars => TypeOK'
<1> SUFFICES ASSUME IInv, [Next]_vars PROVE TypeOK'
  BY Zenon
<1> USE CapacityAssumption, SequenceLimitAssumption
<1>a. TypeOK /\ CursorInv
  BY Zenon DEF IInv
<1> USE <1>a
<1>1. CASE UNCHANGED vars
  BY <1>1 DEF TypeOK, vars, queueVars, slotVars, workerVars, callerVars, corpusVars
<1>2. ASSUME NEW entry \in Entry, EnqueueCheck(entry) PROVE TypeOK'
  BY <1>2, AdmissionType
     DEF EnqueueCheck, TypeOK, queueVars, slotVars, workerVars, corpusVars
<1>3. CASE EnqueueCopy
  <2>1. records_' \in [0 .. Capacity - 1 -> Item]
    BY <1>3, CallRoundTrip, SlotInRange, Zenon DEF EnqueueCopy, TypeOK
  <2> QED BY <1>3, <2>1 DEF EnqueueCopy, TypeOK, slotVars, workerVars, corpusVars
<1>4. CASE EnqueuePublish
  <2>1. accepted' \in Seq(Entry)
    BY <1>4 DEF EnqueuePublish, TypeOK
  <2>2. written_' \in 0 .. SequenceLimit
    BY <1>4 DEF EnqueuePublish, TypeOK, CursorInv
  <2> QED BY <1>4, <2>1, <2>2 DEF EnqueuePublish, TypeOK, slotVars, workerVars, corpusVars
<1>5. ASSUME NEW payload \in Reference, AppendReferencePayload(payload) PROVE TypeOK'
  BY <1>5 DEF AppendReferencePayload, TypeOK, queueVars, workerVars, callerVars, corpusVars
<1>6. CASE WorkerLoad
  BY <1>6 DEF WorkerLoad, TypeOK, queueVars, slotVars, callerVars, corpusVars
<1>7. CASE WorkerConsume
  <2>1. CallFor(records_[read % Capacity]) \in Entry
    BY CallForType, SlotInRange, Zenon DEF TypeOK
  <2>2. applied' \in Seq(Entry) /\ read' \in Nat
    <3> DEFINE longer == Append(applied, CallFor(records_[read % Capacity]))
    <3>1. longer \in Seq(Entry) /\ applied \in Seq(Entry) /\ read \in Nat
      BY <2>1, AppendedCall, Zenon DEF TypeOK
    <3>2. (applied' = longer /\ read' = read + 1) \/ (applied' = applied /\ read' = read)
      BY <1>7, Zenon DEF WorkerConsume
    <3> HIDE DEF longer
    <3> QED BY <3>1, <3>2
  <2>3. status_' \in Status
        /\ workerPc' \in {"load", "consume", "advance", "reference", "stop",
                         "publish", "tail", "exited"}
    BY <1>7, Zenon DEF WorkerConsume, Exit, TypeOK, Status
  <2>4. UNCHANGED <<records_, written_, read_, stop_, slotVars, stop, dirty,
                    callerVars, reference, durable, durableReference>>
    BY <1>7, Zenon DEF WorkerConsume
  <2> QED BY <2>2, <2>3, <2>4 DEF TypeOK, slotVars, callerVars
<1>8. CASE WorkerAdvance
  BY <1>8 DEF WorkerAdvance, TypeOK, slotVars, callerVars, corpusVars
<1>9. CASE WorkerReference
  <2>1. referencePending_' \in BOOLEAN /\ dirty' \in BOOLEAN
        /\ reference' \in Reference \cup {NoReference}
    BY <1>9, Zenon DEF WorkerReference, TypeOK
  <2>2. status_' \in Status /\ workerPc' \in {"stop", "exited"}
    BY <1>9, Zenon DEF WorkerReference, Exit, TypeOK, Status
  <2>3. UNCHANGED <<records_, written_, read_, stop_, referencePayload_, read, stop,
                    callerVars, applied, durable, durableReference>>
    BY <1>9, Zenon DEF WorkerReference
  <2> QED BY <2>1, <2>2, <2>3, Zenon DEF TypeOK, callerVars
<1>10. CASE WorkerStop
  BY <1>10 DEF WorkerStop, TypeOK, queueVars, slotVars, callerVars, corpusVars
<1>11. CASE WorkerPublish
  <2>1. dirty' \in BOOLEAN /\ durable' \in Nat
        /\ durableReference' \in Reference \cup {NoReference}
    BY <1>11 DEF WorkerPublish, TypeOK
  <2>2. status_' \in Status /\ workerPc' \in {"tail", "exited"}
    BY <1>11, Zenon DEF WorkerPublish, Exit, TypeOK, Status
  <2>3. UNCHANGED <<records_, written_, read_, stop_, slotVars, read, stop, callerVars,
                    applied, reference>>
    BY <1>11, Zenon DEF WorkerPublish
  <2> QED BY <2>1, <2>2, <2>3 DEF TypeOK, slotVars, callerVars
<1>12. CASE WorkerTail
  BY <1>12 DEF WorkerTail, TypeOK, queueVars, slotVars, callerVars, corpusVars
<1>13. CASE FinishRequest
  BY <1>13 DEF FinishRequest, TypeOK, slotVars, workerVars, corpusVars
<1>14. CASE FinishJoin
  BY <1>14 DEF FinishJoin, TypeOK, Status, Reply, queueVars, slotVars, workerVars, corpusVars
<1>15. CASE DrainFrozenStart
  BY <1>15 DEF DrainFrozenStart, TypeOK, Status, Reply, queueVars, slotVars, workerVars, corpusVars
<1>16. CASE DrainFrozenRecord
  <2>1. CallFor(records_[read_ % Capacity]) \in Entry
    BY CallForType, SlotInRange, Zenon DEF TypeOK
  <2>2. applied' \in Seq(Entry) /\ read_' \in Nat
    <3> DEFINE longer == Append(applied, CallFor(records_[read_ % Capacity]))
    <3>1. longer \in Seq(Entry) /\ applied \in Seq(Entry) /\ read_ \in Nat
      BY <2>1, AppendedCall, Zenon DEF TypeOK
    <3>2. (applied' = longer /\ read_' = read_ + 1) \/ (applied' = applied /\ read_' = read_)
      BY <1>16, Zenon DEF DrainFrozenRecord
    <3> HIDE DEF longer
    <3> QED BY <3>1, <3>2
  <2>3. result' \in Reply /\ callerPc' \in {"draining", "drained"}
    BY <1>16, Zenon DEF DrainFrozenRecord, TypeOK, Status, Reply
  <2>4. UNCHANGED <<records_, written_, stop_, status_, slotVars, workerVars,
                    call, accepted, reference, durable, durableReference>>
    BY <1>16, Zenon DEF DrainFrozenRecord
  <2> QED BY <2>2, <2>3, <2>4 DEF TypeOK, slotVars, workerVars
<1>17. CASE DrainFrozenEnd
  BY <1>17 DEF DrainFrozenEnd, TypeOK, Status, Reply, slotVars, workerVars, corpusVars
<1> QED
  BY <1>1, <1>2, <1>3, <1>4, <1>5, <1>6, <1>7, <1>8, <1>9, <1>10, <1>11, <1>12,
     <1>13, <1>14, <1>15, <1>16, <1>17, Steps, Zenon

LEMMA CursorStep == IInv /\ [Next]_vars => CursorInv'
<1> SUFFICES ASSUME IInv, [Next]_vars PROVE CursorInv'
  BY Zenon
<1> USE CapacityAssumption, SequenceLimitAssumption
<1>a. TypeOK /\ CursorInv /\ StopInv
  BY Zenon DEF IInv
<1> USE <1>a DEF TypeOK, CursorInv, StopInv, Consumed
<1>1. CASE UNCHANGED vars
  BY <1>1, Zenon DEF vars, queueVars, slotVars, workerVars, callerVars, corpusVars
<1>2. ASSUME NEW entry \in Entry, EnqueueCheck(entry) PROVE CursorInv'
  <2>1. callerPc' \in {"copy", "publish"} =>
          written_ < read_ + Capacity /\ written_ < SequenceLimit
    BY <1>2, AdmissionOk DEF EnqueueCheck, QueueFull, CursorSpent
  <2>2. callerPc = "idle" /\ callerPc' \in {"idle", "copy"}
    BY <1>2, Zenon DEF EnqueueCheck
  <2>3. UNCHANGED <<queueVars, workerVars, accepted, corpusVars>>
    BY <1>2, Zenon DEF EnqueueCheck
  <2> QED BY <2>1, <2>2, <2>3, Zenon DEF queueVars, workerVars, corpusVars
<1>3. CASE EnqueueCopy
  BY <1>3, Zenon DEF EnqueueCopy, slotVars, workerVars, corpusVars
<1>4. CASE EnqueuePublish
  <2>1. callerPc = "publish" /\ callerPc' = "idle" /\ written_' = written_ + 1
        /\ Len(accepted') = Len(accepted) + 1
    BY <1>4 DEF EnqueuePublish
  <2>2. UNCHANGED <<read_, workerVars, corpusVars>>
    BY <1>4, Zenon DEF EnqueuePublish
  <2> QED BY <2>1, <2>2 DEF workerVars, corpusVars
<1>5. ASSUME NEW payload \in Reference, AppendReferencePayload(payload) PROVE CursorInv'
  BY <1>5, Zenon DEF AppendReferencePayload, queueVars, workerVars, callerVars, corpusVars
<1>6. CASE WorkerLoad
  BY <1>6, Zenon DEF WorkerLoad, queueVars, slotVars, callerVars, corpusVars
<1>7. CASE WorkerConsume
  BY <1>7 DEF WorkerConsume, Exit, slotVars, callerVars
<1>8. CASE WorkerAdvance
  BY <1>8 DEF WorkerAdvance, slotVars, callerVars, corpusVars
<1>9. CASE WorkerReference
  BY <1>9, Zenon DEF WorkerReference, Exit, callerVars
<1>10. CASE WorkerStop
  BY <1>10, Zenon DEF WorkerStop, queueVars, slotVars, callerVars, corpusVars
<1>11. CASE WorkerPublish
  BY <1>11 DEF WorkerPublish, Exit, slotVars, callerVars
<1>12. CASE WorkerTail
  BY <1>12, Zenon DEF WorkerTail, ExitNow, queueVars, slotVars, callerVars, corpusVars
<1>13. CASE FinishRequest
  BY <1>13, Zenon DEF FinishRequest, slotVars, workerVars, corpusVars
<1>14. CASE FinishJoin
  BY <1>14, Zenon DEF FinishJoin, queueVars, slotVars, workerVars, corpusVars
<1>15. CASE DrainFrozenStart
  BY <1>15, Zenon DEF DrainFrozenStart, queueVars, slotVars, workerVars, corpusVars
<1>16. CASE DrainFrozenRecord
  BY <1>16 DEF DrainFrozenRecord, Drained, slotVars, workerVars
<1>17. CASE DrainFrozenEnd
  BY <1>17, Zenon DEF DrainFrozenEnd, Drained, slotVars, workerVars, corpusVars
<1> HIDE <1>a DEF TypeOK, CursorInv, StopInv, Consumed
<1> QED
  BY <1>1, <1>2, <1>3, <1>4, <1>5, <1>6, <1>7, <1>8, <1>9, <1>10, <1>11,
     <1>12, <1>13, <1>14, <1>15, <1>16, <1>17, Steps, Zenon

LEMMA StopStep == IInv /\ [Next]_vars => StopInv'
<1> SUFFICES ASSUME IInv, [Next]_vars PROVE StopInv'
  BY Zenon
<1> USE CapacityAssumption, SequenceLimitAssumption
<1>a. TypeOK /\ CursorInv /\ StopInv
  BY Zenon DEF IInv
<1> USE <1>a DEF TypeOK, CursorInv, StopInv, Consumed, Status
<1>1. CASE UNCHANGED vars
  BY <1>1, Zenon DEF vars, queueVars, slotVars, workerVars, callerVars, corpusVars
<1>2. ASSUME NEW entry \in Entry, EnqueueCheck(entry) PROVE StopInv'
  BY <1>2, AdmissionOk, Zenon DEF EnqueueCheck, queueVars, slotVars, workerVars, corpusVars
<1>3. CASE EnqueueCopy
  BY <1>3, Zenon DEF EnqueueCopy, slotVars, workerVars, corpusVars
<1>4. CASE EnqueuePublish
  BY <1>4, Zenon DEF EnqueuePublish, slotVars, workerVars, corpusVars
<1>5. ASSUME NEW payload \in Reference, AppendReferencePayload(payload) PROVE StopInv'
  BY <1>5, Zenon DEF AppendReferencePayload, queueVars, workerVars, callerVars, corpusVars
<1>6. CASE WorkerLoad
  BY <1>6, Zenon DEF WorkerLoad, queueVars, slotVars, callerVars, corpusVars
<1>7. CASE WorkerConsume
  BY <1>7, Zenon DEF WorkerConsume, Exit, slotVars, callerVars
<1>8. CASE WorkerAdvance
  BY <1>8, Zenon DEF WorkerAdvance, slotVars, callerVars, corpusVars
<1>9. CASE WorkerReference
  BY <1>9, Zenon DEF WorkerReference, Exit, callerVars
<1>10. CASE WorkerStop
  BY <1>10, Zenon DEF WorkerStop, queueVars, slotVars, callerVars, corpusVars
<1>11. CASE WorkerPublish
  BY <1>11, Zenon DEF WorkerPublish, Exit, slotVars, callerVars
<1>12. CASE WorkerTail
  BY <1>12, Zenon DEF WorkerTail, ExitNow, queueVars, slotVars, callerVars, corpusVars
<1>13. CASE FinishRequest
  BY <1>13, Zenon DEF FinishRequest, slotVars, workerVars, corpusVars
<1>14. CASE FinishJoin
  BY <1>14, Zenon DEF FinishJoin, queueVars, slotVars, workerVars, corpusVars
<1>15. CASE DrainFrozenStart
  BY <1>15, Zenon DEF DrainFrozenStart, Retryable, Status, queueVars, slotVars, workerVars, corpusVars
<1>16. CASE DrainFrozenRecord
  BY <1>16, Zenon DEF DrainFrozenRecord, Drained, Status, slotVars, workerVars
<1>17. CASE DrainFrozenEnd
  BY <1>17 DEF DrainFrozenEnd, Drained, slotVars, workerVars, corpusVars
<1> HIDE <1>a DEF TypeOK, CursorInv, StopInv, Consumed, Status
<1> QED
  BY <1>1, <1>2, <1>3, <1>4, <1>5, <1>6, <1>7, <1>8, <1>9, <1>10, <1>11,
     <1>12, <1>13, <1>14, <1>15, <1>16, <1>17, Steps, Zenon

LEMMA CommitStep == IInv /\ [Next]_vars => CommitInv'
<1> SUFFICES ASSUME IInv, [Next]_vars PROVE CommitInv'
  BY Zenon
<1> USE CapacityAssumption, SequenceLimitAssumption
<1>a. TypeOK /\ CursorInv /\ StopInv /\ CommitInv
  BY Zenon DEF IInv
<1> USE <1>a DEF TypeOK, CursorInv, StopInv, CommitInv, Consumed, Status
<1>1. CASE UNCHANGED vars
  BY <1>1, Zenon DEF vars, queueVars, slotVars, workerVars, callerVars, corpusVars
<1>2. ASSUME NEW entry \in Entry, EnqueueCheck(entry) PROVE CommitInv'
  <2>1. callerPc = "idle" /\ callerPc' \in {"idle", "copy"}
    BY <1>2, Zenon DEF EnqueueCheck
  <2>2. UNCHANGED <<queueVars, slotVars, workerVars, accepted, corpusVars>>
    BY <1>2, Zenon DEF EnqueueCheck
  <2> QED BY <2>1, <2>2, Zenon DEF queueVars, slotVars, workerVars, corpusVars
<1>3. CASE EnqueueCopy
  BY <1>3, Zenon DEF EnqueueCopy, slotVars, workerVars, corpusVars
<1>4. CASE EnqueuePublish
  BY <1>4, Zenon DEF EnqueuePublish, slotVars, workerVars, corpusVars
<1>5. ASSUME NEW payload \in Reference, AppendReferencePayload(payload) PROVE CommitInv'
  BY <1>5, Zenon DEF AppendReferencePayload, queueVars, workerVars, callerVars, corpusVars
<1>6. CASE WorkerLoad
  BY <1>6, Zenon DEF WorkerLoad, queueVars, slotVars, callerVars, corpusVars
<1>7. CASE WorkerConsume
  BY <1>7, Zenon DEF WorkerConsume, Exit, slotVars, callerVars
<1>8. CASE WorkerAdvance
  BY <1>8, Zenon DEF WorkerAdvance, slotVars, callerVars, corpusVars
<1>9. CASE WorkerReference
  BY <1>9, Zenon DEF WorkerReference, Exit, callerVars
<1>10. CASE WorkerStop
  BY <1>10, Zenon DEF WorkerStop, queueVars, slotVars, callerVars, corpusVars
<1>11. CASE WorkerPublish
  BY <1>11 DEF WorkerPublish, Exit, CommitForced, slotVars, callerVars
<1>12. CASE WorkerTail
  BY <1>12, Zenon DEF WorkerTail, ExitNow, queueVars, slotVars, callerVars, corpusVars
<1>13. CASE FinishRequest
  BY <1>13, Zenon DEF FinishRequest, slotVars, workerVars, corpusVars
<1>14. CASE FinishJoin
  BY <1>14, Zenon DEF FinishJoin, queueVars, slotVars, workerVars, corpusVars
<1>15. CASE DrainFrozenStart
  BY <1>15, Zenon DEF DrainFrozenStart, queueVars, slotVars, workerVars, corpusVars
<1>16. CASE DrainFrozenRecord
  BY <1>16, Zenon DEF DrainFrozenRecord, Drained, slotVars, workerVars
<1>17. CASE DrainFrozenEnd
  BY <1>17, Zenon DEF DrainFrozenEnd, Drained, slotVars, workerVars, corpusVars
<1> HIDE <1>a DEF TypeOK, CursorInv, StopInv, CommitInv, Consumed, Status
<1> QED
  BY <1>1, <1>2, <1>3, <1>4, <1>5, <1>6, <1>7, <1>8, <1>9, <1>10, <1>11,
     <1>12, <1>13, <1>14, <1>15, <1>16, <1>17, Steps, Zenon

(* A slot is filled only while no unread item is in it. *)
LEMMA SlotStep == IInv /\ [Next]_vars => SlotInv'
<1> SUFFICES ASSUME IInv, [Next]_vars PROVE SlotInv'
  BY Zenon
<1>a. TypeOK /\ CursorInv /\ SlotInv /\ StopInv
  BY Zenon DEF IInv
<1>1. CASE EnqueueCopy
  <2> DEFINE slot == written_ % Capacity
             item == [kind |-> KindOf(call.op), bytes |-> call.payload]
  <2>0. written_ \in Nat /\ read_ \in Nat /\ call \in Entry /\ written_ < read_ + Capacity
    BY <1>1, <1>a, SequenceLimitAssumption DEF EnqueueCopy, TypeOK, CursorInv
  <2>1. slot \in 0 .. Capacity - 1 /\ CallFor(item) = call
    BY <2>0, SlotInRange, CallRoundTrip, Zenon
  <2>2. records_' = [records_ EXCEPT ![slot] = item] /\ callerPc' = "publish"
        /\ UNCHANGED <<written_, read_, call, accepted>>
    BY <1>1, Zenon DEF EnqueueCopy
  <2>3. \A i \in read_ .. written_ - 1 : i % Capacity # slot
    <3> SUFFICES ASSUME NEW i \in read_ .. written_ - 1 PROVE i % Capacity # slot
      BY Zenon
    <3>1. i \in Nat /\ i < written_ /\ written_ < i + Capacity
      BY <2>0, CapacityAssumption
    <3> QED BY <2>0, <3>1, SlotsDistinct, CapacityAssumption, Zenon
  <2>4. \A i \in read_ .. written_ - 1 : i % Capacity \in 0 .. Capacity - 1
    BY <2>0, CapacityAssumption, SlotInRange
  <2> HIDE DEF slot, item
  <2>5. records_'[slot] = item
        /\ \A j \in 0 .. Capacity - 1 : j # slot => records_'[j] = records_[j]
    BY <1>a, <2>1, <2>2, Zenon DEF TypeOK
  <2>6. \A i \in read_ .. written_ - 1 :
          CallFor(records_'[i % Capacity]) = accepted[i + 1]
    BY <1>a, <2>3, <2>4, <2>5, Zenon DEF SlotInv
  <2> QED BY <2>1, <2>2, <2>5, <2>6, Zenon DEF SlotInv, slot
<1>2. CASE EnqueuePublish
  <2>1. accepted' = Append(accepted, call) /\ written_' = written_ + 1
        /\ callerPc' = "idle" /\ callerPc = "publish" /\ UNCHANGED <<records_, read_>>
    BY <1>2, Zenon DEF EnqueuePublish
  <2>2. \A i \in read_ .. written_ - 1 : accepted'[i + 1] = accepted[i + 1]
    BY <1>a, <2>1 DEF TypeOK, CursorInv
  <2>3. accepted'[written_ + 1] = call
    BY <1>a, <2>1 DEF TypeOK, CursorInv
  <2>4. \A i \in read_ .. written_ : i # written_ => i \in read_ .. written_ - 1
    BY <1>a DEF TypeOK
  <2>5. \A i \in read_ .. written_ : CallFor(records_[i % Capacity]) = accepted'[i + 1]
    BY <1>a, <2>1, <2>2, <2>3, <2>4, Zenon DEF SlotInv
  <2>6. written_' - 1 = written_
    BY <1>a, <2>1 DEF TypeOK
  <2> QED BY <2>1, <2>5, <2>6, Zenon DEF SlotInv
<1>3. CASE UNCHANGED <<records_, accepted, written_>> /\ read_' >= read_ /\ read_' \in Nat
           /\ (callerPc' = "publish" => callerPc = "publish" /\ call' = call)
  <2>1. \A i \in read_' .. written_ - 1 : i \in read_ .. written_ - 1
    BY <1>a, <1>3 DEF TypeOK
  <2> QED BY <1>a, <1>3, <2>1, Zenon DEF SlotInv
<1>4. CASE EnqueuePublish \/ EnqueueCopy
  BY <1>1, <1>2, <1>4, Zenon
<1>5. CASE [Next]_vars /\ ~EnqueuePublish /\ ~EnqueueCopy
  <2>1. UNCHANGED <<records_, accepted, written_>>
    BY <1>5, StepWriters, Zenon DEF Writers
  <2>2. read_' >= read_ /\ read_' \in Nat
    <3>1. read_ \in Nat /\ (workerPc = "advance" => read = read_ + 1)
      BY <1>a, Zenon DEF TypeOK, CursorInv, StopInv, Consumed
    <3>2. CASE WorkerAdvance
      BY <3>1, <3>2 DEF WorkerAdvance
    <3>3. CASE DrainFrozenRecord
      BY <3>1, <3>3 DEF DrainFrozenRecord
    <3>4. CASE ~WorkerAdvance /\ ~DrainFrozenRecord
      <4>1. UNCHANGED read_
        BY <1>5, <3>4, StepWriters, Zenon DEF Writers
      <4> QED BY <3>1, <4>1
    <3> QED BY <3>2, <3>3, <3>4, Zenon
  <2>3. callerPc' = "publish" => callerPc = "publish" /\ call' = call
    BY <1>5, StepWriters, Zenon DEF Writers
  <2> QED BY <1>3, <2>1, <2>2, <2>3, Zenon
<1> QED BY <1>4, <1>5, Zenon

(* The call made for an item is the next acknowledged one. *)
LEMMA NextCall ==
    ASSUME TypeOK, CursorInv, SlotInv, read_ < written_
    PROVE  CallFor(records_[read_ % Capacity]) = accepted[read_ + 1]
BY DEF TypeOK, CursorInv, SlotInv

(* Appending the next acknowledged call keeps the two logs in step. *)
LEMMA AppendNext ==
    ASSUME TypeOK, AppliedInOrder, Len(applied) < Len(accepted),
           applied' = Append(applied, accepted[Len(applied) + 1]), accepted' = accepted
    PROVE  AppliedInOrder'
<1> DEFINE n == Len(applied)
           e == accepted[n + 1]
<1>1. applied \in Seq(Entry) /\ accepted \in Seq(Entry)
  BY Zenon DEF TypeOK
<1>2. n \in Nat /\ Len(accepted) \in Nat
  BY <1>1
<1>3. e \in Entry
  BY <1>1, <1>2
<1>4. Len(applied') = n + 1 /\ applied'[n + 1] = e
      /\ \A i \in 1 .. n : applied'[i] = applied[i]
  BY <1>1, <1>3, AppendedCall
<1> HIDE DEF e
<1>5. \A i \in 1 .. n + 1 : i \in 1 .. n \/ i = n + 1
  BY <1>2
<1>6. \A i \in 1 .. n : applied[i] = accepted[i]
  BY Zenon DEF AppliedInOrder
<1>7. \A i \in 1 .. n + 1 : applied'[i] = accepted[i]
  BY <1>4, <1>5, <1>6, Zenon DEF e
<1>8. Len(applied') <= Len(accepted)
  BY <1>2, <1>4
<1> QED BY <1>4, <1>7, <1>8, Zenon DEF AppliedInOrder

(* Acknowledging one more call leaves the applied ones where they were. *)
LEMMA AcceptMore ==
    ASSUME TypeOK, AppliedInOrder, accepted' = Append(accepted, call), applied' = applied
    PROVE  AppliedInOrder'
<1>1. accepted \in Seq(Entry) /\ call \in Entry /\ applied \in Seq(Entry)
  BY Zenon DEF TypeOK
<1>2. Len(accepted') = Len(accepted) + 1 /\ Len(accepted) \in Nat /\ Len(applied) \in Nat
      /\ \A i \in 1 .. Len(accepted) : accepted'[i] = accepted[i]
  BY <1>1, AppendedCall
<1>3. \A i \in 1 .. Len(applied) : i \in 1 .. Len(accepted)
  BY <1>2 DEF AppliedInOrder
<1> QED BY <1>2, <1>3 DEF AppliedInOrder

LEMMA OrderStep == IInv /\ [Next]_vars => AppliedInOrder'
<1> SUFFICES ASSUME IInv, [Next]_vars PROVE AppliedInOrder'
  BY Zenon
<1>a. TypeOK /\ CursorInv /\ SlotInv /\ StopInv /\ AppliedInOrder
  BY Zenon DEF IInv
<1>1. CASE EnqueuePublish
  <2>1. accepted' = Append(accepted, call) /\ applied' = applied
    BY <1>1, Zenon DEF EnqueuePublish, corpusVars
  <2> QED BY <1>a, <2>1, AcceptMore, Zenon
<1>2. CASE UNCHANGED <<accepted, applied>>
  BY <1>a, <1>2, Zenon DEF AppliedInOrder
<1>3. CASE WorkerConsume
  <2>1. read = read_ /\ read_ < written_ /\ Len(applied) = read_ /\ Len(accepted) = written_
    BY <1>3, <1>a, Zenon DEF WorkerConsume, CursorInv, StopInv, Consumed
  <2>2. accepted' = accepted
        /\ (\/ applied' = Append(applied, CallFor(records_[read % Capacity]))
            \/ applied' = applied)
    BY <1>3, Zenon DEF WorkerConsume, callerVars
  <2>3. CallFor(records_[read % Capacity]) = accepted[Len(applied) + 1]
    BY <1>a, <2>1, NextCall, Zenon
  <2>4. CASE applied' = Append(applied, CallFor(records_[read % Capacity]))
    BY <1>a, <2>1, <2>2, <2>3, <2>4, AppendNext, Zenon
  <2>5. CASE applied' = applied
    BY <1>2, <2>2, <2>5, Zenon
  <2> QED BY <2>2, <2>4, <2>5, Zenon
<1>4. CASE DrainFrozenRecord
  <2>1. read_ < written_ /\ Len(applied) = read_ /\ Len(accepted) = written_
    BY <1>4, <1>a DEF DrainFrozenRecord, Drained, TypeOK, CursorInv, StopInv, Consumed
  <2>2. accepted' = accepted
        /\ (\/ applied' = Append(applied, CallFor(records_[read_ % Capacity]))
            \/ applied' = applied)
    BY <1>4, Zenon DEF DrainFrozenRecord
  <2>3. CallFor(records_[read_ % Capacity]) = accepted[Len(applied) + 1]
    BY <1>a, <2>1, NextCall, Zenon
  <2>4. CASE applied' = Append(applied, CallFor(records_[read_ % Capacity]))
    BY <1>a, <2>1, <2>2, <2>3, <2>4, AppendNext, Zenon
  <2>5. CASE applied' = applied
    BY <1>2, <2>2, <2>5, Zenon
  <2> QED BY <2>2, <2>4, <2>5, Zenon
<1>5. CASE [Next]_vars /\ ~EnqueuePublish /\ ~WorkerConsume /\ ~DrainFrozenRecord
  <2>1. UNCHANGED <<accepted, applied>>
    BY <1>5, StepWriters, Zenon DEF Writers
  <2> QED BY <1>2, <2>1, Zenon
<1> QED BY <1>1, <1>3, <1>4, <1>5, Zenon

LEMMA InvStep == IInv /\ [Next]_vars => IInv'
BY TypeStep, CursorStep, SlotStep, OrderStep, StopStep, CommitStep, Zenon DEF IInv

(* The inductive invariant holds in every reachable state. *)
THEOREM Invariance == Spec => []IInv
BY InitInv, InvStep, PTL DEF Spec

(* Every variable keeps its type, whatever the three threads do. *)
THEOREM TypeCorrect == Spec => []TypeOK
<1>1. IInv => TypeOK
  BY Zenon DEF IInv
<1> QED BY <1>1, Invariance, PTL

(* append(), appendSource(), appendProgress() and appendGap() reach the    *)
(* corpus writer in the order in which they were acknowledged.             *)
THEOREM OrderCorrect == Spec => []AppliedInOrder
<1>1. IInv => AppliedInOrder
  BY Zenon DEF IInv
<1> QED BY <1>1, Invariance, PTL

(* The two logs are equal once they have the same length. *)
LEMMA LogsEqual ==
    ASSUME TypeOK, AppliedInOrder, Len(applied) = Len(accepted)
    PROVE  applied = accepted
BY SameCalls, Zenon DEF TypeOK, AppliedInOrder

(* An Ok from finish() means that everything acknowledged is durable. *)
THEOREM FinishCorrect == Spec => []FinishOkMeansDurable
<1>1. IInv => FinishOkMeansDurable
  <2> SUFFICES ASSUME IInv, callerPc = "finished", result = "Ok"
      PROVE  /\ applied = accepted
             /\ durable = Len(accepted)
             /\ durableReference = reference
             /\ ~referencePending_ => reference = referencePayload_
    BY Zenon DEF FinishOkMeansDurable
  <2>1. workerPc = "exited" /\ status_ = "Ok"
    BY Zenon DEF IInv, StopInv
  <2>2. read = written_ /\ ~dirty
    BY <2>1, Zenon DEF IInv, CommitInv
  <2>3. Len(applied) = Len(accepted)
    BY <2>1, <2>2, Zenon DEF IInv, CursorInv, Consumed
  <2>4. durable = Len(applied) /\ durableReference = reference
    BY <2>1, <2>2, Zenon DEF IInv, CommitInv
  <2>5. applied = accepted
    BY <2>3, LogsEqual, Zenon DEF IInv
  <2> QED BY <2>3, <2>4, <2>5, Zenon DEF IInv, CommitInv
<1> QED BY <1>1, Invariance, PTL

(* An Ok from drainFrozen() means that nothing acknowledged is left in the *)
(* queue, also after a quota had stopped the worker.                       *)
THEOREM DrainCorrect == Spec => []DrainOkMeansApplied
<1>1. IInv => DrainOkMeansApplied
  <2> SUFFICES ASSUME IInv, callerPc = "drained", result = "Ok"
      PROVE  applied = accepted
    BY Zenon DEF DrainOkMeansApplied
  <2>1. Len(applied) = Len(accepted)
    BY Zenon DEF IInv, StopInv, CursorInv, Consumed
  <2> QED BY <2>1, LogsEqual, Zenon DEF IInv
<1> QED BY <1>1, Invariance, PTL

(* After an I/O failure no call reaches the corpus writer again. *)
THEOREM NoRetryAfterError == Spec => ErrorEndsWriting
<1>1. IInv /\ [Next]_vars =>
        [status_ = "Error" => UNCHANGED <<applied, reference, durable>>]_vars
  <2> SUFFICES ASSUME IInv, [Next]_vars, status_ = "Error"
      PROVE  UNCHANGED <<applied, reference, durable>>
    BY Zenon
  <2>1. workerPc = "exited" /\ callerPc # "draining"
    BY Zenon DEF IInv, StopInv
  <2>2. ~WorkerConsume /\ ~WorkerReference /\ ~WorkerPublish /\ ~DrainFrozenRecord
    BY <2>1, Zenon DEF WorkerConsume, WorkerReference, WorkerPublish, DrainFrozenRecord
  <2> QED BY <2>2, StepWriters, Zenon DEF Writers
<1> QED BY <1>1, Invariance, PTL DEF Spec, ErrorEndsWriting

(* The queue implements the abstract capture log. *)
THEOREM Refinement == Spec => ImplementsCaptureLog
<1>1. Init => Log!Init
  BY Zenon DEF Init, Log!Init
<1>2. IInv /\ [Next]_vars => [Log!Next]_(Log!vars)
  <2> SUFFICES ASSUME IInv, [Next]_vars PROVE [Log!Next]_(Log!vars)
    BY Zenon
  <2>a. TypeOK /\ CursorInv /\ SlotInv /\ StopInv /\ CommitInv
    BY Zenon DEF IInv
  <2>1. CASE EnqueuePublish
    <3>1. call \in Entry /\ Log!Accept(call)
      BY <2>1, <2>a, Zenon DEF EnqueuePublish, corpusVars, Log!Accept, TypeOK
    <3> QED BY <3>1, Zenon DEF Log!Next
  <2>2. CASE WorkerConsume
    <3>1. read = read_ /\ read_ < written_ /\ Len(applied) = read_ /\ Len(accepted) = written_
      BY <2>2, <2>a, Zenon DEF WorkerConsume, CursorInv, StopInv, Consumed
    <3>2. UNCHANGED <<accepted, durable>>
          /\ (\/ applied' = Append(applied, CallFor(records_[read % Capacity]))
              \/ applied' = applied)
      BY <2>2, Zenon DEF WorkerConsume, callerVars
    <3>3. CallFor(records_[read % Capacity]) = accepted[Len(applied) + 1]
      BY <2>a, <3>1, NextCall, Zenon
    <3>4. Log!Apply \/ UNCHANGED Log!vars
      BY <3>1, <3>2, <3>3, Zenon DEF Log!Apply, Log!vars
    <3> QED BY <3>4, Zenon DEF Log!Next
  <2>3. CASE DrainFrozenRecord
    <3>1. read_ < written_ /\ Len(applied) = read_ /\ Len(accepted) = written_
      BY <2>3, <2>a DEF DrainFrozenRecord, Drained, TypeOK, CursorInv, StopInv, Consumed
    <3>2. UNCHANGED <<accepted, durable>>
          /\ (\/ applied' = Append(applied, CallFor(records_[read_ % Capacity]))
              \/ applied' = applied)
      BY <2>3, Zenon DEF DrainFrozenRecord
    <3>3. CallFor(records_[read_ % Capacity]) = accepted[Len(applied) + 1]
      BY <2>a, <3>1, NextCall, Zenon
    <3>4. Log!Apply \/ UNCHANGED Log!vars
      BY <3>1, <3>2, <3>3, Zenon DEF Log!Apply, Log!vars
    <3> QED BY <3>4, Zenon DEF Log!Next
  <2>4. CASE WorkerPublish
    BY <2>4, Zenon DEF WorkerPublish, Exit, callerVars, Log!Next, Log!Commit, Log!vars
  <2>5. CASE [Next]_vars /\ ~EnqueuePublish /\ ~WorkerConsume /\ ~DrainFrozenRecord
             /\ ~WorkerPublish
    <3>1. UNCHANGED Log!vars
      BY <2>5, StepWriters, Zenon DEF Writers, Log!vars
    <3> QED BY <3>1, Zenon
  <2> QED BY <2>1, <2>2, <2>3, <2>4, <2>5, Zenon
<1> QED BY <1>1, <1>2, Invariance, PTL DEF Spec, ImplementsCaptureLog, Log!Spec
=============================================================================
