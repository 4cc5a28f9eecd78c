---- MODULE HistoryCli ----
(***************************************************************************)
(* Two machines: the import of daily archives (Init, Next), and the dates  *)
(* a download may ask for (ArchiveInit, ArchiveNext).                      *)
(*                                                                         *)
(* history: the import of daily archives into one session.  Files are      *)
(* downloaded and verified one by one into a hidden directory beside the   *)
(* sessions, and the finished directory is renamed into place.  A run may  *)
(* fail at any file, or be killed anywhere, and be repeated.               *)
(***************************************************************************)
EXTENDS Sequences, Integers, FiniteSets

CONSTANTS
    N,          \* dates of the range, 1..N
    MaxRuns     \* bound on the number of runs

Channel(f) == IF f % 2 = 1 THEN "trades" ELSE "books"
NoDir == [made |-> FALSE]

VARIABLES
    pc,         \* the step of the run; "idle" between runs
    file,       \* the archive the run is at: the trades and the book ticker of each date in turn
    tmp,        \* the hidden directory: [made, trades, books, downloads, artifacts]
    final,      \* the published session
    count,      \* stats: rows written so far per channel
    archive,    \* per archive on the server: "absent", "broken" (fails a check), "empty" or "full"
    runs, ok,
    killed      \* history: a killed run left the hidden directory

vars == <<pc, file, tmp, final, count, archive, runs, ok, killed>>

Archive == {"absent", "broken", "empty", "full"}

EmptyDir == [made |-> TRUE, trades |-> <<>>, books |-> <<>>, downloads |-> {}, artifacts |-> {}]

Init ==
    /\ pc = "idle" /\ file = 1 /\ tmp = NoDir /\ final = NoDir /\ runs = 0 /\ ok = TRUE /\ killed = FALSE
    /\ count = [trades |-> 0, books |-> 0]
    /\ archive = [f \in 1..(2 * N) |-> "full"]

\* The archive on the server may change between runs and during one
Publish(f) ==
    /\ runs < MaxRuns
    /\ archive' \in {[archive EXCEPT ![f] = a] : a \in Archive}
    /\ UNCHANGED <<pc, file, tmp, final, count, runs, ok, killed>>

Start ==
    /\ pc = "idle" /\ runs < MaxRuns
    /\ runs' = runs + 1 /\ pc' = "preflight" /\ file' = 1
    /\ UNCHANGED <<tmp, final, count, archive, ok, killed>>

Return(good) == pc' = "idle" /\ ok' = good

\* preflightRequiredVisionFiles: every archive of the range before anything is written.
\* The answer for one key may also be a failed request.
Preflight ==
    /\ pc = "preflight"
    /\ \/ archive[file] # "absent" /\ file < 2 * N /\ file' = file + 1 /\ UNCHANGED <<pc, ok>>
       \/ archive[file] # "absent" /\ file = 2 * N /\ pc' = "prepare" /\ UNCHANGED <<file, ok>>
       \/ Return(FALSE) /\ UNCHANGED file
    /\ UNCHANGED <<tmp, final, count, archive, runs, killed>>

\* the session must not exist; what an earlier run left is removed
Prepare ==
    /\ pc = "prepare"
    /\ IF final.made THEN Return(FALSE) /\ UNCHANGED <<tmp, count, file>>
       ELSE /\ tmp' = EmptyDir
            /\ pc' = "import" /\ file' = 1
            /\ count' = [trades |-> 0, books |-> 0] /\ UNCHANGED ok
    /\ killed' = (killed /\ tmp' = tmp)
    /\ UNCHANGED <<final, archive, runs>>

\* a failed step removes the directory and ends the run
Abandon ==
    /\ pc \in {"import", "flush", "artifacts"}
    /\ tmp' = NoDir /\ Return(FALSE)
    /\ UNCHANGED <<file, final, count, archive, runs, killed>>

Rows(f) == [k \in 1..(IF archive[f] = "empty" THEN 0 ELSE 1) |-> [file |-> f, seq |-> count[Channel(f)] + k,
                                          sound |-> archive[f] # "broken"]]

\* importOneZip: checksum file, archive, comparison, member, rows
ImportFile ==
    /\ pc = "import" /\ archive[file] \in {"empty", "full"}
    /\ tmp' = [tmp EXCEPT ![Channel(file)] = @ \o Rows(file), !.downloads = @ \cup {file}]
    /\ count' = [count EXCEPT ![Channel(file)] = @ + Len(Rows(file))]
    /\ IF file < 2 * N THEN file' = file + 1 /\ UNCHANGED pc ELSE pc' = "flush" /\ UNCHANGED file
    /\ UNCHANGED <<final, archive, runs, ok, killed>>

\* the outputs are flushed, and neither channel may be empty
Flush ==
    /\ pc = "flush" /\ count.trades > 0 /\ count.books > 0
    /\ pc' = "artifacts"
    /\ UNCHANGED <<file, tmp, final, count, archive, runs, ok, killed>>

\* writeSessionArtifacts: manifest, metadata, reports
WriteArtifacts ==
    /\ pc = "artifacts"
    /\ IF tmp.artifacts = {}
       THEN tmp' = [tmp EXCEPT !.artifacts = {"manifest"}] /\ UNCHANGED pc
       ELSE tmp' = [tmp EXCEPT !.artifacts = {"manifest", "reports"}, !.downloads = {}] /\ pc' = "publish"
    /\ UNCHANGED <<file, final, count, archive, runs, ok, killed>>

\* the rename; a failed one removes the directory
Rename ==
    /\ pc = "publish"
    /\ \/ final' = tmp /\ Return(TRUE)
       \/ final' = final /\ Return(FALSE)
    /\ tmp' = NoDir
    /\ UNCHANGED <<file, count, archive, runs, killed>>

\* the process is killed
Kill ==
    /\ pc # "idle" /\ pc' = "idle" /\ ok' = FALSE /\ killed' = tmp.made
    /\ UNCHANGED <<file, tmp, final, count, archive, runs>>

Next ==
    \/ Start \/ Preflight \/ Prepare \/ Abandon \/ ImportFile \/ Flush \/ WriteArtifacts \/ Rename \/ Kill
    \/ \E f \in 1..(2 * N) : Publish(f)

Spec == Init /\ [][Next]_vars

(***************************************************************************)
(* Properties.                                                             *)
(***************************************************************************)
\* A published session is whole: rows in both channels, in the order of the dates, numbered
\* without a gap from 1 over all archives, none from an archive that fails its checksum,
\* its extraction or its parse even if it was replaced after the preflight, the reports written after the manifest, and no
\* download left in it, however many runs failed or were killed before.
PublishedWhole ==
    final.made =>
        /\ final.artifacts = {"manifest", "reports"} /\ final.downloads = {}
        /\ \A rows \in {final.trades, final.books} :
              /\ rows # <<>>
              /\ \A i \in DOMAIN rows : rows[i].seq = i /\ rows[i].sound
              /\ \A i, j \in DOMAIN rows : i < j => rows[i].file < rows[j].file

\* A run that ends by itself leaves no hidden directory behind; only a killed one does.
NoDebris == pc = "idle" /\ tmp.made => killed

-----------------------------------------------------------------------------
(***************************************************************************)
(* history --days: which dates of the archive are imported.  The archive is *)
(* listed from ever earlier start dates, one page of keys per request, until*)
(* enough dates have the archives and checksums of both channels.          *)
(***************************************************************************)

CONSTANTS
    Today,      \* lastCompletedUtcDate: dates are 1..Today
    Lookbacks,  \* the windows tried, in days
    Page,       \* max-keys of one listing
    MaxDays     \* bound on --days

VARIABLES
    tradeKeys, bookKeys,      \* the archive: [zip, sum], the dates with an archive and with a checksum
    days, next, result, window

archiveVars == <<tradeKeys, bookKeys, days, next, result, window>>

Dates == 1..Today

ArchiveInit ==
    /\ \E z \in SUBSET Dates : tradeKeys = [zip |-> z, sum |-> z]
    /\ bookKeys \in [zip : SUBSET Dates, sum : SUBSET Dates]
    /\ days \in 1..MaxDays /\ next = 0 /\ result = {} /\ window = 0

\* The keys of a channel in the order of the listing: an archive before its own checksum
Keys(c) == {2 * d : d \in c.zip} \cup {2 * d + 1 : d \in c.sum}

\* visionListUrl with start-after the archive of the day before the window
Listed(c, start) ==
    LET after == {k \in Keys(c) : k > 2 * (start - 1)}
    IN {k \in after : Cardinality({j \in after : j <= k}) <= Page}

\* parseAvailableVisionDates
Available(c, start) == {d \in Dates : {2 * d, 2 * d + 1} \subseteq Listed(c, start)}

\* latestCommonDates
LatestCommon(a, b) ==
    LET common == {d \in a \cap b : d <= Today}
    IN {d \in common : Cardinality({e \in common : e >= d}) <= days}

\* channelHasAnyHistory, for both channels
Check ==
    /\ next = 0
    /\ next' = IF Keys(tradeKeys) = {} \/ Keys(bookKeys) = {} THEN Len(Lookbacks) + 1 ELSE 1
    /\ UNCHANGED <<tradeKeys, bookKeys, days, result, window>>

\* one round of resolveLatestAvailableDates
Lookup ==
    /\ next \in 1..Len(Lookbacks)
    /\ LET back == Lookbacks[next]
           best == LatestCommon(Available(tradeKeys, Today + 1 - back), Available(bookKeys, Today + 1 - back))
       IN IF back >= days /\ Cardinality(best) = days
          THEN result' = best /\ window' = back /\ next' = Len(Lookbacks) + 1
          ELSE next' = next + 1 /\ UNCHANGED <<result, window>>
    /\ UNCHANGED <<tradeKeys, bookKeys, days>>

\* a listing that cannot be downloaded ends the lookup without dates
ListingFails == next <= Len(Lookbacks) /\ next' = Len(Lookbacks) + 1 /\ UNCHANGED <<tradeKeys, bookKeys, days, result, window>>

ArchiveNext == Check \/ Lookup \/ ListingFails

ArchiveSpec == ArchiveInit /\ [][ArchiveNext]_archiveVars

(***************************************************************************)
(* Properties.                                                             *)
(***************************************************************************)
Complete == tradeKeys.zip \cap tradeKeys.sum \cap bookKeys.zip \cap bookKeys.sum

\* Every date the lookup settles on has the archive and the checksum of both channels,
\* and there are as many as were asked for.
DatesImportable ==
    result # {} => Cardinality(result) = days /\ result \subseteq Complete

\* "--days selects the latest available exact dates for that symbol".
LatestDates == result # {} => \A d \in Complete \ result, e \in result : d < e

\* What the lookup does guarantee: the dates are the latest ones as long as the window
\* they were found in has no more keys than a page holds.
LatestWithinPage == 2 * window + 1 <= Page => LatestDates

=============================================================================
