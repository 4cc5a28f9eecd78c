---- MODULE DetailedCandles ----
(***************************************************************************)
(* The detailed-candles download of the capture page                       *)
(* (CaptureViewModelBatch.cpp, CaptureViewModelRequests.cpp and            *)
(* CaptureViewModelBasisChainHelpers.cpp): the end of the window is chosen *)
(* by probing the latest trading sessions one by one, the legs are then    *)
(* downloaded one after another, and a basis chain is published as a group *)
(* directory with a series, a group manifest and a chain manifest.         *)
(*                                                                         *)
(* Times are days: an end is 2*d while day d trades and 2*d + 1 at its     *)
(* close.  The exchange, the coordinator and the files are external: any   *)
(* probe, download or write may fail.                                      *)
(***************************************************************************)
EXTENDS Integers, Sequences, SequencesExt, FiniteSets, FiniteSetsExt

CONSTANTS
    Days,         \* days "now" may fall on; day 6 and 7 of a week are its weekend
    RetryDays,    \* kFinamSmartRetryDays: candidates of a smart end
    Expiries,     \* expiration dates of futures contracts
    MaxRows       \* kBasisChainMaxCandidateRows

VARIABLES
    pc,       \* "ask", "probe", "download", "publish", "done"
    req,      \* the request: mode, now, the contracts known and those enabled
    ends,     \* end candidates, latest first; <<0>> is "now"
    probes,   \* verdicts of the candidates probed so far
    legs,     \* outcome of every leg downloaded so far
    group     \* what was published, and the answer

vars == <<pc, req, ends, probes, legs, group>>

(***************************************************************************)
(* The end of the window.                                                  *)
(***************************************************************************)
Weekday(d) == (d - 1) % 7 < 5

\* previousWeekday walks back over a weekend.
PreviousWeekday(d) == Max({e \in (d - 2) .. d : Weekday(e)})

PreviousTradingDate(d) == PreviousWeekday(d - 1)

\* detailedCandlesEndCandidatesNs, smart: now while the session trades, else the
\* last close; then the closes of the trading days before it.
SmartEnds(now) ==
    LET first == IF Weekday(now.day) /\ now.trading THEN 2 * now.day
                 ELSE 2 * PreviousWeekday(now.day) + 1
        before[n \in 1 .. RetryDays] ==
            IF n = 1 THEN first \div 2 ELSE PreviousTradingDate(before[n - 1])
    IN [n \in 1 .. RetryDays |-> IF n = 1 THEN first ELSE 2 * before[n] + 1]

\* A venue without sessions, and the mode "now", take the window that ends now.
EndCandidates(r) ==
    CASE r.endMode = "now" -> <<0>>
      [] r.endMode = "manual" -> IF r.manual > 0 THEN <<r.manual>> ELSE <<>>
      [] OTHER -> IF r.finam THEN SmartEnds(r.now) ELSE <<0>>

(***************************************************************************)
(* The futures of a chain.                                                 *)
(***************************************************************************)
Contracts == [archived : BOOLEAN, expiry : Expiries]

\* Contracts still traded first, then the latest expiration.
RanksBefore(a, b) ==
    \/ ~a.archived /\ b.archived
    \/ a.archived = b.archived /\ a.expiry > b.expiry

\* detailedCandlesBasisChainCandidates: the first maxEnabled rows are enabled.
CandidateRows(known, maxEnabled) ==
    LET sorted == SetToSortSeq(known, RanksBefore)
    IN [i \in 1 .. Min({Len(sorted), MaxRows}) |->
           [contract |-> sorted[i], enabled |-> i <= Min({maxEnabled, MaxRows})]]

\* enabledBasisChainSymbols.
Enabled(rows) == SelectSeq(rows, LAMBDA row : row.enabled)

\* makeDetailedCandlesConfigs, makeDetailedCandlesBasisChainConfigs: the spot leg
\* (or the first leg) comes first; no enabled future, no chain.
Configs(r) ==
    CASE r.mode = "single" -> <<"first">>
      [] r.mode = "pair" -> <<"first", "second">>
      [] OTHER -> LET futures == Enabled(CandidateRows(r.known, r.maxFutures))
                  IN IF futures = <<>> THEN <<>>
                     ELSE <<"spot">> \o [i \in 1 .. Len(futures) |-> "future"]

Nothing == [made |-> FALSE, legs |-> <<>>, members |-> {}, series |-> FALSE, manifest |-> FALSE,
            listed |-> FALSE, ok |-> FALSE]

Requests ==
    [mode : {"single", "pair", "chain"}, endMode : {"now", "manual", "smart"}, manual : {0, 1},
     finam : BOOLEAN, now : [day : Days, trading : BOOLEAN],
     known : {c \in SUBSET Contracts : Cardinality(c) <= 3}, maxFutures : 1 .. 2]

Init ==
    /\ pc = "ask"
    /\ req \in {r \in Requests : /\ r.endMode # "manual" => r.manual = 0
                                 /\ r.mode = "chain" => r.finam
                                 /\ r.mode # "chain" => r.known = {} /\ r.maxFutures = 1
                                 /\ r.endMode # "smart" => r.now.day = Min(Days) /\ r.now.trading}
    /\ ends = <<>> /\ probes = <<>> /\ legs = <<>> /\ group = Nothing

(***************************************************************************)
(* startDetailedCandles and startDetailedCandlesBasisChain.                *)
(***************************************************************************)
\* The prologue: nothing to probe ends the call; "now" is downloaded unprobed.
Ask ==
    /\ pc = "ask"
    /\ ends' = EndCandidates(req)
    /\ pc' = IF ends' = <<>> \/ Configs(req) = <<>> THEN "done"
             ELSE IF ends' = <<0>> THEN "download" ELSE "probe"
    /\ UNCHANGED <<req, probes, legs, group>>

\* A chain probes its spot leg, the other modes every leg.
Probed == IF req.mode = "chain" THEN {1} ELSE DOMAIN Configs(req)

\* A candidate holds when every probe does; it may be followed by an earlier one
\* when every failure was an empty window.
Verdict(answers) ==
    IF \A i \in Probed : answers[i] = "ok" THEN "ok"
    ELSE IF \A i \in Probed : answers[i] \in {"ok", "empty"} THEN "empty" ELSE "failed"

Probe ==
    /\ pc = "probe"
    /\ \E answers \in [Probed -> {"ok", "empty", "error"}] :
        LET verdict == Verdict(answers)
        IN /\ probes' = Append(probes, [end |-> ends[Len(probes) + 1], answers |-> answers])
           /\ pc' = CASE verdict = "ok" -> "download"
                      [] verdict = "empty" /\ Len(probes) + 1 < Len(ends) -> "probe"
                      [] OTHER -> "done"
    /\ UNCHANGED <<req, ends, legs, group>>

\* A leg is good when it was downloaded, finalized and holds rows (a plain leg
\* need not hold any); only a leg that got a session directory has a session.
Outcomes == {o \in [good : BOOLEAN, session : BOOLEAN, loads : BOOLEAN] :
                /\ o.good => o.session
                /\ o.loads => o.good}

\* One leg after another; a failed leg does not stop the others.
Download ==
    /\ pc = "download"
    /\ \E o \in Outcomes :
        LET last == Len(legs) + 1 = Len(Configs(req))
        IN /\ legs' = Append(legs, o)
           /\ pc' = IF ~last THEN "download" ELSE IF req.mode = "chain" THEN "publish" ELSE "done"
           /\ group' = IF last /\ req.mode # "chain"
                       THEN [group EXCEPT !.ok = \A i \in DOMAIN legs' : legs'[i].good] ELSE group
    /\ UNCHANGED <<req, ends, probes>>

Futures == 2 .. Len(legs)

ChainOk(seriesOk, groupOk, manifestOk) ==
    /\ legs[1].good /\ \E i \in Futures : legs[i].good
    /\ seriesOk /\ groupOk /\ manifestOk

\* The series needs a loaded spot and a loaded future; the group file lists the
\* sessions there are, and is written when there is one; the chain manifest
\* always is, with every leg and its status.
Publish ==
    /\ pc = "publish"
    /\ \E seriesWrite, groupWrite, manifestWrite \in BOOLEAN :
        LET both == legs[1].loads /\ \E i \in Futures : legs[i].loads
            members == {i \in DOMAIN legs : legs[i].session}
            seriesOk == both /\ seriesWrite
            groupOk == members = {} \/ groupWrite
        IN group' = [made |-> TRUE, legs |-> [i \in DOMAIN legs |-> legs[i].good],
                     members |-> IF groupWrite THEN members ELSE {}, series |-> seriesOk,
                     manifest |-> manifestWrite, listed |-> members # {} /\ groupWrite,
                     ok |-> ChainOk(seriesOk, groupOk, manifestWrite)]
    /\ pc' = "done"
    /\ UNCHANGED <<req, ends, probes, legs>>

Next == Ask \/ Probe \/ Download \/ Publish

Spec == Init /\ [][Next]_vars

(***************************************************************************)
(* Properties.                                                             *)
(***************************************************************************)
\* The ends of trading sessions that are not in the future: now, while the
\* session trades, and every close before.
SessionEnds(now) ==
    {2 * d + 1 : d \in {e \in (now.day - 14) .. now.day :
                           Weekday(e) /\ (e = now.day => ~now.trading)}}
        \cup (IF Weekday(now.day) /\ now.trading THEN {2 * now.day} ELSE {})

\* A smart end tries exactly the latest RetryDays session ends, the latest first,
\* and never a weekend (detailedCandlesEndCandidatesNs).
SmartEndsAreLatest ==
    req.endMode = "smart" /\ req.finam /\ ends # <<>> =>
        /\ Len(ends) = RetryDays
        /\ \A i, j \in DOMAIN ends : i < j => ends[i] > ends[j]
        /\ \A e \in SessionEnds(req.now) : e \in ToSet(ends) \/ e < ends[RetryDays]
        /\ ToSet(ends) \subseteq SessionEnds(req.now)

\* The window downloaded is the latest one every probed leg answers; an earlier
\* one is tried only while all failures are empty windows.
WindowIsLatestAnswered ==
    /\ \A i \in DOMAIN probes : probes[i].end = ends[i]
    /\ \A i \in 1 .. Len(probes) - 1 : \A l \in Probed : probes[i].answers[l] # "error"
    /\ legs # <<>> /\ ends # <<0>> =>
          probes # <<>> /\ \A l \in Probed : Last(probes).answers[l] = "ok"

\* A chain reported as downloaded is complete on disk: a good spot and a good
\* future, a series over them, the group file with every session and the manifest.
ChainOkMeansPublished ==
    pc = "done" /\ req.mode = "chain" /\ group.ok =>
        /\ group.series /\ group.listed /\ group.manifest
        /\ legs[1].good /\ legs[1].session
        /\ \E i \in Futures : legs[i].good /\ i \in group.members

\* Every leg asked for is downloaded and reported, in the order asked, whatever
\* became of the legs before it.
EveryLegReported ==
    /\ pc \in {"publish", "done"} /\ legs # <<>> => Len(legs) = Len(Configs(req))
    /\ group.made => Len(group.legs) = Len(Configs(req))

\* Among the candidates of a chain the enabled contracts come first and no
\* archived contract is enabled before one that still trades.
TradedBeforeArchived ==
    LET rows == CandidateRows(req.known, req.maxFutures)
    IN \A i, j \in DOMAIN rows :
         rows[i].enabled /\ ~rows[j].enabled =>
             /\ i < j
             /\ rows[i].contract.archived => rows[j].contract.archived
====
