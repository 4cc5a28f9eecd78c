---- MODULE BacktestSetup ----
(***************************************************************************)
(* Two machines: the parameters of a backtest (Init, Next), and the choice *)
(* of its session and legs (LegInit, LegNext).                             *)
(*                                                                         *)
(* The parameters of a backtest, from BacktestViewModelConfig.cpp and      *)
(* BacktestViewModelPersistence.cpp: every setter writes the settings at   *)
(* once, a restart reads them, a strategy keeps its own parameters, and    *)
(* profiles are files the user saves and loads.  What a run finally uses   *)
(* is executionPolicyForSessions_ and writeRunConfigForPreparedSessions_.  *)
(*                                                                         *)
(* The members fall into kinds, of which one each is modelled: a plain     *)
(* value (seed), the order latencies, which stand in for each other, a     *)
(* limit of the risk section, the two rate limit flags, a fee that is      *)
(* never restored, the latency of one venue, and two parameters p and q of *)
(* one exclusive group, with their ranges.  A jitter goes like its latency.*)
(***************************************************************************)
EXTENDS Integers, FiniteSets, Sequences, SequencesExt

CONSTANTS Values,     \* texts a user may type, natural numbers above 0
          Default,    \* the default of every value
          Strategies, \* 1 .. number of strategies
          MaxActs     \* bound on handlers called

Empty == 0
Absent == -1
Texts == Values \cup {Empty}
Keys == {"p", "q"}

VARIABLES
  members,       \* the members of BacktestViewModel
  store,   \* settings_
  profile, \* the profile file of each strategy, or no file
  dirty,   \* history: a profile was loaded and nothing was saved since
  acts

vars == <<members, store, profile, dirty, acts>>

Plain == {"seed", "ping", "market", "limit", "cancel", "risk"}
Either(x, fallback) == IF x = Absent THEN fallback ELSE x
Filled(x, fallback) == IF x = Empty THEN fallback ELSE x

-----------------------------------------------------------------------------
(* Parameters of a strategy: loadStrategyDefaults_, then                   *)
(* loadSavedParameterValues_                                               *)

NoParams == [par |-> [k \in Keys |-> Absent], range |-> [k \in Keys |-> Absent], act |-> "p"]

LoadedParams(params) ==
  [par   |-> [k \in Keys |-> Filled(Either(params.par[k], Default), Default)],
   range |-> [k \in Keys |-> Filled(Either(params.range[k], Default), Default)],
   act   |-> params.act]

\* loadStrategyDefaults_ and loadSavedParameterValues_ on the switch to s; the
\* risk section comes from the strategy's template.
Switched(w, st, s) == [w EXCEPT !.strategy = s, !.params = LoadedParams(st.params[s]), !.risk = Empty]

-----------------------------------------------------------------------------
(* The settings                                                            *)

SavedUnderFirst(st, w) ==
  [f \in DOMAIN st |-> CASE f = "params" -> [st.params EXCEPT ![1] = w.params]
                         [] f = "venue" -> st.venue
                         [] OTHER -> w[f]]
Saved(st, w) ==
  [f \in DOMAIN st |-> CASE f = "params" -> [st.params EXCEPT ![w.strategy] = w.params]
                         [] f = "venue" -> st.venue
                         [] OTHER -> w[f]]

\* loadPersistentConfig_: settings of older versions hold the ping latency only.
Loaded(st) ==
  LET ping == Filled(Either(st.ping, Default), Default)
      old(x) == IF x # Absent THEN x ELSE IF st.ping # Absent THEN ping ELSE Default
      limit == Filled(old(st.limit), Default)
  IN  [strategy |-> st.strategy, seed |-> Filled(Either(st.seed, Default), Default), ping |-> ping,
       market |-> Filled(old(st.market), Default), limit |-> limit,
       cancel |-> Filled(Either(st.cancel, limit), limit), risk |-> Either(st.risk, Empty),
       rates |-> st.rates, strict |-> st.rates /\ st.strict, fee |-> Empty, venue |-> Absent,
       params |-> LoadedParams(st.params[st.strategy])]

\* venueExecutionValue_: a value of this session first, then the settings.
VenueMarket(w, st) == IF w.venue # Absent THEN w.venue ELSE Either(st.venue, w.market)

-----------------------------------------------------------------------------
(* What a run uses                                                         *)

\* executionPolicyForSessions_: an empty latency falls back to another one.
Policy(w, st) ==
  LET ping == Filled(w.ping, Default)
      market == Filled(w.market, ping)
      limit == Filled(w.limit, ping)
  IN  [market |-> market, limit |-> limit, cancel |-> Filled(w.cancel, limit),
       venue |-> Filled(VenueMarket(w, st), market), rates |-> w.rates, strict |-> w.strict]

\* writeRunConfigForPreparedSessions_: only the active parameter of a group.
RunParams(w) == {<<k, w.params.par[k]>> : k \in {w.params.act} \ {k \in Keys : w.params.par[k] = Empty}}

-----------------------------------------------------------------------------
(* Handlers                                                                *)

Act == acts < MaxActs /\ acts' = acts + 1
Keep(w) == members' = w /\ store' = Saved(store, w) /\ dirty' = FALSE /\ UNCHANGED profile

\* The setters of plain values; a fee is kept in memory only.
SetValue(f, x) == Act /\ members[f] # x /\ Keep([members EXCEPT ![f] = x])
SetFee(x) == Act /\ members.fee # x /\ Keep([members EXCEPT !.fee = x])

SetRateLimits(b) ==
  Act /\ members.rates # b /\ Keep([members EXCEPT !.rates = b, !.strict = b /\ @])
SetStrict(b) ==
  Act /\ members.strict # (b /\ members.rates) /\ Keep([members EXCEPT !.strict = b /\ members.rates])

\* setVenueExecutionValue writes its own setting.
SetVenue(x) ==
  /\ Act /\ Either(members.venue, Empty) # x
  /\ members' = [members EXCEPT !.venue = x]
  /\ store' = [store EXCEPT !.venue = x]
  /\ UNCHANGED <<profile, dirty>>

SetParameter(k, x) == Act /\ members.params.par[k] # x /\ Keep([members EXCEPT !.params.par[k] = x])
SetGroup(k) == Act /\ members.params.act # k /\ Keep([members EXCEPT !.params.act = k])
SetRange(k, x) == Act /\ members.params.range[k] # x /\ Keep([members EXCEPT !.params.range[k] = x])

\* setSelectedStrategy saves before and after the switch.
SetStrategy(s) ==
  /\ Act /\ s # members.strategy
  /\ LET before == Saved(store, members)
         w == Switched(members, before, s)
     IN  members' = w /\ store' = Saved(before, w) /\ dirty' = FALSE /\ UNCHANGED profile

\* ensureSelectedStrategySupportsSessionCount_ saves after it only.
FallBack(s) == Act /\ s # members.strategy /\ Keep(Switched(members, store, s))

\* saveProfile: flags as 1 and 2, the venue's latency as it is in effect.
Flag(b) == IF b THEN 2 ELSE 1
Written(w, st) ==
  [seed |-> w.seed, order |-> w.market, market |-> w.market, limit |-> w.limit, cancel |-> w.cancel,
   risk |-> w.risk, rates |-> Flag(w.rates), strict |-> Flag(w.rates /\ w.strict), venue |-> VenueMarket(w, st),
   act |-> w.params.act, par |-> [k \in Keys |-> IF k = w.params.act THEN w.params.par[k] ELSE Empty],
   range |-> w.params.range]
SaveProfile ==
  /\ Act
  /\ profile' = [profile EXCEPT ![members.strategy] = {Written(members, store)}]
  /\ UNCHANGED <<members, store, dirty>>

\* loadProfile: what the file leaves empty is kept, but for the risk section
\* and the latencies that stand in for each other.  Nothing is saved.
ReadProfile(w, p) ==
  LET rates == IF p.rates = Empty THEN w.rates ELSE p.rates = 2
      limit == Filled(p.limit, Filled(p.order, w.limit))
  IN  [w EXCEPT !.ping = Filled(p.order, @), !.seed = Filled(p.seed, @),
                !.market = Filled(p.market, Filled(p.order, @)), !.limit = limit,
                !.cancel = Filled(p.cancel, limit), !.risk = p.risk, !.rates = rates,
                !.strict = rates /\ (IF p.strict = Empty THEN @ ELSE p.strict = 2),
                !.venue = IF p.venue = Empty THEN @ ELSE p.venue,
                !.params = [act |-> p.act, par |-> [k \in Keys |-> Filled(p.par[k], @.par[k])],
                            range |-> [k \in Keys |-> Filled(p.range[k], @.range[k])]]]
LoadProfile ==
  /\ Act
  /\ \E p \in profile[members.strategy] : members' = ReadProfile(members, p)
  /\ dirty' = TRUE
  /\ UNCHANGED <<store, profile>>

Restart ==
  /\ Act
  /\ members' = Loaded(store)
  /\ dirty' = FALSE
  /\ UNCHANGED <<store, profile>>

-----------------------------------------------------------------------------
\* Settings and profiles as earlier versions left them: nothing, or only a
\* ping latency; no profile, or one with only an order latency.
Init ==
  \E ping \in {Absent} \cup Values, old \in BOOLEAN :
    /\ store = [strategy |-> 1, seed |-> Absent, ping |-> ping, market |-> Absent, limit |-> Absent,
                cancel |-> Absent, risk |-> Absent, rates |-> TRUE, strict |-> FALSE, venue |-> Absent,
                params |-> [s \in Strategies |-> NoParams]]
    /\ members = Loaded(store)
    /\ profile = [s \in Strategies |->
                    IF ~old THEN {}
                    ELSE {[seed |-> Empty, order |-> Default, market |-> Empty, limit |-> Empty, cancel |-> Empty,
                           risk |-> Empty, rates |-> Empty, strict |-> Empty, venue |-> Empty, act |-> "p",
                           par |-> [k \in Keys |-> Empty], range |-> [k \in Keys |-> Empty]]}]
    /\ dirty = FALSE /\ acts = 0

Next ==
  \/ \E f \in Plain, x \in Texts : SetValue(f, x)
  \/ \E x \in Texts : SetFee(x) \/ SetVenue(x)
  \/ \E b \in BOOLEAN : SetRateLimits(b) \/ SetStrict(b)
  \/ \E k \in Keys : SetGroup(k) \/ \E x \in Texts : SetParameter(k, x) \/ SetRange(k, x)
  \/ \E s \in Strategies : SetStrategy(s) \/ FallBack(s)
  \/ SaveProfile \/ LoadProfile \/ Restart

Spec == Init /\ [][Next]_vars

-----------------------------------------------------------------------------
\* Strict rate limits are never on without rate limits, in memory or in what
\* a run is given, whichever setter, profile or settings file came last.
StrictNeedsLimits == members.strict => members.rates

AllFilled(w) ==
  /\ \A f \in Plain \ {"risk"} : w[f] # Empty
  /\ \A k \in Keys : w.params.par[k] # Empty /\ w.params.range[k] # Empty

\* A restart restores every member but the fees, unless a profile was loaded
\* since the last save or a text was left empty (savePersistentConfig_ against
\* loadPersistentConfig_).
RestartRestores ==
  Restart /\ ~dirty /\ AllFilled(members) =>
    \A f \in DOMAIN members \ {"fee", "venue"} : members'[f] = members[f]

\* Loading a profile that was just saved changes nothing a run uses
\* (saveProfile against loadProfile), as long as no text is empty.
ProfileRoundTrip ==
  LoadProfile /\ profile[members.strategy] = {Written(members, store)} /\ AllFilled(members) =>
    Policy(members', store') = Policy(members, store) /\ RunParams(members') = RunParams(members) /\ members'.seed = members.seed

\* Choosing another strategy and coming back finds the parameters as they
\* were, unless they came from a profile or were left empty: the parameters
\* of every strategy that is not selected are only touched when it is.
StrategyKeepsParams ==
  members'.strategy # members.strategy /\ ~dirty /\ AllFilled(members) =>
    LoadedParams(store'.params[members.strategy]) = members.params

-----------------------------------------------------------------------------
(***************************************************************************)
(* Which recorded sessions (legs) a backtest runs on, from                 *)
(* BacktestViewModelLegSelection.cpp and the session setters of            *)
(* BacktestViewModelConfig.cpp.  The user selects a session, a group of    *)
(* sessions or a path, may add a further session, and disables legs in a   *)
(* dialog that stages the choice until it is applied.  Disabled legs are   *)
(* kept in the settings per session; the strategy follows the number of    *)
(* enabled legs.                                                           *)
(*                                                                         *)
(* Session i is recorded at path i; Group is the group of all sessions.    *)
(* Paths outside the catalogue have numbers above N.                       *)
(***************************************************************************)

CONSTANTS N,       \* sessions 1 .. N in the order of the catalogue
          Futures, \* paths recorded on a futures market
          Binary,  \* paths of binary recordings
          Manual,  \* paths the user may type
          LegMaxActs  \* bound on handlers called

Group == 0
None == -1
Paths == (1..N) \cup Manual
Ids == 0..N

VARIABLES
  v,    \* the members of BacktestViewModel; rows are the sessions catalogued
  legStore, \* settings_; behind is history: a profile set the primary leg after the last save
  legActs

legVars == <<v, legStore, legActs>>

-----------------------------------------------------------------------------
(* Candidate legs                                                          *)

Ascending(S) == SelectSeq([i \in 1..N |-> i], LAMBDA i : i \in S)
RowPaths(w, id) ==
  CASE id = Group -> Ascending(w.rows) [] id \in w.rows -> <<id>> [] OTHER -> <<>>

\* candidatePathsForSessionId_: a session that is not catalogued is looked
\* for under the recordings root, a group is not.
PathsOf(w, id) ==
  IF RowPaths(w, id) = <<>> /\ id \notin {None, Group} THEN <<id>> ELSE RowPaths(w, id)

\* selectedSessionPath, None when there is none
SelectedPath(w) ==
  IF w.manual # None THEN w.manual
  ELSE IF PathsOf(w, w.sel) = <<>> THEN None ELSE PathsOf(w, w.sel)[1]

\* selectedSessionCandidatePaths_: a group owns all its legs; otherwise the
\* extra session's paths follow.
Candidates(w) ==
  LET own == IF w.manual # None THEN <<w.manual>> ELSE PathsOf(w, w.sel)
  IN  IF w.manual = None /\ w.sel = Group /\ w.rows # {} THEN own
      ELSE own \o SelectSeq(PathsOf(w, w.extra), LAMBDA p : p \notin Range(own))

LegCandidates(w) == IF w.pending # None THEN PathsOf(w, w.pending) ELSE Candidates(w)

\* selectedSessionPaths_
Enabled(w) == SelectSeq(Candidates(w), LAMBDA p : p \notin Range(w.disabled))

\* normalizedDisabledSessionLegPaths_
Normalized(w, s) == SelectSeq(s, LAMBDA p : p \in Range(LegCandidates(w)))

\* legSelectionSettingsKey_: a typed path has a key of its own.
LegSelectionSettingsKey(w) ==
  IF w.pending # None THEN w.pending ELSE IF w.manual # None THEN w.manual + N ELSE w.sel
LegKeys == Ids \cup {p + N : p \in Paths}

\* loadLegSelectionForCurrentSession_: while a session is pending only the
\* staged legs are loaded.
LegLoaded(w) ==
  LET key == LegSelectionSettingsKey(w)
      legs == IF key = None THEN <<>> ELSE Normalized(w, legStore.legs[key])
  IN  IF w.pending # None THEN [w EXCEPT !.staged = legs]
      ELSE [w EXCEPT !.disabled = legs, !.staged = legs]

-----------------------------------------------------------------------------
(* The primary leg and the strategy                                        *)

\* normalizedSelectedPrimaryLegIndex_, counted from 0
NormalizedPrimary(w) ==
  LET c == Candidates(w)
      on == {i \in DOMAIN c : c[i] \notin Range(w.disabled)}
  IN  IF w.primary + 1 \in on THEN w.primary
      ELSE IF on = {} THEN 0 ELSE (CHOOSE i \in on : \A j \in on : i <= j) - 1

\* StrategyMetadata: strategy s takes s sessions; none selected counts as one.
Supports(s, n) == s = IF n = 0 THEN 1 ELSE n

\* ensureSelectedStrategySupportsSessionCount_
Fitted(w) ==
  LET n == Len(Enabled(w))
      able == {s \in Strategies : Supports(s, n)}
  IN  IF SelectedPath(w) \in Binary \/ Supports(w.strategy, n) \/ able = {} THEN w
      ELSE [w EXCEPT !.strategy = CHOOSE s \in able : \A t \in able : s <= t]

\* savePersistentConfig_
LegSaved(st, w) ==
  [st EXCEPT !.extra = w.extra, !.primary = w.primary, !.strategy = w.strategy, !.behind = FALSE]

Finish(w, st) ==
  /\ v' = Fitted(w)
  /\ legStore' = IF v' = w THEN st ELSE LegSaved(st, v')

-----------------------------------------------------------------------------
(* The catalogue                                                           *)

\* applyLoadedSessions_ on members w: a selection that is gone falls back to
\* the first session.
ApplySessions(w, st) ==
  LET gone == w.manual = None /\ RowPaths(w, w.sel) = <<>>
      fallen == IF gone THEN [w EXCEPT !.sel = IF w.rows = {} THEN None ELSE Ascending(w.rows)[1]] ELSE w
      loaded == LegLoaded(fallen)
      normal == [loaded EXCEPT !.primary = NormalizedPrimary(loaded)]
  IN  Finish(normal, IF normal = loaded THEN st ELSE LegSaved(st, normal))

CatalogueChanges == \E rows \in SUBSET (1..N) : ApplySessions([v EXCEPT !.rows = rows], legStore)

\* A restart: the settings are loaded and the catalogue is not there yet.
LegRestart ==
  ApplySessions([rows |-> {}, sel |-> None, manual |-> None, extra |-> legStore.extra, pending |-> None,
                 disabled |-> <<>>, staged |-> <<>>, primary |-> legStore.primary, strategy |-> legStore.strategy],
                [legStore EXCEPT !.behind = FALSE])

-----------------------------------------------------------------------------
(* The session setters                                                     *)

SetSelectedSessionId(id) ==
  /\ ~(v.sel = id /\ v.manual = None /\ v.pending = None)
  /\ Finish(LegLoaded([v EXCEPT !.pending = None, !.sel = id, !.manual = None]), legStore)

SetSelectedSessionIdForLegSelection(id) ==
  /\ v' = LegLoaded([v EXCEPT !.pending = id])
  /\ UNCHANGED legStore

SetSessionPath(p) ==
  /\ SelectedPath(v) # p
  /\ Finish(LegLoaded([v EXCEPT !.pending = None, !.manual = p, !.sel = p]), legStore)

SetExtraSessionIds(id) ==
  /\ id # v.extra
  /\ LET w == LegLoaded([v EXCEPT !.pending = None, !.extra = id])
         normal == [w EXCEPT !.primary = NormalizedPrimary(w)]
     IN  Finish(normal, LegSaved(legStore, normal))

SetSelectedPrimaryLegIndex(i) ==
  LET c == Candidates(v)
      index == IF i \in 0..(Len(c) - 1) /\ c[i + 1] \notin Range(v.disabled) THEN i ELSE NormalizedPrimary(v)
      w == [v EXCEPT !.primary = index]
  IN  index # v.primary /\ v' = w /\ legStore' = LegSaved(legStore, w)

\* setSelectedStrategy; any discovered strategy may be chosen.
SetSelectedStrategy(s) ==
  /\ s # v.strategy
  /\ v' = [v EXCEPT !.strategy = s]
  /\ legStore' = LegSaved(legStore, v')

\* loadProfile: the primary leg is the one the profile names, normalised; nothing
\* is saved.  A profile may have been written with any leg.
LegLoadProfile(i) ==
  /\ v' = [v EXCEPT !.primary = NormalizedPrimary([v EXCEPT !.primary = i])]
  /\ legStore' = [legStore EXCEPT !.behind = TRUE]

-----------------------------------------------------------------------------
(* The dialog                                                              *)

Stage(s) == v' = [v EXCEPT !.staged = Normalized(v, s)] /\ UNCHANGED legStore

\* setSessionLegSelectionStaged
Toggled(p) == IF p \in Range(v.staged) THEN SelectSeq(v.staged, LAMBDA q : q # p) ELSE Append(v.staged, p)
StageLeg(p) == p \in Range(LegCandidates(v)) /\ Stage(Toggled(p))

\* setAllSessionLegsSelectionStaged
StageAll(enabled) == Stage(IF enabled THEN <<>> ELSE LegCandidates(v))

\* setFuturesSessionLegsSelectionStaged
StageFutures == Stage(SelectSeq(LegCandidates(v), LAMBDA p : p \notin Futures))

\* resetLegSelectionStaged
ResetLegSelection ==
  v' = (IF v.pending # None THEN LegLoaded(v) ELSE [v EXCEPT !.staged = Normalized(v, v.disabled)]) /\ UNCHANGED legStore

CancelLegSelection == v' = LegLoaded([v EXCEPT !.pending = None]) /\ UNCHANGED legStore

ApplyStaged(m) ==
  LET next == Normalized(m, m.staged)
      w == IF m.pending = None THEN m
           ELSE [m EXCEPT !.sel = m.pending, !.pending = None, !.manual = None, !.extra = None]
      off == [w EXCEPT !.disabled = next, !.staged = next]
      key == LegSelectionSettingsKey(off)
      kept == IF key = None THEN legStore ELSE [legStore EXCEPT !.legs[key] = next]
      normal == [off EXCEPT !.primary = NormalizedPrimary(off)]
  IN  IF m.pending = None /\ m.disabled = next THEN v' = off /\ UNCHANGED legStore
      ELSE Finish(normal, IF m.pending # None \/ normal # off THEN LegSaved(kept, normal) ELSE kept)

ApplyLegSelection == ApplyStaged(v)

SetSessionLegEnabled(p) ==
  p \in Range(LegCandidates(v)) /\ ApplyStaged([v EXCEPT !.staged = Normalized(v, Toggled(p))])

-----------------------------------------------------------------------------
(* A run                                                                   *)

\* prepareSelectedSessions_ and orderedSessionPathsForRun_: strategy 2 stands
\* for basis_convergence_probe, which takes the last spot leg and the first
\* futures leg.
RunPaths(w) ==
  LET on == Enabled(w)
      spot == {i \in DOMAIN on : on[i] \notin Futures}
      futures == DOMAIN on \ spot
  IN  IF w.strategy # 2 \/ spot = {} \/ futures = {} THEN on
      ELSE <<on[CHOOSE i \in spot : \A j \in spot : j <= i], on[CHOOSE i \in futures : \A j \in futures : i <= j]>>

RunPrimary(w) ==
  LET c == Candidates(w)
      at == {i \in DOMAIN RunPaths(w) : c[NormalizedPrimary(w) + 1] = RunPaths(w)[i]}
  IN  IF RunPaths(w) = <<>> \/ at = {} THEN 0 ELSE (CHOOSE i \in at : TRUE) - 1

LegInit ==
  /\ v = [rows |-> {}, sel |-> None, manual |-> None, extra |-> None, pending |-> None,
          disabled |-> <<>>, staged |-> <<>>, primary |-> 0, strategy |-> 1]
  /\ legStore = [legs |-> [k \in LegKeys |-> <<>>], extra |-> None, primary |-> 0, strategy |-> 1,
                 behind |-> FALSE]
  /\ legActs = 0

Handler ==
  \/ CatalogueChanges \/ LegRestart
  \/ \E id \in Ids : \/ SetSelectedSessionId(id) \/ SetSelectedSessionIdForLegSelection(id)
  \/ \E id \in Ids \cup {None} : SetExtraSessionIds(id)
  \/ \E p \in Manual : SetSessionPath(p)
  \/ \E i \in 0..N : SetSelectedPrimaryLegIndex(i) \/ LegLoadProfile(i)
  \/ \E s \in Strategies : SetSelectedStrategy(s)
  \/ \E p \in Paths : StageLeg(p) \/ SetSessionLegEnabled(p)
  \/ StageAll(TRUE) \/ StageAll(FALSE) \/ StageFutures
  \/ ResetLegSelection \/ CancelLegSelection \/ ApplyLegSelection

LegNext == legActs < LegMaxActs /\ legActs' = legActs + 1 /\ Handler

LegSpec == LegInit /\ [][LegNext]_legVars

-----------------------------------------------------------------------------
\* With no session pending, the disabled legs are those the settings hold for
\* the selected session, as far as they are legs of it: whatever was staged,
\* cancelled, applied, catalogued or restarted in between
\* (loadLegSelectionForCurrentSession_ and its callers).
LegsFollowSettings ==
  v.pending = None /\ LegSelectionSettingsKey(v) # None =>
    v.disabled = Normalized(v, legStore.legs[LegSelectionSettingsKey(v)])

\* Applying the dialog writes the legs of the session it shows and of no
\* other (saveLegSelectionForCurrentSession_ comes after the pending session
\* is committed).
SavesShownSession ==
  \A k \in LegKeys : legStore'.legs[k] # legStore.legs[k] => k = LegSelectionSettingsKey(v)

\* What the settings hold of the extra session, primary leg and strategy is
\* what is in use, so that nothing is lost when the viewer is killed; only a
\* primary leg that came from a profile is lost until something is saved.
SettingsInStep ==
  /\ legStore.extra = v.extra /\ legStore.strategy = v.strategy
  /\ legStore.behind \/ legStore.primary = v.primary

\* When the number of enabled legs changes, the strategy becomes one that
\* takes that number, if there is one (ensureSelectedStrategySupportsSessionCount_).
\* cancelLegSelection is the exception: it loads the disabled legs again, which
\* may differ after the catalogue changed under the dialog, and fits nothing.
StrategyFits ==
  LET n == Len(Enabled(v')) IN
  n # Len(Enabled(v)) /\ ~CancelLegSelection =>
                         \/ SelectedPath(v') \in Binary
                         \/ \A s \in Strategies : Supports(s, n) => Supports(v'.strategy, n)

\* The leg a run takes as primary is the leg shown as primary, whenever that
\* leg runs (selectedPrimaryLegIndex counts all candidates,
\* selectedPrimaryLegIndexForPaths_ the legs of the run).
PrimaryIsShown ==
  LET shown == Candidates(v)[NormalizedPrimary(v) + 1]
  IN  RunPaths(v) # <<>> /\ shown \in Range(RunPaths(v)) => RunPaths(v)[RunPrimary(v) + 1] = shown

=============================================================================
