----------------------------- MODULE SourceState -----------------------------
(***************************************************************************)
(* The state of one corpus source as a stream of stored records moves it   *)
(* (BinaryMarketSourceState.hpp): its generation, the channels a           *)
(* subscription makes available, and three health overlays.  The writer    *)
(* runs it in append order, the sealed reader and the active cursor in the *)
(* merged order; a record it refuses makes the row or the corpus invalid.  *)
(*                                                                         *)
(* Market rows of a channel clear its unhealthy mark, except that a depth  *)
(* channel marked by a native loss marker stays marked until a recovery    *)
(* marker is followed by a complete native book.                           *)
(***************************************************************************)
EXTENDS Integers, Sequences

CONSTANTS
  MarketChannels,  \* market channels of the source
  Depth,           \* the depth channel
  Rules,           \* instrument rules (steps, scales, assets) a directory row carries
  MaxGeneration, MaxRevision,  \* bounds
  MaxRecords       \* bound: records in a stream

ASSUME DepthAssumption == Depth \in MarketChannels

ASSUME BoundsAssumption == MaxGeneration \in Nat \ {0} /\ MaxRevision \in Nat

VARIABLES
  source,  \* BinaryMarketSourceState
  log      \* the records accepted so far

sourceVars == <<source, log>>

-----------------------------------------------------------------------------
(* Records.                                                                *)

\* A market row: its channel and generation, whether it claims exact replay
\* compatibility, and whether it is a native book complete enough to recover
\* from (healthy or partial state, or the first record of a native rebase).
Rows ==
  [kind : {"row"}, channel : MarketChannels, gen : 1..MaxGeneration, exact : BOOLEAN, book : BOOLEAN]

\* A row that reports its channel stale, degraded or gapped.
Reports == [kind : {"report"}, channel : MarketChannels, gen : 1..MaxGeneration]

\* A native health marker: DirectoryChanged with a native cause.
Markers ==
  [kind : {"marker"}, channel : MarketChannels, gen : 1..MaxGeneration, rules : Rules,
   recovered : BOOLEAN]

\* A subscription transition; "exact" are the channels the new directory row
\* offers for exact replay, always among the ones it makes available.
Transitions ==
  {t \in [kind : {"transition"}, what : {"added", "removed", "readded", "changed"},
          previous : 0..MaxGeneration, gen : 1..MaxGeneration, revision : 1..MaxRevision,
          before : SUBSET MarketChannels, after : SUBSET MarketChannels, exact : SUBSET MarketChannels,
          rules : Rules] :
     /\ t.exact \subseteq t.after
     /\ t.previous = 0 => t.what = "added"}

Records == Rows \cup Reports \cup Markers \cup Transitions

-----------------------------------------------------------------------------
(* Handlers.                                                               *)

Initial(present, gen, offered, exact, rules) ==
  [gen |-> IF present THEN gen ELSE 0, available |-> IF present THEN offered ELSE {},
   exact |-> exact, rules |-> rules, revision |-> 0,
   unhealthy |-> {}, administrative |-> {}, recovering |-> {}]

AcceptsRow(s, r) ==
  /\ r.gen = s.gen
  /\ r.channel \in s.available
  /\ r.exact => r.channel \in s.exact

ClearsHeld(s, r) == r.exact /\ (r.channel = Depth => r.book)

\* A row that only clears marks: exact rows of other channels, exact native
\* books of a depth channel no loss marker holds.
Clears(s, r) ==
  r.exact /\ (r.channel = Depth => r.book /\ Depth \notin s.administrative)

AfterRow(s, r) ==
  IF Clears(s, r)
    THEN [s EXCEPT !.unhealthy = @ \ {r.channel},
                   !.recovering = IF r.channel = Depth THEN @ \ {Depth} ELSE @]
    ELSE s

AcceptsReport(s, r) == r.gen = s.gen

AfterReport(s, r) == [s EXCEPT !.unhealthy = @ \cup {r.channel}]

AcceptsMarker(s, r) ==
  /\ r.rules = s.rules
  /\ r.gen >= s.gen
  /\ r.gen # s.gen => r.recovered

AfterMarkerKeepsPending(s, r) ==
  [s EXCEPT !.gen = r.gen,
            !.unhealthy = IF r.recovered /\ r.channel # Depth THEN @ \ {r.channel} ELSE @ \cup {r.channel},
            !.administrative = IF r.channel # Depth THEN @ ELSE IF r.recovered THEN @ \ {Depth} ELSE @ \cup {Depth},
            !.recovering = IF r.channel = Depth /\ r.recovered THEN @ \cup {Depth} ELSE @]

AfterMarker(s, r) ==
  [s EXCEPT !.gen = r.gen,
            !.unhealthy = IF r.recovered /\ r.channel # Depth THEN @ \ {r.channel} ELSE @ \cup {r.channel},
            !.administrative = IF r.channel # Depth THEN @ ELSE IF r.recovered THEN @ \ {Depth} ELSE @ \cup {Depth},
            !.recovering = IF r.channel # Depth THEN @ ELSE IF r.recovered THEN @ \cup {Depth} ELSE @ \ {Depth}]

Gained(t) == t.after \ t.before
Lost(t) == t.before \ t.after

AcceptsTransition(s, t) ==
  /\ t.previous = s.gen /\ t.before = s.available
  /\ t.gen >= s.gen /\ t.revision > s.revision
  /\ CASE t.what = "added" -> Gained(t) # {} /\ Lost(t) = {}
       [] t.what = "removed" -> t.gen = s.gen /\ Lost(t) # {} /\ Gained(t) = {}
       [] t.what = "readded" -> s.gen # 0 /\ Gained(t) # {} /\ Lost(t) = {}
       [] t.what = "changed" -> s.gen # 0 /\ t.before = t.after

\* Marks a transition leaves: none of a new generation, otherwise those of the
\* channels whose availability it does not change.
Kept(s, t, marks) == IF t.gen # s.gen THEN {} ELSE marks \ (Gained(t) \cup Lost(t))

AfterTransition(s, t) ==
  [gen |-> t.gen, available |-> t.after, exact |-> t.exact, rules |-> t.rules,
   revision |-> t.revision, unhealthy |-> Kept(s, t, s.unhealthy),
   administrative |-> Kept(s, t, s.administrative), recovering |-> Kept(s, t, s.recovering)]

\* advanceBinaryMarketSourceState: the verdict and the new state.
Accepts(s, r) ==
  CASE r.kind = "row" -> AcceptsRow(s, r)
    [] r.kind = "report" -> AcceptsReport(s, r)
    [] r.kind = "marker" -> AcceptsMarker(s, r)
    [] r.kind = "transition" -> AcceptsTransition(s, r)

Advanced(s, r) ==
  CASE r.kind = "row" -> AfterRow(s, r)
    [] r.kind = "report" -> AfterReport(s, r)
    [] r.kind = "marker" -> AfterMarker(s, r)
    [] r.kind = "transition" -> AfterTransition(s, r)

-----------------------------------------------------------------------------

SourceInit ==
  /\ log = <<>>
  /\ \E present \in BOOLEAN, offered \in SUBSET MarketChannels, rules \in Rules :
       \E exact \in SUBSET offered :
         source = Initial(present /\ offered # {}, 1, offered, exact, rules)

Advance(r) ==
  /\ Accepts(source, r)
  /\ source' = Advanced(source, r)
  /\ log' = Append(log, r)

SourceNext == Len(log) < MaxRecords /\ \E r \in Records : Advance(r)

SourceSpec == SourceInit /\ [][SourceNext]_sourceVars

-----------------------------------------------------------------------------
(* Properties.                                                             *)

SourceTypeOK ==
  source \in [gen : 0..MaxGeneration, available : SUBSET MarketChannels, exact : SUBSET MarketChannels,
              rules : Rules, revision : 0..MaxRevision, unhealthy : SUBSET MarketChannels,
              administrative : SUBSET MarketChannels, recovering : SUBSET MarketChannels]

\* The overlays nest: a channel held by a loss marker, or one whose recovery is
\* pending, is unhealthy, never both at once, and only depth is ever held.
OverlaysNest ==
  /\ source.administrative \cup source.recovering \subseteq source.unhealthy \cap {Depth}
  /\ source.administrative \cap source.recovering = {}

\* The transition that opened the period record i belongs to restarts the
\* health of channel c: a new generation, or a change of c's availability.
Restarts(i, c) ==
  /\ log[i].kind = "transition"
  /\ log[i].gen # log[i].previous \/ c \in Gained(log[i]) \cup Lost(log[i])

\* Record i says channel c is unhealthy, or only about to recover.
Alarms(i, c) ==
  \/ log[i].kind = "report" /\ log[i].channel = c
  \/ log[i].kind = "marker" /\ log[i].channel = c /\ (log[i].recovered => c = Depth)

\* A loss marker of depth before i that no later marker or restart answers.
HeldAt(i) ==
  \E j \in 1..i - 1 :
    /\ log[j].kind = "marker" /\ log[j].channel = Depth /\ ~log[j].recovered
    /\ \A k \in j + 1..i - 1 :
         ~Restarts(k, Depth) /\ ~(log[k].kind = "marker" /\ log[k].channel = Depth)

\* Record i ends c's alarms.
Heals(i, c) ==
  \/ Restarts(i, c)
  \/ log[i].kind = "marker" /\ log[i].channel = c /\ log[i].recovered /\ c # Depth
  \/ /\ log[i].kind = "row" /\ log[i].channel = c /\ log[i].exact
     /\ c = Depth => log[i].book /\ ~HeldAt(i)

\* What the stored stream says of health, read backwards from its end: a channel
\* is unhealthy exactly when some alarm of it has not been healed since, and
\* depth under a loss marker heals only after a recovery marker.
UnhealthyByHistory ==
  source.unhealthy =
    {c \in MarketChannels : \E i \in 1..Len(log) :
       Alarms(i, c) /\ \A j \in i + 1..Len(log) : ~Heals(j, c)}

\* Every stored market row belongs to the generation and to a channel of the
\* subscription in force where it stands: the generation of the last marker or
\* transition before it, and the channels of the last transition.
RowsUnderSubscription ==
  \A i \in 1..Len(log) :
    log[i].kind = "row" =>
      \A j \in 1..i - 1 :
        /\ log[j].kind = "transition" /\ (\A k \in j + 1..i - 1 : log[k].kind # "transition")
             => log[i].channel \in log[j].after /\ (log[i].exact => log[i].channel \in log[j].exact)
        /\ log[j].gen <= log[i].gen
=============================================================================
