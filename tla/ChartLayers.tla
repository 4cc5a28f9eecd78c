---- MODULE ChartLayers ----
(***************************************************************************)
(* Two machines: the recorded rows and results of the chart (Init, Next),  *)
(* and the orders drawn over them (OverlayInit, OverlayNext).              *)
(*                                                                         *)
(* The recorded sessions of the chart: which rows a session, or one layer  *)
(* of it, puts into the chart's replay, what is answered when a file does  *)
(* not parse, and the backtest result drawn over the rows.  A file is      *)
(* abstracted to how far it parses; the rows of a layer to how many of its *)
(* two halves were read.                                                   *)
(***************************************************************************)
EXTENDS Naturals, FiniteSets, Sequences, SequencesExt, FiniteSetsExt

CONSTANTS Sessions, Results,
          Owners,       \* a set of <<result, session>> pairs, one for each result
          Varied,       \* the layers whose files may be faulty or missing
          MaxActs, MaxWrites

Layers == {"trades", "candles", "candles2", "ticker", "depth"}
Candles == {"candles", "candles2"}
NoResult == "no result"
NoSession == "no session"

\* absent: not enabled in the manifest, or no file; whole: every line parses; torn: a line in the middle does not; bad: the first line does not; mixed:
\* every line parses, but the sequence numbers are refused
Kinds(l) == {"absent", "whole", "torn"} \cup (IF l \in {"trades", "ticker"} THEN {"mixed"} ELSE {})
            \cup (IF l \in {"ticker", "depth"} THEN {"bad"} ELSE {})

VARIABLES
    files,      \* the sessions on disk: [finam, kind of each layer's file]
    results,    \* the result directories: [type, version of manifest.json, parts that parse]
    shown,          \* the chart: members of ChartController
    asked,      \* layers whose last load since the session was chosen was answered true
    failed,     \* history: layers whose load failed since the session was chosen
    list,       \* backtestResults_
    cache,      \* resultManifestCache: the version a summary was read from, and its type
    acts, writes, last

vars == <<files, results, shown, asked, failed, list, cache, acts, writes, last>>

OwnerOf(r) == CHOOSE s \in Sessions : <<r, s>> \in Owners

Parts == {"overlay", "indicator", "usage"}
NoChart == [dir |-> NoSession, loaded |-> FALSE, window |-> "none", partial |-> FALSE,
            rows |-> [l \in Layers |-> 0], from |-> [l \in Layers |-> NoSession],
            selected |-> NoResult, drawn |-> [p \in Parts |-> NoResult]]

\* an ordinary session of a crypto venue
Ordinary == [finam |-> FALSE, kind |-> [l \in Layers |-> IF l \in Candles THEN "absent" ELSE "whole"]]

\* what a session can have on disk
KindsOf(l) == IF l \in Varied THEN Kinds(l) ELSE {Ordinary.kind[l]}
SessionFiles ==
    {[finam |-> f, kind |-> [trades |-> t, candles |-> k, candles2 |-> k2, ticker |-> b, depth |-> d]] :
        f \in BOOLEAN, t \in KindsOf("trades"), k \in KindsOf("candles"), k2 \in KindsOf("candles2"),
        b \in KindsOf("ticker"), d \in KindsOf("depth")}

Init ==
    /\ \E f \in SessionFiles :
            files = [s \in Sessions |-> IF s = CHOOSE t \in Sessions : TRUE THEN f ELSE Ordinary]
    /\ results = [r \in Results |-> [type |-> "none", version |-> 0, parts |-> {}]]
    /\ shown = NoChart /\ asked = {} /\ failed = {} /\ list = {} /\ acts = 0 /\ writes = 0 /\ last = "start"
    /\ cache = [r \in Results |-> [version |-> 0, type |-> "none"]]

(***************************************************************************)
(* Rows.                                                                   *)
(***************************************************************************)
\* readSessionManifestObject, sessionChannelPath and the rule that candles are FINAM's
Present(s, l) == files[s].kind[l] # "absent" /\ (l \in Candles => files[s].finam)

\* loadJsonl: the rows before the line that does not parse stay
RowsRead(s, l) == CASE files[s].kind[l] = "bad" -> 0 [] files[s].kind[l] = "torn" -> 1 [] OTHER -> 2

\* the status of an add: a depth package keeps the rows before its fault and is accepted for them
Parsed(s, l) == files[s].kind[l] \notin (IF l = "depth" THEN {"bad"} ELSE {"torn", "bad"})

Keeps(h, s, ls) ==
    [h EXCEPT !.rows = [l \in Layers |-> IF l \in ls THEN RowsRead(s, l) ELSE @[l]],
              !.from = [l \in Layers |-> IF l \in ls /\ RowsRead(s, l) > 0 THEN s ELSE @[l]],
              !.partial = @ \/ ("depth" \in ls /\ files[s].kind["depth"] = "torn")]

\* replay_.finalize: only sequence numbers that do not increase make it refuse the rows it has
Sound(h) == \A l \in {"trades", "ticker"} : h.rows[l] > 0 => files[h.from[l]].kind[l] # "mixed"

\* refreshLoadedStateFromSources_ of a recorded source
HasRows(h) == \E l \in Layers : h.rows[l] > 0

\* the end of a load that succeeded: computeInitialViewport_ only for the first rows
Shown(h, had) == [h EXCEPT !.loaded = HasRows(h), !.window = IF HasRows(h) /\ ~had THEN "fit" ELSE @]

ClearOverlay(h) == [h EXCEPT !.selected = NoResult, !.drawn = [p \in Parts |-> NoResult]]

\* the head of loadSessionForLayers: the old session's rows, overlay and selection go first
Chosen(h, s) == [NoChart EXCEPT !.dir = s, !.window = h.window]

\* loadSessionForLayers
LoadSessionForLayers(h, s, ls) ==
    LET here == {l \in ls : Present(s, l)}
        read == Keeps(Chosen(h, s), s, here)
        ok == here # {} /\ (\A l \in here : Parsed(s, l)) /\ Sound(read)
    IN [chart |-> IF ok THEN Shown(read, FALSE) ELSE read,
        yes |-> IF ok THEN here ELSE {}, no |-> IF ok THEN {} ELSE here]

\* loadRecordedSession: one layer, the best one the session has
Preferred(s) ==
    IF Present(s, "ticker") THEN {"ticker"}
    ELSE IF Present(s, "candles2") THEN {"candles2"}
    ELSE IF Present(s, "candles") THEN {"candles"}
    ELSE IF Present(s, "trades") THEN {"trades"} ELSE {}

LoadRecordedSession(h, s) == LoadSessionForLayers(h, s, Preferred(s))

\* loadRecordedChannel_
LoadRecordedChannel(h, l) ==
    LET s == h.dir
        read == Keeps(h, s, {l})
    IN IF h.rows[l] > 0 THEN [chart |-> h, yes |-> {l}, no |-> {}]
       ELSE IF ~Present(s, l) THEN [chart |-> h, yes |-> {}, no |-> {l}]
       ELSE IF Parsed(s, l) /\ Sound(read) THEN [chart |-> Shown(read, h.loaded), yes |-> {l}, no |-> {}]
       ELSE [chart |-> read, yes |-> {}, no |-> {l}]

\* loadRecordedOrderbook: a session without depth files is answered true once rows are shown
LoadRecordedOrderbook(h) ==
    LET s == h.dir
        read == Keeps(h, s, {"depth"})
    IN IF h.rows["depth"] > 0 \/ (~Present(s, "depth") /\ h.loaded)
       THEN [chart |-> h, yes |-> {"depth"}, no |-> {}]
       ELSE IF Present(s, "depth") /\ Parsed(s, "depth") /\ Sound(read)
       THEN [chart |-> Shown(read, h.loaded), yes |-> {"depth"}, no |-> {}]
       ELSE [chart |-> IF Present(s, "depth") THEN read ELSE h, yes |-> {}, no |-> {"depth"}]

(***************************************************************************)
(* Results.                                                                *)
(***************************************************************************)
Valid(type) == type \in {"run", "sweep"}

\* readManifestSummary: the summary is read again when the file's time or size changed
Summary(r) ==
    IF Valid(cache[r].type) /\ cache[r].version = results[r].version THEN cache[r]
    ELSE [version |-> results[r].version, type |-> results[r].type]

\* appendResultDirsDirect over the directories of the two sessions of the comparison
Listed(a, b) == {r \in Results : OwnerOf(r) \in {a, b} /\ results[r].type # "none" /\ Valid(Summary(r).type)}

\* refreshBacktestResults: a selected result that is no longer listed is no longer drawn
RefreshBacktestResults(a, b) ==
    /\ list' = {[path |-> r, type |-> Summary(r).type, version |-> Summary(r).version] : r \in Listed(a, b)}
    /\ cache' = [r \in Results |-> IF r \in Listed(a, b) THEN Summary(r) ELSE cache[r]]
    /\ shown' = IF shown.selected \in Listed(a, b) \cup {NoResult} THEN shown ELSE ClearOverlay(shown)

\* selectBacktestResult: the three parts are loaded before any is shown
SelectBacktestResult(h, r) ==
    IF results[r].type # "none" /\ results[r].parts = Parts
    THEN [h EXCEPT !.selected = r, !.drawn = [p \in Parts |-> r]]
    ELSE h

(***************************************************************************)
(* The operator's actions and the writers of results.                      *)
(***************************************************************************)
Act(name) == acts < MaxActs /\ acts' = acts + 1 /\ last' = name /\ UNCHANGED <<files, writes>>

Answered(a, fresh) ==
    /\ shown' = a.chart
    /\ asked' = (IF fresh THEN {} ELSE asked \ a.no) \cup a.yes
    /\ failed' = (IF fresh THEN {} ELSE failed) \cup a.no

\* a source is chosen: nothing happens when its rows are shown already
ChooseSession(s) ==
    /\ Act("session") /\ ~(shown.dir = s /\ shown.loaded)
    /\ Answered(LoadRecordedSession(shown, s), TRUE) /\ UNCHANGED <<results, list, cache>>

\* a layer is switched on
ShowLayer(l) ==
    /\ Act("layer") /\ shown.dir # NoSession
    /\ Answered(IF l = "depth" THEN LoadRecordedOrderbook(shown) ELSE LoadRecordedChannel(shown, l), FALSE)
    /\ UNCHANGED <<results, list, cache>>

\* resetSession
ResetSession ==
    /\ Act("reset") /\ shown.dir # NoSession /\ shown' = NoChart /\ asked' = {} /\ failed' = {}
    /\ UNCHANGED <<results, list, cache>>

\* setViewport, panTime, zoomTime
MoveWindow ==
    /\ Act("move") /\ shown.loaded /\ shown.window = "fit" /\ shown' = [shown EXCEPT !.window = "user"]
    /\ UNCHANGED <<results, list, cache, asked, failed>>

\* chooseBacktestRow: the session of the row first, then its overlay
ChooseResult(row) ==
    LET s == OwnerOf(row.path)
        a == IF shown.dir = s THEN [chart |-> shown, yes |-> {}, no |-> {}] ELSE LoadRecordedSession(shown, s)
    IN /\ Act("result") /\ row \in list
       /\ Answered([a EXCEPT !.chart = IF row.type = "run" THEN SelectBacktestResult(@, row.path) ELSE @], shown.dir # s)
       /\ UNCHANGED <<results, list, cache>>

RefreshResults(a, b) == Act("refresh") /\ RefreshBacktestResults(a, b) /\ UNCHANGED <<results, asked, failed>>

\* a backtest writes its result, or someone removes one
WriteResult(r, type, parts) ==
    /\ writes < MaxWrites /\ writes' = writes + 1 /\ last' = "write"
    /\ results' = [results EXCEPT ![r] = [type |-> type, version |-> IF type = "none" THEN 0 ELSE writes + 1, parts |-> parts]]
    /\ UNCHANGED <<files, shown, asked, failed, list, cache, acts>>

Next ==
    \/ \E s \in Sessions : ChooseSession(s)
    \/ \E l \in Layers : ShowLayer(l)
    \/ ResetSession \/ MoveWindow
    \/ \E row \in list : ChooseResult(row)
    \/ \E a, b \in Sessions : RefreshResults(a, b)
    \/ \E r \in Results, t \in {"none", "run", "sweep", "other"}, p \in {{"overlay"}, Parts} : WriteResult(r, t, p)

Spec == Init /\ [][Next]_vars

(***************************************************************************)
(* Properties.                                                             *)
(***************************************************************************)
\* Every row in the chart is of the session the chart names: choosing a session, alone or with
\* a backtest result, leaves nothing of the one before.
RowsOfNamed == \A l \in Layers : shown.rows[l] > 0 => shown.from[l] = shown.dir

\* A layer that was answered true is there to the last row and is shown, unless a load of it
\* failed earlier in the same session: a retry finds the rows the failed load left and is
\* answered true.  The order book is the exception: it is accepted for the rows before a fault,
\* and for no rows where the session has no depth files.
AnsweredIsWhole ==
    \A l \in asked \ failed :
        /\ shown.loaded
        /\ shown.rows[l] = 2 \/ (l = "depth" /\ (shown.partial \/ ~Present(shown.dir, l)))

\* What is drawn over the rows, its indicator and its request usage belong to one result, the
\* selected one, and that result is of the session in the chart.
OverlayIsSelected ==
    /\ \A p \in Parts : shown.drawn[p] = shown.selected
    /\ shown.selected # NoResult => OwnerOf(shown.selected) = shown.dir

\* A refreshed list shows every result as its manifest is now.
ListIsCurrent ==
    last' = "refresh" => \A row \in list' : row.version = results[row.path].version
                                            /\ row.type = results[row.path].type

\* Loading one more layer leaves the operator's window where it is.
UserWindowKept == shown.window = "user" /\ last' = "layer" /\ shown.loaded => shown'.window = "user"

-----------------------------------------------------------------------------
(***************************************************************************)
(* The orders and fills of a backtest that are drawn over a chart: read    *)
(* from the files of a result, which a run may have left in an older form. *)
(* Older results have no order lifetimes: they are rebuilt from the orders, *)
(* the commands that replaced or cancelled them, and the fills.            *)
(***************************************************************************)

CONSTANTS Ids, MaxT,
          RunEnd,           \* fallbackRunEndNs
          MaxOrders, MaxFills, MaxRows

\* status: accepted and open, accepted and over, or refused; only limit orders are drawn
News == [id : Ids, target : {0}, ts : 1..MaxT, action : {"new"}, status : {"open", "over", "refused"}]
Commands == [id : {0}, target : Ids, ts : 1..MaxT, action : {"command"}, status : {"over", "refused"}]
Fills == [order : Ids, exit : 0..MaxT]

Nothing == [segments |-> <<>>, fills |-> <<>>]

VARIABLES orders, fills, overlayFiles, out, phase
overlayVars == <<orders, fills, overlayFiles, out, phase>>

\* an older result, one of whose files is missing or cannot be parsed, and results with lifetimes
Older == [manifest |-> "rows", lifetimes |-> "absent", fills |-> "rows", orders |-> "rows", strategy |-> "absent"]
FileSets == {Older} \cup {[Older EXCEPT ![x] = "bad"] : x \in DOMAIN Older}
            \cup {[Older EXCEPT !.fills = "absent"], [Older EXCEPT !.lifetimes = "rows", !.orders = "bad"]}
NoFiles == [manifest |-> "absent", lifetimes |-> "absent", fills |-> "absent", orders |-> "absent", strategy |-> "absent"]
OverlayInit == orders = <<>> /\ fills = <<>> /\ overlayFiles = NoFiles /\ out = Nothing /\ phase = "write"

\* a run writes its rows (external); an id names one order
WriteOrder(o) ==
    /\ phase = "write" /\ Len(orders) < MaxOrders /\ fills = <<>>
    /\ o.action = "new" => ~\E i \in DOMAIN orders : orders[i].id = o.id
    /\ orders' = Append(orders, o) /\ UNCHANGED <<fills, overlayFiles, out, phase>>
WriteFill(f) ==
    /\ phase = "write" /\ Len(fills) < MaxFills /\ Len(orders) + Len(fills) < MaxRows
    /\ fills' = Append(fills, f) /\ UNCHANGED <<orders, overlayFiles, out, phase>>

(***************************************************************************)
(* materializeLegacyLifetimes                                              *)
(***************************************************************************)
Effective(o) == o.status # "refused"

\* the commands that took effect on an order, by time
CommandsOn(id) ==
    SortSeq(SelectSeq(orders, LAMBDA c : c.target = id /\ c.action = "command" /\ Effective(c)),
            LAMBDA a, b : a.ts < b.ts)

\* the earliest fill of an order, 0: none
FillOf(id) ==
    FoldLeft(LAMBDA acc, f : IF f.order # id \/ f.exit = 0 THEN acc
                             ELSE IF acc = 0 \/ f.exit < acc THEN f.exit ELSE acc, 0, fills)

\* the first command after the order became active, 0: none
NextCommand(o) ==
    LET after == SelectSeq(CommandsOn(o.id), LAMBDA c : c.ts > o.ts)
    IN IF after = <<>> THEN 0 ELSE Head(after).ts

EndOf(o) ==
    LET fill == FillOf(o.id)
        command == NextCommand(o)
        end == IF fill # 0 /\ (command = 0 \/ fill < command) THEN fill ELSE command
    IN IF end > o.ts THEN [to |-> end, openEnded |-> FALSE]
       ELSE IF fill = 0 /\ o.status = "open" /\ RunEnd > o.ts THEN [to |-> RunEnd, openEnded |-> TRUE]
       ELSE [to |-> o.ts, openEnded |-> FALSE]

Drawn(o) ==
    /\ o.action = "new" /\ Effective(o)
    /\ ~\E i \in DOMAIN CommandsOn(o.id) : CommandsOn(o.id)[i].ts = o.ts
    /\ EndOf(o).to > o.ts

Segment(o) == [id |-> o.id, from |-> o.ts, to |-> EndOf(o).to, openEnded |-> EndOf(o).openEnded]

LegacyLifetimes ==
    LET drawn == SelectSeq(orders, LAMBDA o : Drawn(o))
    IN SortSeq([i \in DOMAIN drawn |-> Segment(drawn[i])], LAMBDA a, b : a.from < b.from)

\* the fills that happened, by time
Markers == SortSeq(SelectSeq(fills, LAMBDA f : f.exit > 0), LAMBDA a, b : a.exit < b.exit)

(***************************************************************************)
(* loadStrategyOverlayFromResult                                           *)

\* the files are read in turn and the first that cannot be parsed refuses the result; the orders
\* are only looked at where there are no lifetimes
Readable(f) ==
    /\ f.manifest = "rows" /\ f.lifetimes # "bad" /\ f.fills = "rows"
    /\ f.lifetimes = "rows" \/ f.orders # "bad"
    /\ f.strategy # "bad"

\* lifetimes as they were written (external) win over rebuilt ones
Written == <<[id |-> 0, from |-> 1, to |-> 2, openEnded |-> FALSE]>>

Load(f) ==
    /\ phase = "write" /\ phase' = (IF Readable(f) THEN "shown" ELSE "refused")
    /\ overlayFiles' = f /\ UNCHANGED <<orders, fills>>
    /\ out' = IF ~Readable(f) THEN Nothing
              ELSE [segments |-> IF f.lifetimes = "rows" THEN Written
                                 ELSE IF f.orders = "rows" THEN LegacyLifetimes ELSE <<>>,
                    fills |-> Markers]

OverlayNext ==
    \/ \E o \in News \cup Commands : WriteOrder(o)
    \/ \E f \in Fills : WriteFill(f)
    \/ \E f \in FileSets : Load(f)

OverlaySpec == OverlayInit /\ [][OverlayNext]_overlayVars

(***************************************************************************)
(* Properties.                                                             *)
(***************************************************************************)
Rebuilt == phase = "shown" /\ overlayFiles.lifetimes = "absent" /\ overlayFiles.orders = "rows"
EndsOf(o) == {orders[i].ts : i \in {k \in DOMAIN orders : orders[k].target = o.id /\ Effective(orders[k]) /\ orders[k].ts > o.ts}}
             \cup {fills[i].exit : i \in {k \in DOMAIN fills : fills[k].order = o.id /\ fills[k].exit > 0}}

\* Every order that is drawn is drawn from when it became active until the first of what ended it,
\* a command or a fill, and to the end of the run only if nothing ended it and it is still open.
SegmentIsLifetime ==
    Rebuilt => \A k \in DOMAIN out.segments :
        LET s == out.segments[k]
        IN \E i \in DOMAIN orders :
            /\ orders[i].id = s.id /\ orders[i].action = "new" /\ s.from = orders[i].ts /\ s.from < s.to
            /\ IF s.openEnded THEN EndsOf(orders[i]) = {} /\ orders[i].status = "open" /\ s.to = RunEnd
               ELSE s.to = Min(EndsOf(orders[i]))

\* No order that lived for a time is left out: one that was accepted, was not replaced or cancelled
\* at the instant it became active, and ended later or is still open, has a segment.
LivedIsDrawn ==
    Rebuilt => \A i \in DOMAIN orders :
        LET o == orders[i]
            ends == EndsOf(o)
        IN /\ o.action = "new" /\ Effective(o)
           /\ ~\E k \in DOMAIN orders : orders[k].target = o.id /\ Effective(orders[k]) /\ orders[k].ts = o.ts
           /\ IF ends = {} THEN o.status = "open" /\ RunEnd > o.ts ELSE Min(ends) > o.ts
           => \E k \in DOMAIN out.segments : out.segments[k].id = o.id

\* A result is drawn whole or not at all: if one of the files it is drawn from cannot be parsed,
\* neither its orders nor its fills are shown.
WholeOrNothing ==
    /\ phase = "refused" => out = Nothing
    /\ phase = "shown" => /\ overlayFiles.fills = "rows" /\ "bad" \notin {overlayFiles.lifetimes, overlayFiles.strategy, overlayFiles.manifest}
                          /\ overlayFiles.orders = "bad" => overlayFiles.lifetimes = "rows"

=============================================================================
