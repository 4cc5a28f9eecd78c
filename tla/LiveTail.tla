------------------------------ MODULE LiveTail ------------------------------
(***************************************************************************)
(* The live chart of a session that is still being written: the recorder's *)
(* JSONL sink appends rows, JsonTailLiveDataProvider follows the files by  *)
(* offset, and ChartController shows what was loaded when the source was   *)
(* chosen (replay), what the tail brought since (overlay) and the window   *)
(* of the tail's history a repaint asked for (stable).                     *)
(*                                                                         *)
(* A row is three units of its file, two halves of the line and the line   *)
(* end, so that a flush, a bounded read and a start may fall inside a line *)
(* or just before its end.  Rows of a channel are numbered as written and  *)
(* the number is the row's time.  A shown row is <<i, j>>, the lines it was *)
(* read from: i = j for trades and tickers, tape line and sidecar line for *)
(* depth.                                                                  *)
(***************************************************************************)
EXTENDS Integers, Sequences, FiniteSets, SequencesExt

CONSTANTS
    TradeRows, TickerRows, DepthRows,  \* rows the recorder will write
    MaxRead,       \* kMaxTailReadBytes, in units
    HistoryCap,    \* kMax...HistoryRows
    MaxFaults,     \* reads that fail
    MaxChoices     \* sources chosen or left

Files == {"trades", "ticker", "tape", "side"}
Channels == {"trades", "ticker", "depth"}
RowsOf(c) == CASE c = "trades" -> TradeRows [] c = "ticker" -> TickerRows [] OTHER -> DepthRows
Written(f) == 3 * RowsOf(IF f \in {"tape", "side"} THEN "depth" ELSE f)

VARIABLES
    size,      \* file -> units a reader sees
    tail,      \* file -> [offset, pend, ready]: TailFile
    started,   \* the provider has a session directory
    replay,    \* channel -> rows SessionReplay loaded
    history,   \* channel -> rows the provider keeps
    overlay,   \* channel -> liveOverlayState_
    stable,    \* channel -> liveDataCache_.stableRows
    window,    \* the last window painted; <<0, 0>>: none
    current,   \* liveWindowVersion_ is the cache's version
    pc,        \* where the interface thread is inside a handler
    batch,     \* channel -> rows of the poll in progress
    missed,    \* channel -> rows a start or a failed poll passed over
    again,     \* channel -> rows of a poll that also reloaded the session
    faults, choices

vars == <<size, tail, started, replay, history, overlay, stable, window, current,
          pc, batch, missed, again, faults, choices>>

NoRows == [c \in Channels |-> <<>>]
NoneOf == [c \in Channels |-> {}]
Ids(rows) == {rows[k][1] : k \in DOMAIN rows}

Init ==
    /\ size = [f \in Files |-> 0]
    /\ tail = [f \in Files |-> [offset |-> 0, pend |-> 0, ready |-> <<>>]]
    /\ started = FALSE
    /\ replay = NoneOf
    /\ history = NoRows /\ overlay = NoRows /\ stable = NoRows
    /\ window = <<0, 0>> /\ current = FALSE
    /\ pc = "idle" /\ batch = NoRows
    /\ missed = NoneOf /\ again = NoneOf
    /\ faults = 0 /\ choices = 0

-----------------------------------------------------------------------------
(* The recorder.  Each file has a stream of its own, whose buffer reaches  *)
(* the file at any boundary.                                               *)
writeLine(f) ==
    /\ size[f] < Written(f)
    /\ \E n \in {1, 2, 3} : size[f] + n <= Written(f) /\ size' = [size EXCEPT ![f] = @ + n]
    /\ UNCHANGED <<tail, started, replay, history, overlay, stable, window, current,
                   pc, batch, missed, again, faults, choices>>

-----------------------------------------------------------------------------
(* The tail of one file                                                    *)

(* The lines ended by the units from+1..to of a file: a line read from its *)
(* first unit is whole, one whose first half came before `from` is torn,   *)
(* and one of which only the line end is read is empty.                    *)
Lines(from, to) ==
    [i \in 1 .. (to \div 3) - (from \div 3) |->
        LET r == (from \div 3) + i
        IN [row |-> r, kind |-> IF 3 * (r - 1) >= from THEN "whole"
                                ELSE IF 3 * r - 1 = from THEN "empty" ELSE "torn"]]

FullLines(from, to) == SelectSeq(Lines(from, to), LAMBDA l : l.kind # "empty")

ReadTo(t, sz) == IF sz - t.offset > MaxRead THEN t.offset + MaxRead ELSE sz

Consumed(t, sz) ==
    LET from == t.offset - t.pend
        to == ReadTo(t, sz)
        start == IF 3 * (to \div 3) > from THEN 3 * (to \div 3) ELSE from
    IN [t EXCEPT !.offset = to, !.pend = to - start]

(* tailRows: whole lines become rows up to the first that does not parse,  *)
(* and then nothing of the file counts as read.                            *)
tailRows(t, sz) ==
    LET lines == FullLines(t.offset - t.pend, ReadTo(t, sz))
        torn == \E k \in DOMAIN lines : lines[k].kind = "torn"
        good == SelectSeq(lines, LAMBDA l : l.kind = "whole")
    IN [tail |-> IF torn THEN t ELSE Consumed(t, sz),
        reload |-> torn,
        \* only the first line after a start can be torn
        rows |-> IF torn THEN <<>> ELSE [k \in DOMAIN good |-> <<good[k].row, good[k].row>>]]

collectTailLines(t, sz) ==
    [Consumed(t, sz) EXCEPT !.ready = t.ready \o FullLines(t.offset - t.pend, ReadTo(t, sz))]

PairParses(a, b) == a.kind = "whole" /\ b.kind = "whole" /\ a.row = b.row

Paired(tape, side) ==
    LET n == IF Len(tape.ready) < Len(side.ready) THEN Len(tape.ready) ELSE Len(side.ready)
        bad == {k \in 1 .. n : ~PairParses(tape.ready[k], side.ready[k])}
        upto == IF bad = {} THEN n ELSE (CHOOSE k \in bad : \A j \in bad : k <= j) - 1
        Rest(t) == IF bad = {} THEN [t EXCEPT !.ready = SubSeq(@, n + 1, Len(@))] ELSE t
    IN [tape |-> Rest(tape), side |-> Rest(side), reload |-> bad # {},
        rows |-> [k \in 1 .. upto |-> <<tape.ready[k].row, side.ready[k].row>>]]

keepRecentRows(rows) ==
    IF Len(rows) <= HistoryCap THEN rows
    ELSE SubSeq(rows, Len(rows) - HistoryCap + 1, Len(rows))

-----------------------------------------------------------------------------
(* JsonTailLiveDataProvider::pollHot and the head of pollLiveData_.  `bad` *)
(* is the file that cannot be opened this time.  Channels are read in      *)
(* order and the first that fails ends the poll; only the depth files'     *)
(* failure comes after the history was extended.  A poll that fails        *)
(* without asking for a reload shows nothing of what it read.              *)
HasNew(f) == size[f] > tail[f].offset

Outcome(bad, tr, tk, tape, dp) ==
    LET Out(tl, b, reload, failed, kept) ==
            [tail |-> tl, batch |-> b, reload |-> reload, failed |-> failed, kept |-> kept]
        t1 == [tail EXCEPT !["trades"] = tr.tail]
        t2 == [t1 EXCEPT !["ticker"] = tk.tail]
        b1 == [NoRows EXCEPT !["trades"] = tr.rows]
        b2 == [b1 EXCEPT !["ticker"] = tk.rows]
    IN CASE bad = "trades" -> Out(tail, NoRows, FALSE, TRUE, FALSE)
         [] bad # "trades" /\ tr.reload -> Out(t1, b1, TRUE, TRUE, FALSE)
         [] bad = "ticker" /\ ~tr.reload -> Out(t1, b1, FALSE, TRUE, FALSE)
         [] bad \notin {"trades", "ticker"} /\ ~tr.reload /\ tk.reload ->
                Out(t2, b2, TRUE, TRUE, FALSE)
         [] bad = "tape" /\ ~tr.reload /\ ~tk.reload -> Out(t2, b2, FALSE, TRUE, TRUE)
         [] bad = "side" /\ ~tr.reload /\ ~tk.reload ->
                Out([t2 EXCEPT !["tape"] = tape], b2, FALSE, TRUE, TRUE)
         [] OTHER -> Out([t2 EXCEPT !["tape"] = dp.tape, !["side"] = dp.side],
                         [b2 EXCEPT !["depth"] = dp.rows], dp.reload, dp.reload, TRUE)

appendOverlayBatch_(b) == [c \in Channels |-> overlay[c] \o b[c]]

Applied(o) ==
    LET show == ~o.failed /\ \E c \in Channels : o.batch[c] # <<>>
    IN /\ tail' = o.tail
       /\ history' = IF o.kept THEN [c \in Channels |->
                                        keepRecentRows(history[c] \o keepRecentRows(o.batch[c]))]
                     ELSE history
       /\ overlay' = IF show THEN appendOverlayBatch_(o.batch) ELSE overlay
       /\ current' = (current /\ ~show)
       /\ pc' = IF o.reload THEN "reload" ELSE "idle"
       /\ batch' = IF o.reload THEN o.batch ELSE NoRows
       /\ missed' = IF o.failed
                    THEN [c \in Channels |-> missed[c] \union Ids(o.batch[c])]
                    ELSE missed

pollHot(bad) ==
    \E tr \in {tailRows(tail["trades"], size["trades"])},
       tk \in {tailRows(tail["ticker"], size["ticker"])},
       tape \in {collectTailLines(tail["tape"], size["tape"])},
       side \in {collectTailLines(tail["side"], size["side"])} :
        \E dp \in {Paired(tape, side)} :
            \E o \in {Outcome(bad, tr, tk, tape, dp)} : Applied(o)

Poll ==
    /\ pc = "idle" /\ started
    /\ \/ pollHot("none") /\ UNCHANGED faults
       \/ \E f \in Files : /\ faults < MaxFaults /\ HasNew(f)
                           /\ pollHot(f) /\ faults' = faults + 1
    /\ UNCHANGED <<size, started, replay, stable, window, again, choices>>

-----------------------------------------------------------------------------
(* SessionReplay::open on what the files hold now: an unfinished line is   *)
(* loaded if it only lacks its line end, and otherwise fails the load, as  *)
(* does a tape with more or fewer lines than the sidecar.                  *)
LinesLoaded(f) == (size[f] + 1) \div 3
Loads ==
    /\ \A f \in Files : size[f] % 3 # 1
    /\ LinesLoaded("tape") = LinesLoaded("side")

open ==
    replay' = IF Loads THEN [c \in Channels |-> 1 .. LinesLoaded(IF c = "depth" THEN "tape" ELSE c)]
              ELSE NoneOf

(* A reload a poll asked for.  If it fails the chart keeps the overlay,    *)
(* but the poll is lost and so are the rows loaded before, until a later   *)

Reopen ==
    /\ pc = "reload"
    /\ open
    /\ pc' = IF Loads THEN "restart" ELSE "idle"
    /\ batch' = IF Loads THEN batch ELSE NoRows
    /\ missed' = IF Loads THEN missed ELSE [c \in Channels |-> missed[c] \union replay[c]]
    /\ UNCHANGED <<size, tail, started, history, overlay, stable, window, current,
                   again, faults, choices>>

syncTailOffset_(f) == [offset |-> size[f], pend |-> 0, ready |-> <<>>]

(* JsonTailLiveDataProvider::start: every file followed from its end.  A   *)
(* row begun before that end is only shown if it was loaded.               *)
start ==
    /\ tail' = [f \in Files |-> syncTailOffset_(f)]
    /\ started' = TRUE
    /\ history' = NoRows
    /\ missed' = [c \in Channels |->
                     {r \in 1 .. RowsOf(c) : r \notin replay[c] /\
                        \E f \in (IF c = "depth" THEN {"tape", "side"} ELSE {c}) :
                            3 * (r - 1) < size[f]}]

stop ==
    /\ tail' = [f \in Files |-> [offset |-> 0, pend |-> 0, ready |-> <<>>]]
    /\ started' = FALSE
    /\ history' = NoRows

(* The caches emptied; `rows` is what is appended to the overlay next.     *)
clearLiveDataCache_(rows) ==
    overlay' = rows /\ stable' = NoRows /\ window' = <<0, 0>> /\ current' = FALSE

startLiveData_ == clearLiveDataCache_(batch) /\ start

(* After a reload the rows the poll had read before it failed are still    *)
(* appended to the overlay, although the reload loaded them.               *)
Restart ==
    /\ pc = "restart"
    /\ startLiveData_
    /\ again' = [c \in Channels |-> Ids(batch[c])]
    /\ pc' = "idle" /\ batch' = NoRows
    /\ UNCHANGED <<size, replay, faults, choices>>

(* activateLiveSource: a load whose failure is ignored, and a start.       *)
activateLiveSource ==
    /\ pc = "idle" /\ ~started /\ choices < MaxChoices
    /\ open
    /\ pc' = "activate" /\ choices' = choices + 1
    /\ UNCHANGED <<size, tail, started, history, overlay, stable, window, current,
                   batch, missed, again, faults>>

Activated ==
    /\ pc = "activate"
    /\ startLiveData_
    /\ again' = NoneOf
    /\ pc' = "idle"
    /\ UNCHANGED <<size, replay, batch, faults, choices>>

resetSession ==
    /\ pc = "idle" /\ started /\ choices < MaxChoices
    /\ choices' = choices + 1
    /\ stop
    /\ clearLiveDataCache_(NoRows)
    /\ replay' = NoneOf
    /\ missed' = NoneOf /\ again' = NoneOf
    /\ UNCHANGED <<size, pc, batch, faults>>

-----------------------------------------------------------------------------
(* refreshLiveDataWindow: a repaint of the times lo..hi takes the window   *)
(* out of the history and leaves in the overlay what the window lacks.     *)

materializeRange(c, lo, hi) ==
    SelectSeq(history[c], LAMBDA row : row[1] <= hi /\ (c = "depth" \/ row[1] >= lo))

reconcileOverlay(rows, taken) == SelectSeq(rows, LAMBDA row : row[1] \notin Ids(taken))

refreshLiveDataWindow(lo, hi) ==
    /\ pc = "idle" /\ started /\ ~(current /\ window = <<lo, hi>>)
    /\ stable' = [c \in Channels |-> materializeRange(c, lo, hi)]
    /\ overlay' = [c \in Channels |-> reconcileOverlay(overlay[c], stable'[c])]
    /\ window' = <<lo, hi>> /\ current' = TRUE
    /\ UNCHANGED <<size, tail, started, replay, history, pc, batch, missed, again, faults, choices>>

Times == 1 .. (IF TradeRows > DepthRows THEN TradeRows ELSE DepthRows)

Next ==
    \/ \E f \in Files : writeLine(f)
    \/ Poll \/ Reopen \/ Restart
    \/ activateLiveSource \/ Activated \/ resetSession
    \/ \E lo, hi \in Times : lo <= hi /\ refreshLiveDataWindow(lo, hi)

(* The timer polls again and again, handlers return, the recorder flushes. *)
Fairness ==
    /\ WF_vars(Poll \/ Reopen \/ Restart \/ Activated)
    /\ WF_vars(\E f \in Files : writeLine(f))

Spec == Init /\ [][Next]_vars /\ Fairness

-----------------------------------------------------------------------------

Quiet == pc = "idle" /\ started

(* Every line read past is on the chart, in the history a repaint draws    *)
(* from, or among the rows a start or a failed poll is known to pass over: *)
(* no cut of a line by a flush, a bounded read or a start loses a row in   *)
(* silence.                                                                *)
EveryLineAccounted ==
    Quiet => \A c \in Channels \ {"depth"} : \A r \in 1 .. (tail[c].offset \div 3) :
        r \in replay[c] \union Ids(history[c]) \union Ids(overlay[c]) \union missed[c]

(* The same for depth, whose rows come out of two files: a row both of     *)
(* whose lines were read past and are no longer held back is accounted for. *)
EveryPairAccounted ==
    Quiet => \A r \in 1 .. DepthRows :
        \/ \E f \in {"tape", "side"} :
              \/ r > tail[f].offset \div 3
              \/ \E k \in DOMAIN tail[f].ready : tail[f].ready[k].row = r
        \/ r \in replay["depth"] \union Ids(history["depth"])
                 \union Ids(overlay["depth"]) \union missed["depth"]

(* A depth row is never put together from the tape line of one event and   *)
(* the sidecar line of another, however far apart the two files were when  *)
(* the tail started.                                                       *)
NeverMispaired ==
    \A c \in Channels : \A k \in DOMAIN history[c] : history[c][k][1] = history[c][k][2]

(* A trade or a ticker is on the chart once: not in the repainted window   *)
(* and in the overlay, and not loaded and in the overlay unless the poll   *)
(* that read it also made the chart reload the session.                    *)
ShownOnce ==
    Quiet => \A c \in {"trades", "ticker"} :
        LET drawn == stable[c] \o overlay[c] IN
        /\ Cardinality(Ids(drawn)) = Len(drawn)
        /\ Ids(drawn) \intersect replay[c] \subseteq again[c]

(* A repaint never makes a row of its window disappear: what the tail      *)
(* brought for the window is drawn, whichever windows were painted before, *)
(* unless the poll that read it failed on a later file.                    *)
WindowDrawn ==
    Quiet /\ current => \A c \in {"trades", "ticker"} : \A r \in Ids(history[c]) :
        r \in window[1] .. window[2] => r \in Ids(stable[c]) \union Ids(overlay[c])
                                              \union missed[c]

(* Once the recorder has written everything the tail reaches the end of    *)
(* every file and stops reloading: no torn line, and no tape ahead of its  *)
(* sidecar, keeps the chart in a loop of failed reloads.                   *)
CaughtUp == started => pc = "idle" /\ \A f \in Files : tail[f].offset = Written(f)
CatchesUp == <>[]CaughtUp
=============================================================================
