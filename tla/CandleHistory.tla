---- MODULE CandleHistory ----
(***************************************************************************)
(* The cold history requests of one JSON session (tiered candles, detailed *)
(* candles in one fetch, detailed candles in bulk, trades), the finalization *)
(* of that session and the loader that opens it afterwards.                *)
(*                                                                         *)
(* A bulk request is followed page by page, because it keeps a progress    *)
(* file on disk that must survive a crash of the process; the other        *)
(* requests, which leave nothing behind but their rows, are single steps.  *)
(* Rows are counted, not told apart.                                       *)
(***************************************************************************)
EXTENDS Naturals, FiniteSets, FiniteSetsExt, Sequences, SequencesExt

CONSTANTS
    Timeframes,     \* timeframes of detailed candles
    Tiered,         \* those that also have a compatibility candle tier
    Limit,          \* rows a bulk request asks for
    MaxRows,        \* bound: rows of one request or page
    MaxPages,       \* bound: pages of one bulk request
    MaxRequests     \* bound: requests of one session

VARIABLES
    files,      \* rows of each file, as a reader of the directory would find them
    count,      \* candlesCount_, candles2Count_, tradesCount_
    manifest,   \* manifest_: channels enabled, the path each names, arrivals, status
    call,       \* the bulk request in progress
    state,      \* reports/candles2_bulk_state.json
    calls,      \* the requests made, in order
    faulty      \* some write of the session failed, or the process died

vars == <<files, count, manifest, call, state, calls, faulty>>

Kinds == {"trades", "candles", "candles2"}
Default == "all"        \* the file of a kind that carries no timeframe
Paths == Kinds \X (Timeframes \cup {Default})

Idle == [at |-> "idle"]
NoState == [status |-> "none", tf |-> Default, rows |-> 0]
TornState == [NoState EXCEPT !.status = "torn"]
State(status, c) == [status |-> status, tf |-> c.tf, rows |-> c.rows]

Init ==
    /\ files = [p \in Paths |-> 0]
    /\ count = [k \in Kinds |-> 0]
    /\ manifest = [status |-> "recording", enabled |-> {}, path |-> [k \in Kinds |-> Default],
                   historical |-> 0, unavailable |-> 0]
    /\ call = Idle /\ state = NoState
    /\ calls = <<>> /\ faulty = FALSE

Recording == manifest.status = "recording"
CanRequest == Recording /\ call.at = "idle" /\ Len(calls) < MaxRequests

(***************************************************************************)
(* Requests that fetch first and then append, each row flushed, noted as a *)
(* historical arrival and counted. A failed write ends the request, and may  *)
(* have left the row in the file.                                          *)
(***************************************************************************)
\* The files a request with timeframe tf writes, by kind.
DetailedPaths(tf) == {<<"candles2", tf>>} \cup {<<"candles", t>> : t \in {tf} \cap Tiered}

Appended(paths, rows, spilled) ==
    /\ files' = [p \in Paths |-> IF p \in paths THEN files[p] + rows + spilled ELSE files[p]]
    /\ count' = [k \in Kinds |-> IF \E p \in paths : p[1] = k THEN count[k] + rows ELSE count[k]]

\* The manifest comes to name the files of the request.
Named(paths, m) ==
    [m EXCEPT !.enabled = @ \cup {p[1] : p \in paths},
              !.path = [k \in Kinds |-> IF \E p \in paths : p[1] = k
                                        THEN (CHOOSE p \in paths : p[1] = k)[2] ELSE @[k]]]

Noted(rows, m) == [m EXCEPT !.historical = @ + rows]

Request(name, paths) ==
    /\ CanRequest
    /\ calls' = Append(calls, name)
    /\ UNCHANGED <<call, state>>
    /\ \/ \E rows \in 1..MaxRows :
            /\ Appended(paths, rows, 0)
            /\ manifest' = Named(paths, Noted(rows * Cardinality(paths), manifest))
            /\ UNCHANGED faulty
       \/ \E rows \in 0..MaxRows, spilled \in 0..1 :
            /\ Appended(paths, rows, spilled)
            /\ manifest' = Noted(rows * Cardinality(paths), manifest)
            /\ faulty' = TRUE
       \/ UNCHANGED <<files, count, manifest, faulty>>     \* nothing fetched

\* captureCandlesOnce, which does nothing once there are candles
CandlesOnce == count["candles"] = 0 /\ Request("candles", {<<"candles", Default>>})

\* captureDetailedCandlesOnce
DetailedOnce(tf) == Request("once", DetailedPaths(tf))

\* captureTradesHistoryOnce: the channel is enabled before the rows are written, and
\* also when there are none.
TradesHistory ==
    /\ CanRequest
    /\ calls' = Append(calls, "trades")
    /\ \E rows \in 0..MaxRows, spilled \in 0..1 :
        /\ Appended({<<"trades", Default>>}, rows, spilled)
        /\ manifest' = Named({<<"trades", Default>>}, Noted(rows, manifest))
        /\ faulty' = (faulty \/ spilled = 1)
    /\ UNCHANGED <<call, state>>

(***************************************************************************)
(* captureDetailedCandlesBulk.                                             *)
(***************************************************************************)
\* writeCandles2BulkStateFile truncates and then writes: it may fail before, between
\* or not at all.
WriteState(s) == state' = s
WriteStateFails == state' \in {state, TornState}

\* The files are opened anew, which empties them.
BulkOpen(tf) ==
    /\ CanRequest
    /\ calls' = Append(calls, "bulk")
    /\ \E opened \in {DetailedPaths(tf)} \cup {{}, {<<"candles2", tf>>}} :
        /\ files' = [p \in Paths |-> IF p \in opened THEN 0 ELSE files[p]]
        /\ call' = IF opened = DetailedPaths(tf)
                   THEN [at |-> "opened", tf |-> tf, rows |-> 0, raw |-> 0, pages |-> 0, buffered |-> 0]
                   ELSE Idle
        /\ faulty' = (faulty \/ opened # DetailedPaths(tf))
    /\ UNCHANGED <<count, manifest, state>>

BulkInitialState ==
    /\ call.at = "opened"
    /\ \/ /\ WriteState(State("running", call))
          /\ call' = [call EXCEPT !.at = "fetching"]
          /\ UNCHANGED faulty
       \/ WriteStateFails /\ call' = Idle /\ faulty' = TRUE
    /\ UNCHANGED <<files, count, manifest, calls>>

\* The rows of a page are written to the streams and counted. The row at which a write
\* fails may have been counted in one kind and not in the other.
BulkRows(raw, valid) ==
    /\ call.at = "fetching" /\ call.pages < MaxPages
    /\ \/ /\ call' = [call EXCEPT !.at = "page", !.rows = @ + valid, !.raw = @ + raw,
                                  !.buffered = valid]
          /\ count' = [k \in Kinds |-> IF \E p \in DetailedPaths(call.tf) : p[1] = k
                                       THEN count[k] + valid ELSE count[k]]
          /\ UNCHANGED faulty
       \/ \E rows \in 0..valid, short \in BOOLEAN :
          /\ valid > 0 /\ (short => rows > 0)
          /\ call' = [call EXCEPT !.at = "failed", !.rows = @ + rows, !.buffered = rows]
          /\ count' = [k \in Kinds |->
                IF \E p \in DetailedPaths(call.tf) : p[1] = k
                THEN count[k] + rows - (IF short /\ k = "candles" THEN 1 ELSE 0) ELSE count[k]]
          /\ faulty' = TRUE
    /\ UNCHANGED <<files, manifest, state, calls>>

Flushed(rows) ==
    [p \in Paths |-> IF p \in DetailedPaths(call.tf) THEN files[p] + rows ELSE files[p]]

\* The streams are flushed, and only then does the progress file tell of their rows.
FlushThenState ==
    \/ /\ files' = Flushed(call.buffered)
       /\ \/ /\ WriteState(State("running", call))
             /\ call' = [call EXCEPT !.at = "fetching", !.pages = @ + 1, !.buffered = 0]
             /\ UNCHANGED faulty
          \/ /\ WriteStateFails
             /\ call' = [call EXCEPT !.at = "failed", !.buffered = 0]
             /\ faulty' = TRUE
    \/ /\ call.buffered > 0
       /\ files' \in {Flushed(n) : n \in 0..call.buffered}
       /\ call' = [call EXCEPT !.at = "failed", !.buffered = 0]
       /\ faulty' = TRUE /\ UNCHANGED state

BulkPageDone ==
    /\ call.at = "page" /\ FlushThenState
    /\ UNCHANGED <<count, manifest, calls>>

\* A write of the request failed: the progress file says so if it still can.
BulkFailed ==
    /\ call.at = "failed"
    /\ WriteState(State("failed", call)) \/ WriteStateFails
    /\ files' \in {Flushed(n) : n \in 0..call.buffered}
    /\ call' = Idle
    /\ UNCHANGED <<count, manifest, calls, faulty>>

\* stopped: the stream of pages ended with a failure
FinalStatus(stopped) ==
    IF call.rows >= Limit THEN "complete"
    ELSE IF call.raw >= Limit THEN "complete_filtered"
    ELSE IF stopped THEN "partial" ELSE "exhausted"

\* The manifest names the files and accounts for the rows as historical ones.
BulkNoted(m) == Noted(call.rows * Cardinality(DetailedPaths(call.tf)), m)

\* The stream ended. persisted: the credentials it refreshed could be saved, without
\* which, as with a stream that failed before its first row, the request has failed.
BulkEnds(stopped, persisted) ==
    /\ call.at = "fetching"
    /\ LET failed == ~persisted \/ (stopped /\ call.rows = 0)
       IN /\ \/ WriteState(State(IF failed THEN "failed" ELSE FinalStatus(stopped), call))
             \/ WriteStateFails
          /\ manifest' = IF failed \/ call.rows = 0 THEN manifest
                         ELSE Named(DetailedPaths(call.tf), BulkNoted(manifest))
    /\ call' = Idle
    /\ UNCHANGED <<files, count, calls, faulty>>

(***************************************************************************)
(* The end of the session: finalized, or cut short with what the streams   *)
(* had already passed on.                                                  *)
(***************************************************************************)
Declared == MapThenSumSet(LAMBDA k : count[k], Kinds)

\* Rows without a noted arrival become unavailable ones; without one captured row the
\* session is at best a degraded one.
Closed(m) ==
    [m EXCEPT !.status = IF Declared = 0 THEN "failed_empty" ELSE "complete_degraded",
              !.unavailable = @ + (IF m.historical + @ < Declared
                                   THEN Declared - (m.historical + @) ELSE 0)]

Finalize ==
    /\ Recording /\ call.at = "idle"
    /\ manifest' = Closed(manifest)
    /\ UNCHANGED <<files, count, call, state, calls, faulty>>

Crash ==
    /\ Recording
    /\ IF call.at \in {"page", "failed"}
       THEN files' \in {Flushed(n) : n \in 0..call.buffered}
       ELSE UNCHANGED files
    /\ manifest' = [manifest EXCEPT !.status = "lost"]
    /\ call' = Idle /\ faulty' = TRUE
    /\ UNCHANGED <<count, state, calls>>

Next ==
    \/ CandlesOnce \/ TradesHistory
    \/ \E tf \in Timeframes : DetailedOnce(tf) \/ BulkOpen(tf)
    \/ BulkInitialState
    \/ \E raw \in 0..MaxRows : \E valid \in 0..raw : BulkRows(raw, valid)
    \/ BulkPageDone \/ BulkFailed
    \/ \E stopped, persisted \in BOOLEAN : BulkEnds(stopped, persisted)
    \/ Finalize \/ Crash

Spec == Init /\ [][Next]_vars

(***************************************************************************)
(* CorpusLoader: what it requires of a finalized session's manifest.       *)
(***************************************************************************)
Finalized == manifest.status \in {"complete", "complete_degraded"}

Accounted == manifest.historical + manifest.unavailable

\* loadDetailed
Loads ==
    /\ Accounted = Declared
    /\ \A k \in manifest.enabled : count[k] = files[<<k, manifest.path[k]>>]

(***************************************************************************)
(* Properties.                                                             *)
(***************************************************************************)

Bulks == Cardinality({i \in DOMAIN calls : calls[i] = "bulk"})

\* The progress file of the only bulk request of a session never tells of a row the
\* candle files do not hold, wherever the process dies and whichever write fails, unless
\* it says the request failed; and it says complete only with all the rows asked for.
StateNeverAhead ==
    (Bulks <= 1 /\ state.status \notin {"none", "torn", "failed"})
        => /\ \A p \in DetailedPaths(state.tf) : files[p] >= state.rows
           /\ state.status = "complete" => state.rows >= Limit

\* The arrival summary of a finalized session accounts for every row it declares, once,
\* whatever requests failed and at whichever row.
ArrivalAccountsForAll == Finalized => Accounted = Declared

\* A session with one request, no write of which failed, is one the loader accepts.
LoneRequestLoads == (Finalized /\ ~faulty /\ Len(calls) = 1) => Loads

====
