---- MODULE CapturePage ----
(***************************************************************************)
(* Two machines: the capture page over its session (Init, Next), and the   *)
(* settings it keeps over a restart (PageInit, PageNext).                  *)
(*                                                                         *)
(* The capture page of the desktop application (CaptureViewModel): the     *)
(* channel buttons, the venue selection and the storage settings on the GUI *)
(* thread, over one RecorderCaptureSession whose worker connects, applies  *)
(* selection changes and ends on its own.  What the page shows is what its *)
(* last refresh saw.                                                       *)
(*                                                                         *)
(* The rendering of a selection (RecorderCaptureSelection.cpp) is its      *)
(* venues, and the snapshot bindings when depth is selected: it names no   *)
(* other channel.                                                          *)
(***************************************************************************)
EXTENDS Naturals, FiniteSets

CONSTANTS
    Venues,       \* venues of the page
    Routed,       \* those the Parser template has a route for
    WithSnapshot, \* those whose template section names a snapshot binding
    Masks,        \* choices of the channel boxes the run tries
    MaxActs       \* bound: handlers called

Supported == {"bookticker", "trade", "depth"}
Channels == Supported \cup {"mark"}

VARIABLES
    ui,      \* the settings, the desired channels, the verdict of the last handler
    ses,     \* the session's state under its mutex; id 0: none was started
    shown,   \* the last* members and activeLiveSources_
    coords,  \* venues with a history coordinator
    acts

vars == <<ui, ses, shown, coords, acts>>

NoSession == [id |-> 0, active |-> FALSE, stop |-> FALSE, retained |-> FALSE, connected |-> FALSE,
              sourced |-> FALSE, storage |-> 0, venues |-> {}, channels |-> {}, requested |-> 0,
              working |-> 0, handled |-> 0, target |-> {}, applied |-> 0, mask |-> {}, pending |-> FALSE, bad |-> FALSE]

Init ==
    /\ \E v \in Routed : ui = [venues |-> {v}, mask |-> {"bookticker", "trade"}, desired |-> {}, storage |-> 0,
                               verdict |-> "none"]
    /\ ses = NoSession
    /\ shown = [open |-> FALSE, running |-> {}, live |-> 0, pending |-> FALSE, applied |-> 0,
                sourced |-> FALSE]
    /\ coords = {} /\ acts = 0

(***************************************************************************)
(* The session as its callers see it.                                      *)
(***************************************************************************)
Rendering(venues, channels) ==
    [venues |-> venues, snapshots |-> IF "depth" \in channels THEN venues \cap WithSnapshot ELSE {}]

Renders(venues, channels) == venues \subseteq Routed /\ venues # {} /\ channels \subseteq Supported

\* makeParserCaptureConfig_: no desired channel means the page's channel boxes.
Config(u) ==
    [venues |-> u.venues, storage |-> u.storage,
     channels |-> IF u.desired = {} THEN u.mask ELSE u.desired]

\* updateSelection: the answer, and the session after it.
UpdateAnswer(s, c) ==
    CASE c.storage # s.storage \/ ~Renders(c.venues, c.channels) -> "refused"
      [] Rendering(c.venues, c.channels) = Rendering(s.venues, s.channels) ->
            IF ~s.pending /\ s.bad THEN "refused" ELSE "same"
      [] OTHER -> IF s.stop THEN "refused" ELSE "requested"

Updated(s, c) ==
    IF UpdateAnswer(s, c) = "requested"
    THEN [s EXCEPT !.venues = c.venues, !.channels = c.channels, !.requested = @ + 1, !.pending = TRUE]
    ELSE s

\* start, when no session is active: refused while a Parser is retained.
Started(s, c) ==
    IF s.retained \/ ~Renders(c.venues, c.channels) THEN s
    ELSE [NoSession EXCEPT !.id = s.id + 1, !.active = TRUE, !.storage = c.storage,
            !.venues = c.venues, !.channels = c.channels, !.mask = c.channels]

\* requestStop: a session that is over is joined and its Parser stopped here.
StopRequested(s) == [s EXCEPT !.stop = s.id > 0, !.retained = @ /\ s.active]

\* stop: waits for the worker, which sees the flag and leaves no Parser.
Stopped(s) == [StopRequested(s) EXCEPT !.active = FALSE, !.connected = FALSE, !.retained = FALSE]

(***************************************************************************)
(* refreshState.                                                           *)
(***************************************************************************)
Running(s) == IF s.active THEN s.mask \cap Supported ELSE {}

SessionOpen(s, c) == s.active \/ s.retained \/ c # {}

\* registerLiveSources_ lists the sources of the session there is.
Registered(s) == IF s.sourced THEN s.id ELSE 0

Refreshed(sh, s, c) ==
    LET channelChanged == Running(s) # sh.running
        sessionNews == /\ s.id > 0
                       /\ \/ s.sourced # sh.sourced
                          \/ s.applied # sh.applied \/ s.pending # sh.pending
                          \/ s.connected /\ sh.live = 0
    IN [open |-> SessionOpen(s, c), running |-> Running(s),
        live |-> IF channelChanged \/ sessionNews THEN Registered(s) ELSE sh.live,
        pending |-> s.pending, applied |-> s.applied, sourced |-> s.sourced]

(***************************************************************************)
(* The handlers of the page.                                               *)
(***************************************************************************)
Act == acts < MaxActs /\ acts' = acts + 1

\* reconcileCoordinatorBatch_ and the caller's tail: an active session takes the
\* selection, otherwise one is started and the sources of the last are unlisted.
Reconcile(u, then, refused) ==
    LET c == Config(u)
        next == IF ses.active THEN Updated(ses, c) ELSE Started(ses, c)
        ok == IF ses.active THEN UpdateAnswer(ses, c) # "refused" ELSE next.id # ses.id
        listed == IF ses.active THEN shown ELSE [shown EXCEPT !.live = 0]
    IN /\ ses' = next
       /\ ui' = IF ok THEN then ELSE refused
       /\ shown' = IF ok THEN Refreshed(listed, next, coords) ELSE shown

\* startTrades, startBookTicker, startOrderbook.
StartChannel(c) ==
    LET u == [ui EXCEPT !.desired = @ \cup {c}]
    IN /\ Act
       /\ Reconcile(u, [u EXCEPT !.verdict = "started"], [ui EXCEPT !.verdict = "refused"])
       /\ UNCHANGED coords

\* startAllChannels.
StartAll ==
    LET u == [ui EXCEPT !.desired = ui.mask]
    IN /\ Act
       /\ Reconcile(u, [u EXCEPT !.verdict = "started"], [ui EXCEPT !.verdict = "refused"])
       /\ UNCHANGED coords

StopAllEffect ==
    /\ ses' = StopRequested(ses)
    /\ ui' = [ui EXCEPT !.desired = {}, !.verdict = "stop"]
    /\ shown' = Refreshed(shown, ses', coords)

\* stopAllChannels.
StopAll == Act /\ StopAllEffect /\ UNCHANGED coords

\* stopTrades, stopBookTicker, stopOrderbook: the last channel stops the session.
StopChannel(c) ==
    LET u == [ui EXCEPT !.desired = @ \ {c}]
    IN /\ Act
       /\ IF u.desired = {} THEN StopAllEffect
          ELSE Reconcile(u, [u EXCEPT !.verdict = "removal"], [ui EXCEPT !.verdict = "refused"])
       /\ UNCHANGED coords

\* finalizeSession: all channels stop, the session is joined, the history
\* coordinators are closed.
Finalize ==
    /\ Act
    /\ ses' = Stopped(ses)
    /\ coords' = {}
    /\ ui' = [ui EXCEPT !.desired = {}, !.verdict = "final"]
    /\ shown' = Refreshed([Refreshed(shown, StopRequested(ses), coords) EXCEPT !.live = 0], ses', {})

\* reconcileActiveChannels_: a setting is kept whether or not it is accepted.
ReconcileActive(u) ==
    LET answer == UpdateAnswer(ses, Config(u))
    IN /\ ses' = IF ses.active THEN Updated(ses, Config(u)) ELSE ses
       /\ ui' = IF ses.active THEN [u EXCEPT !.verdict = IF answer = "refused" THEN "refused" ELSE "kept"]
                ELSE u
       /\ UNCHANGED <<shown, coords>>

\* toggleVenue: the last venue stays.
ToggleVenue(v) ==
    /\ Act
    /\ v \in ui.venues => Cardinality(ui.venues) > 1
    /\ ReconcileActive([ui EXCEPT !.venues = IF v \in @ THEN @ \ {v} ELSE @ \cup {v}])

\* setCaptureChannels.
SetCaptureChannels(s) ==
    /\ Act
    /\ s # {} /\ s # ui.mask
    /\ ReconcileActive([ui EXCEPT !.mask = s, !.desired = IF ses.active THEN s ELSE @])

\* setCaptureDurationSec, setCaptureMaximumBytes, setOutputDirectory: for the next session.
SetStorage ==
    /\ Act
    /\ ui' = [ui EXCEPT !.storage = 1 - @]
    /\ UNCHANGED <<ses, shown, coords>>

\* startTradesHistory and startCandles: one coordinator per selected venue.
History ==
    /\ Act
    /\ coords' = coords \cup ui.venues
    /\ shown' = Refreshed([shown EXCEPT !.live = Registered(ses)], ses, coords')
    /\ UNCHANGED <<ui, ses>>

\* The refresh timer.
Timer ==
    /\ shown' = Refreshed(shown, ses, coords)
    /\ UNCHANGED <<ui, ses, coords, acts>>

(***************************************************************************)
(* The worker of the session.                                              *)
(***************************************************************************)
Connect ==
    /\ ses.active /\ ~ses.connected
    /\ ses' = [ses EXCEPT !.connected = TRUE, !.sourced = TRUE]
    /\ UNCHANGED <<ui, shown, coords, acts>>

Adopt ==
    /\ ses.connected /\ ~ses.stop /\ ses.requested > ses.handled /\ ses.requested # ses.working
    /\ ses' = [ses EXCEPT !.working = ses.requested, !.target = ses.channels]
    /\ UNCHANGED <<ui, shown, coords, acts>>

\* The Parser applied the adopted revision.
Apply ==
    /\ ses.connected /\ ses.handled < ses.working
    /\ ses' = [ses EXCEPT !.applied = ses.working, !.handled = ses.working, !.mask = ses.target,
                          !.pending = ses.requested > ses.working, !.bad = FALSE]
    /\ UNCHANGED <<ui, shown, coords, acts>>

\* The Parser, or the planner, refused it.
Refuse ==
    /\ ses.connected /\ ses.handled < ses.working
    /\ ses' = [ses EXCEPT !.handled = ses.working, !.pending = FALSE, !.bad = TRUE]
    /\ UNCHANGED <<ui, shown, coords, acts>>

\* The capture ends: its duration, its quota, an error or the stop request.  The
\* Parser of a session nobody stopped stays, if it is running.
End ==
    /\ ses.active
    /\ \E alive, bad \in BOOLEAN :
        ses' = [ses EXCEPT !.active = FALSE, !.connected = FALSE, !.bad = bad,
                           !.retained = alive /\ ~ses.stop]
    /\ UNCHANGED <<ui, shown, coords, acts>>

Next ==
    \/ \E c \in Supported : StartChannel(c) \/ StopChannel(c)
    \/ StartAll \/ StopAll \/ Finalize \/ SetStorage \/ History
    \/ \E v \in Venues : ToggleVenue(v)
    \/ \E s \in Masks : SetCaptureChannels(s)
    \/ Timer
    \/ Connect \/ Adopt \/ Apply \/ Refuse \/ End

\* The timer fires every second for as long as the page exists.
Spec == Init /\ [][Next]_vars /\ WF_vars(Timer)

(***************************************************************************)
(* Properties.                                                             *)
(***************************************************************************)
Live == ses.active /\ ~ses.stop

\* While a capture runs and the page last said "accepted", the session was asked
\* for exactly the venues the page shows, and for depth exactly when the page
\* wants it and a venue has a snapshot binding (toggleVenue, startOrderbook,
\* stopOrderbook, setCaptureChannels).
AcceptedIsRequested ==
    Live /\ ui.verdict \in {"started", "removal", "kept"} =>
        /\ ses.venues = ui.venues
        /\ ui.venues \cap WithSnapshot # {} =>
              ("depth" \in Config(ui).channels <=> "depth" \in ses.channels)

\* The sources of a connected capture come to be listed (registerLiveSources_),
\* however the connection, the handlers and the refreshes interleave.
Connected == ses.connected
ListedLive == shown.live = ses.id \/ ~ses.connected
SourcesListed == Connected ~> ListedLive

\* After finalizeSession nothing is open: no session, no retained Parser, no
\* history coordinator, no channel shown as running.
FinalizedIsClosed ==
    ui.verdict = "final" /\ coords = {} =>
        /\ ~ses.active /\ ~ses.retained
        /\ ~shown.open /\ shown.running = {}

\* A capture that ended on its own stops being shown as running.
Inactive == ~ses.active
ShownEnded == shown.running = {} \/ ses.active
EndIsShown == Inactive ~> ShownEnded

-----------------------------------------------------------------------------
(***************************************************************************)
(* The settings of the capture page (CaptureViewModel): the venues and     *)
(* symbols a live capture asks for, and the two legs of a detailed-candle  *)
(* download.  Every setter writes the whole settings file; a start of the  *)
(* program reads it back over the defaults.  A symbol text is the set of   *)
(* symbols it names, the empty text the empty set; the text of a leg holds *)
(* at most one symbol.                                                     *)
(***************************************************************************)

CONSTANTS PageVenues,       \* the venues the page offers
          Finam,        \* those of them that are Finam's: the only ones with detailed candles
          Symbols,      \* what an operator types
          Crypto,       \* the symbols in the local crypto form
          Listed,       \* the symbols that contain '@'
          MaxLimit,     \* kDetailedCandlesMaxLimit
          PageMaxActs       \* bound on the number of settings changed

VARIABLES page,         \* the members of the view model
          file,         \* the settings file
          rows,         \* detailedCandlesBasisCandidateRows_: what they were built for, or {}
          pageActs

pageVars == <<page, file, rows, pageActs>>

Texts == {{}} \cup {{s} : s \in Symbols}

(***************************************************************************)
(* Symbols and configurations.                                             *)
(***************************************************************************)
VenueSymbolsFromGlobalInput(v, text) == IF v \in Finam THEN text ELSE text \cap Crypto

DefaultVenueSymbolsTexts ==
  [v \in PageVenues |-> IF v \in Finam THEN {"SBER@MISX"}
                    ELSE VenueSymbolsFromGlobalInput(v, {"BTC_USDT"})]

\* one capture per selected venue and symbol
MakeConfigs(p) == {c \in p.selected \X Symbols : c[2] \in p.venueTexts[c[1]]}

(***************************************************************************)
(* Reading the settings file.  The defaults of the members stand where the *)
(* file holds no usable value.                                             *)
(***************************************************************************)
Defaults == [selected |-> {"binance_futures", "bybit_futures"} \cap PageVenues,
             venueTexts |-> DefaultVenueSymbolsTexts,
             symbolsText |-> {"ETH_USDT"},
             mode |-> "pair", venue1 |-> "binance_futures", symbol1 |-> {"BTC_USDT"},
             venue2 |-> "binance_spot", symbol2 |-> {}, limit |-> 2]

Clamped(n) == IF n < 1 THEN 1 ELSE IF n > MaxLimit THEN MaxLimit ELSE n

OrDefault(text, default) == IF text = {} THEN default ELSE text

LoadCapture(f) ==
  [f EXCEPT !.selected = IF @ = {} THEN Defaults.selected ELSE @,
            !.symbolsText = OrDefault(@, Defaults.symbolsText)]

ChainSymbol(text) == IF text \cap Listed = {} THEN {"SBER@MISX"} ELSE text

\* the second leg's venue keeps its default when the saved one is not Finam's
LoadLegs(f) ==
  LET g == [f EXCEPT !.venue1 = IF @ \in Finam THEN @ ELSE "finam_spot",
                     !.symbol1 = OrDefault(@, Defaults.symbol1),
                     !.venue2 = IF @ \in Finam THEN @ ELSE Defaults.venue2,
                     !.limit = Clamped(@)]
  IN  IF g.mode # "basis_chain" THEN g
      ELSE [g EXCEPT !.venue1 = "finam_spot", !.venue2 = "finam_futures",
                     !.symbol1 = ChainSymbol(@)]

LoadSettings(f) == LoadLegs(LoadCapture(f))

(***************************************************************************)
(* The setters.  Changed(p, r) is saveSettings_ after a change: the file   *)
(* holds what the page shows.                                              *)
(***************************************************************************)
Changed(p, r) == /\ p # page
                 /\ pageActs < PageMaxActs
                 /\ page' = p
                 /\ file' = p
                 /\ rows' = r
                 /\ pageActs' = pageActs + 1

PageToggleVenue(v) ==
  /\ page.selected # {v}
  /\ Changed([page EXCEPT !.selected = IF v \in @ THEN @ \ {v} ELSE @ \cup {v}], rows)

SetVenueSymbolsText(v, text) == Changed([page EXCEPT !.venueTexts[v] = text], rows)

SetSymbolsText(text) == Changed([page EXCEPT !.symbolsText = text], rows)

ApplyGlobalSymbolsToVenues ==
  /\ page.symbolsText # {}
  /\ Changed([page EXCEPT !.venueTexts =
                [v \in PageVenues |-> VenueSymbolsFromGlobalInput(v, page.symbolsText)]], rows)

RowsAfterLeg1Change == IF page.mode = "basis_chain" THEN {} ELSE rows

SetLeg1Venue(v) == /\ v \in Finam
                   /\ Changed([page EXCEPT !.venue1 = v], RowsAfterLeg1Change)

SetLeg1Symbol(text) == Changed([page EXCEPT !.symbol1 = text], RowsAfterLeg1Change)

SetLeg2Venue(v) == /\ v \in Finam
                   /\ Changed([page EXCEPT !.venue2 = v], rows)

SetLeg2Symbol(text) == Changed([page EXCEPT !.symbol2 = text], rows)

SetLimit(n) == Changed([page EXCEPT !.limit = Clamped(n)], rows)

\* leaving the pair empties the second leg; the chain fixes its venues
SetMode(m) ==
  LET p == [page EXCEPT !.mode = m]
  IN  /\ m # page.mode
      /\ CASE m = "single" -> Changed([p EXCEPT !.symbol2 = {}], rows)
           [] m = "basis_chain" ->
                Changed([p EXCEPT !.venue1 = "finam_spot", !.venue2 = "finam_futures",
                                  !.symbol1 = ChainSymbol(@)], {})
           [] OTHER -> Changed(p, rows)

\* refreshDetailedCandlesBasisCandidates: not a setting, and not saved
RefreshCandidates ==
  /\ pageActs < PageMaxActs
  /\ rows' = {<<page.venue1, page.symbol1>>}
  /\ pageActs' = pageActs + 1
  /\ UNCHANGED <<page, file>>

Restart == /\ pageActs < PageMaxActs
           /\ page' = LoadSettings(file)
           /\ rows' = {}
           /\ pageActs' = pageActs + 1
           /\ UNCHANGED file

PageInit == /\ page = LoadSettings(Defaults)
            /\ file = Defaults
            /\ rows = {}
            /\ pageActs = 0

PageNext == \/ \E v \in PageVenues : PageToggleVenue(v) \/ SetLeg1Venue(v) \/ SetLeg2Venue(v)
            \/ \E v \in PageVenues, t \in Texts : SetVenueSymbolsText(v, t)
            \/ \E t \in Texts : SetSymbolsText(t) \/ SetLeg1Symbol(t) \/ SetLeg2Symbol(t)
            \/ \E n \in {0, MaxLimit, MaxLimit + 1} : SetLimit(n)
            \/ \E m \in {"single", "pair", "basis_chain"} : SetMode(m)
            \/ ApplyGlobalSymbolsToVenues
            \/ RefreshCandidates
            \/ Restart

PageSpec == PageInit /\ [][PageNext]_pageVars

(***************************************************************************)
(* Properties.                                                             *)
(***************************************************************************)

\* A restart asks for the captures the page asked for before it: the same
\* symbols at the same venues, those whose text was emptied included, and
\* never none at all.  (loadSettings_ after saveSettings_; the texts of the
\* venues are kept even when empty, unlike the global text.)
RestartKeepsConfigs == /\ MakeConfigs(LoadSettings(file)) = MakeConfigs(page)
                       /\ page.selected # {}

\* A restart shows the two legs that were shown, except where the file holds
\* nothing to show: an emptied first symbol returns to its default, and the
\* chain mode returns to its own venues and to a listed symbol.
RestartRestoresLegs ==
  LET p == LoadSettings(file)
  IN  /\ p.mode = page.mode /\ p.symbol2 = page.symbol2 /\ p.limit = page.limit
      /\ page.mode # "basis_chain" => p.venue1 = page.venue1 /\ p.venue2 = page.venue2
      /\ p.symbol1 # page.symbol1 =>
           \/ page.symbol1 = {}
           \/ page.mode = "basis_chain" /\ page.symbol1 \cap Listed = {}

\* In chain mode the candidate rows on the page were built for the venue and
\* the symbol the page shows: a download of "the selected chain" is one of
\* that symbol.  (The setters clear the rows only in chain mode; entering it
\* clears what was built before.)
ChainRowsFit == page.mode = "basis_chain" => rows \subseteq {<<page.venue1, page.symbol1>>}

=============================================================================
