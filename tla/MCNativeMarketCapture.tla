----------------------- MODULE MCNativeMarketCapture -----------------------
(* One trade channel and one depth channel, in a session each.  The ring    *)
(* holds one event and the storage thread another; the arena holds two      *)
(* frames, and frames of one and two rows make it wrap at every offset.     *)
EXTENDS NativeMarketCapture, TLC

CONSTANTS trades, depth, first, second

MCSinkOf == trades :> first @@ depth :> second
============================================================================
