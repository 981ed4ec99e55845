--------------------------- MODULE MCYahooSource ---------------------------
(***************************************************************************)
(* YahooSource for TLC.                                                    *)
(***************************************************************************)
EXTENDS YahooSource
=============================================================================
