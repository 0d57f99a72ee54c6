----------------------------- MODULE MCMarketFeed -----------------------------
(* Two strategies that ask for past candles. *)
EXTENDS MarketFeed, TLC

CONSTANTS s1, s2

HistoryBarsMC == s1 :> 2 @@ s2 :> 3
=============================================================================
