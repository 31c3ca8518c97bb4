-------------------------- MODULE MCStrategyEngine --------------------------
(***************************************************************************)
(* Constants for model checking StrategyEngine: two linked markets, a      *)
(* ratio of a tenth and half a bit.                                        *)
(***************************************************************************)
EXTENDS StrategyEngine

CONSTANTS binance, bybit

MCLinks          == {<<binance, bybit>>}
MCRatioThreshold == <<1, 10>>
MCMiThreshold    == <<1, 2>>

=============================================================================
