---------------------------- MODULE MCStrategyFeed ----------------------------
(* Small instances of StrategyFeed for TLC. *)
EXTENDS StrategyFeed

CONSTANTS good, poison, invalid

AllKinds == {good, poison, invalid}
Kind(f) == CASE f = poison -> "poison" [] f = invalid -> "invalid"
             [] OTHER -> "good"
=============================================================================
