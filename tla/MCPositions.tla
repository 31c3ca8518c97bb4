---------------------------- MODULE MCPositions ----------------------------
(***************************************************************************)
(* Quotes for model checking Positions: one on either side of the prices   *)
(* of the executions.                                                      *)
(***************************************************************************)
EXTENDS Positions

MCQuotes == {<<1, 2>>, <<3, 5>>}

=============================================================================
