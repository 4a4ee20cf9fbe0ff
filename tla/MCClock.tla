------------------------------ MODULE MCClock ------------------------------
(***************************************************************************)
(* A counter that wraps after eight ticks and sleeps of one to three, so   *)
(* that a sleep can start on either side of the wrap.                      *)
(***************************************************************************)
EXTENDS Clock

MCSleeps == {1, 2, 3}
=============================================================================
