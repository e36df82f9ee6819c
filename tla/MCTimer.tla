-------------------------------- MODULE MCTimer --------------------------------
(***************************************************************************)
(* Timer with two intervals and two events.                                *)
(***************************************************************************)
EXTENDS Timer, TLC

CONSTANTS ms1, ms2, ev1, ev2

MCIntervals == {ms1, ms2}
MCEvents == {ev1, ev2}
MCAsks == {<<ms1, ev1>>, <<ms1, ev2>>}
================================================================================
