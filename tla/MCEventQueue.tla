----------------------------- MODULE MCEventQueue ------------------------------
(***************************************************************************)
(* EventQueue with three slots (two items fit), two producers and two      *)
(* items: the smallest ring in which the queue fills, empties and wraps    *)
(* with both producers inside PushBack.                                    *)
(***************************************************************************)
EXTENDS EventQueue, TLC

CONSTANTS p1, p2, a, b

MCProducers == {p1, p2}
MCItems == {a, b}
================================================================================
