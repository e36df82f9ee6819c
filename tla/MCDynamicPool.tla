----------------------------- MODULE MCDynamicPool -----------------------------
(***************************************************************************)
(* DynamicPool with one accept loop, one object at first and a growth of   *)
(* one (the program has 128 and 64).                                       *)
(***************************************************************************)
EXTENDS DynamicPool, TLC

CONSTANTS f1

MCFetchers == {f1}
================================================================================
