----------------------------- MODULE MCReceivePath ------------------------------
(***************************************************************************)
(* ReceivePath with headers of two bytes: packets of two and three in a    *)
(* buffer none of them wraps around, or a packet of four that begins two   *)
(* bytes before the end of a buffer of eight.                              *)
(***************************************************************************)
EXTENDS ReceivePath

MCStart == <<0, 3, 5, 8, 10>>
MCStartWrap == <<0, 6, 10>>
================================================================================
