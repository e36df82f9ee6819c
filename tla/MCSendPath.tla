------------------------------- MODULE MCSendPath -------------------------------
(***************************************************************************)
(* SendPath with a buffer of five bytes, of which four can be used, and    *)
(* messages of one to three bytes: the cursors go around the buffer, a     *)
(* message is split at its end, and a message finds no room at all.        *)
(***************************************************************************)
EXTENDS SendPath

MCMessageLens == {1, 2, 3}
================================================================================
