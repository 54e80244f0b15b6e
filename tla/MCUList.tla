------------------------------- MODULE MCUList -------------------------------
(***************************************************************************)
(* A small instance of UList for TLC: up to four records of two items, and *)
(* indices up to one behind the end, so that walks of more than one step   *)
(* happen from the cursor and from the head, in a list that still grows.   *)
(***************************************************************************)
EXTENDS UList

CONSTANTS d1, d2

MCData    == { d1, d2 }
MCIndices == 0..MaxCnt
=============================================================================
