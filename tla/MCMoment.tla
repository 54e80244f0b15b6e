------------------------------ MODULE MCMoment ------------------------------
(***************************************************************************)
(* An instance of Moment for TLC with the radices of the code: a little    *)
(* more than an hour, in the largest increment and in one that brings the  *)
(* milliseconds to every residue, so that each unit is met at its radix.   *)
(***************************************************************************)
EXTENDS Moment

MCTimeIncs == { 999, 65535 }
MCMaxTotal == 3660000
=============================================================================
