------------------------------ MODULE MCTable ------------------------------
(***************************************************************************)
(* A small instance of Table for TLC: five items, two of them with equal   *)
(* keys, pushed in every order into a table that has no cell, one or two   *)
(* at first and then grows once or twice; it is sorted at any time, and    *)
(* pushed to and sorted again.                                             *)
(***************************************************************************)
EXTENDS Table

MCData == 1..5
MCKey  == <<1, 2, 2, 3, 0>>
MCLens == { 0, 1, 2 }
=============================================================================
