---------------------------- MODULE PointerTable ----------------------------
(***************************************************************************)
(* What a client of the pointer table (table.h) relies on: items are kept  *)
(* in the order they were pushed, sorting rearranges them by their keys    *)
(* and leaves equal keys in the order they had, and the table is emptied   *)
(* once.  Table implements this specification.                             *)
(***************************************************************************)
EXTENDS Integers, Sequences

CONSTANTS
    Data,   \* what can be pushed, each item at most once
    Key     \* what items are sorted by

VARIABLES
    items,      \* the table
    freed       \* what was handed to free_data_fn, in order

vars == <<items, freed>>

Items(s) == { s[k] : k \in DOMAIN s }

Init == items = <<>> /\ freed = <<>>

Push ==
    /\ \E d \in Data \ Items(items) : items' = Append(items, d)
    /\ UNCHANGED freed

\* a comes before b in the sorted table.
Before(a, b) ==
    \/ Key[a] < Key[b]
    \/ Key[a] = Key[b] /\ \E j, k \in DOMAIN items :
                             j < k /\ items[j] = a /\ items[k] = b

Sort ==
    /\ Len(items') = Len(items) /\ Items(items') = Items(items)
    /\ \A j, k \in DOMAIN items' : j < k => Before(items'[j], items'[k])
    /\ UNCHANGED freed

\* From the last to the first, or not at all if nobody knows how to free them.
Release ==
    /\ items' = <<>>
    /\ \/ freed' = [k \in DOMAIN items |-> items[Len(items) + 1 - k]]
       \/ UNCHANGED freed

Next == Push \/ Sort \/ Release

Spec == Init /\ [][Next]_vars
=============================================================================
