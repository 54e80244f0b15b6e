----------------------------- MODULE AppendList -----------------------------
(***************************************************************************)
(* What a client of the unrolled list (ulist.h) relies on: a sequence that *)
(* grows at its end and answers an index with the item appended there.     *)
(* UList implements this specification.                                    *)
(***************************************************************************)
EXTENDS Naturals, Sequences

CONSTANTS
    Data,       \* what can be appended
    NoData,     \* the answer to an index behind the end
    Indices     \* what can be asked for

VARIABLES
    items,      \* what was appended so far
    asked,      \* the index asked for and not answered yet, if there is one
    answer      \* the last answer

vars == <<items, asked, answer>>

Init == items = <<>> /\ asked = {} /\ answer = NoData

Grow ==
    /\ asked = {}
    /\ \E data \in Data : items' = Append(items, data)
    /\ UNCHANGED <<asked, answer>>

Ask ==
    /\ asked = {}
    /\ \E idx \in Indices : asked' = { idx }
    /\ UNCHANGED <<items, answer>>

Answer ==
    /\ \E idx \in asked :
        answer' = IF idx < Len(items) THEN items[idx + 1] ELSE NoData
    /\ asked' = {}
    /\ UNCHANGED items

Empty ==
    /\ asked = {} /\ items' = <<>>
    /\ UNCHANGED <<asked, answer>>

Next == Grow \/ Ask \/ Answer \/ Empty

Spec == Init /\ [][Next]_vars
=============================================================================
