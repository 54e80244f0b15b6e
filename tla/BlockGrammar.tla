---------------------------- MODULE BlockGrammar ----------------------------
(***************************************************************************)
(* What the dynamic part of a stream looks like from outside: blocks one   *)
(* behind the other, none empty, none over the end, of which a time block  *)
(* may contain further reads.  It is left two bytes before the end its     *)
(* head declared for each malformed record it contains, because such a     *)
(* record is charged two bytes more than were read, and exactly at that    *)
(* end if it contains none.                                                *)
(* Parsing is successful only behind a last block that ends with the       *)
(* stream.  DynStream implements this specification.                       *)
(***************************************************************************)
EXTENDS Integers

CONSTANT Lim

VARIABLES
    where,    \* between two blocks, inside a time block, accepted or rejected
    pos,      \* the cursor
    bad,      \* the malformed records of the open time block
    blk_end   \* where the open time block ends in the stream, as declared

vars == <<where, pos, bad, blk_end>>

Init == where = "between" /\ pos = 0 /\ bad = 0 /\ blk_end = 0

\* The bytes of the id of a block, and of the head of a time block.
IdLen == 1
TimeHeadLen == 5
LeaveLen == 14

Skip ==
    /\ where = "between" /\ where' = where
    /\ pos' \in (pos + IdLen)..Lim
    /\ UNCHANGED <<bad, blk_end>>

Accept ==
    /\ where = "between" /\ where' = "accepted"
    /\ pos' = pos + LeaveLen /\ pos' = Lim
    /\ UNCHANGED <<bad, blk_end>>

Open ==
    /\ where = "between" /\ where' = "inside"
    /\ pos' = pos + TimeHeadLen /\ pos' <= Lim
    /\ blk_end' >= pos' - 2 /\ blk_end' <= pos' + 65533
    /\ bad' = 0

Consume ==
    /\ where = "inside" /\ where' = where
    /\ pos' \in (pos + 1)..Lim
    /\ bad' \in { bad, bad + 1 }
    /\ UNCHANGED blk_end

Close ==
    /\ where = "inside" /\ where' = "between"
    /\ pos = blk_end - 2 * bad
    /\ bad' = 0 /\ blk_end' = 0 /\ UNCHANGED pos

Reject ==
    /\ where \in { "between", "inside" } /\ where' = "rejected"
    /\ pos' >= pos
    /\ UNCHANGED <<bad, blk_end>>

Next == Skip \/ Accept \/ Open \/ Consume \/ Close \/ Reject

Spec == Init /\ [][Next]_vars
=============================================================================
