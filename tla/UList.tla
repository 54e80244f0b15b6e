-------------------------------- MODULE UList --------------------------------
(***************************************************************************)
(* The unrolled linked list of ulist.c: records of arr_size items, chained *)
(* by their next pointers, and a cursor (last_rec, last_rec_no) that       *)
(* remembers the record looked at last.  ulist_get walks from the cursor,  *)
(* from the head, or takes the tail; ulist_append moves the cursor too.    *)
(*                                                                         *)
(* A record is known by the number of its allocation, 1, 2, ...; 0 is the  *)
(* null pointer.                                                           *)
(***************************************************************************)
EXTENDS Integers, Sequences

CONSTANTS
    arr_size,   \* items per record
    Data,       \* what is appended (the pointers)
    NoData,     \* the NULL that ulist_get answers, and that calloc leaves
    Indices,    \* the indices that clients ask for
    MaxCnt      \* bound of the model: items that are appended at most

ASSUME SizeAssumption == arr_size \in Nat \ { 0 } /\ MaxCnt \in Nat

ASSUME DataAssumption == NoData \notin Data /\ Indices \subseteq Nat

NULL == 0

VARIABLES
    cnt,            \* number of items
    rec_cnt,        \* number of records
    head, tail,     \* the first and the last record
    last_rec,       \* the record retrieved last
    last_rec_no,    \* and its number, zero based
    next,           \* r->next of each record
    arr,            \* r->arr of each record
    item_cnt,       \* r->item_cnt of each record
    pc,             \* idle, or inside ulist_get or ulist_dealloc
    idx,            \* ulist_get's idx
    cur_rec,        \* get_record's cur_rec, ulist_dealloc's cur
    cur_no,         \* get_record's cur_no
    data,           \* what ulist_get returned last
    released        \* history: the items given to free_data_fn, in order

list    == <<cnt, rec_cnt, head, tail>>
heap    == <<next, arr, item_cnt>>
pointer == <<last_rec, last_rec_no>>
walk    == <<cur_rec, cur_no>>
vars    == <<cnt, rec_cnt, head, tail, last_rec, last_rec_no, next, arr, item_cnt,
             pc, idx, cur_rec, cur_no, data, released>>

\* div() of an index by arr_size.
Quot(i) == i \div arr_size
Rem(i)  == i % arr_size

-----------------------------------------------------------------------------
\* ulist_alloc: everything is zero.
Init ==
    /\ cnt = 0 /\ rec_cnt = 0 /\ head = NULL /\ tail = NULL
    /\ last_rec = NULL /\ last_rec_no = 0
    /\ next = <<>> /\ arr = <<>> /\ item_cnt = <<>>
    /\ pc = "idle" /\ idx = 0 /\ cur_rec = NULL /\ cur_no = 0
    /\ data = NoData /\ released = <<>>

-----------------------------------------------------------------------------
(***************************************************************************)
(* ulist_append                                                            *)
(***************************************************************************)

\* There is room in the last record.
AppendToTail(item) ==
    /\ Rem(cnt) # 0
    /\ arr' = [arr EXCEPT ![tail][Rem(cnt)] = item]
    /\ item_cnt' = [item_cnt EXCEPT ![tail] = @ + 1]
    /\ UNCHANGED <<rec_cnt, head, tail, pointer, next>>

EmptyRecord == [slot \in 0..(arr_size - 1) |-> NoData]

\* A mistake to check against: the new record is not noted under its number.
CursorNumberKept(rec) == last_rec' = rec /\ last_rec_no' = last_rec_no

\* The cursor follows to the new record.
CursorTo(rec) == last_rec' = rec /\ last_rec_no' = Quot(cnt)

\* A mistake to check against: the new record is hung behind the first one.
LinkedToHead(rec) == IF head = NULL THEN next ELSE [next EXCEPT ![head] = rec]

\* The new record is hung behind the tail, if there is one.
Linked(rec) == IF head = NULL THEN next ELSE [next EXCEPT ![tail] = rec]

\* A new record is needed, and there is memory for it.
AppendRecord(item) ==
    LET rec == Len(next) + 1
    IN  /\ Rem(cnt) = 0
        /\ next' = Append(Linked(rec), NULL)
        /\ head' = IF head = NULL THEN rec ELSE head
        /\ tail' = rec
        /\ CursorTo(rec)
        /\ rec_cnt' = rec_cnt + 1
        /\ arr' = Append(arr, [EmptyRecord EXCEPT ![0] = item])
        /\ item_cnt' = Append(item_cnt, 1)

ulist_append ==
    /\ pc = "idle" /\ cnt < MaxCnt
    /\ \E item \in Data : AppendToTail(item) \/ AppendRecord(item)
    /\ cnt' = cnt + 1
    /\ UNCHANGED <<pc, idx, walk, data, released>>

\* A new record is needed, and calloc fails: ulist_append returns -1.
AppendNoMemory == pc = "idle" /\ Rem(cnt) = 0 /\ UNCHANGED vars

-----------------------------------------------------------------------------
(***************************************************************************)
(* ulist_get and get_record                                                *)
(***************************************************************************)
ulist_get ==
    /\ pc = "idle"
    /\ idx' \in Indices /\ pc' = "get"
    /\ UNCHANGED <<list, heap, pointer, walk, data, released>>

OutOfRange ==
    /\ pc = "get" /\ idx >= cnt
    /\ data' = NoData /\ pc' = "idle"
    /\ UNCHANGED <<list, heap, pointer, walk, idx, released>>

Fetch(rec) == data' = arr[rec][Rem(idx)] /\ pc' = "idle"

\* The cursor is at the record already.
SameRecord ==
    /\ pc = "get" /\ idx < cnt /\ last_rec_no = Quot(idx)
    /\ Fetch(last_rec)
    /\ UNCHANGED <<list, heap, pointer, walk, idx, released>>

TailRecord ==
    /\ pc = "get" /\ idx < cnt /\ last_rec_no # Quot(idx)
    /\ Quot(idx) = rec_cnt - 1
    /\ last_rec' = tail /\ last_rec_no' = Quot(idx)
    /\ Fetch(tail)
    /\ UNCHANGED <<list, heap, walk, idx, released>>

\* A mistake to check against: the walk back starts where the cursor is.
WalkFromCursor == cur_rec' = last_rec /\ cur_no' = 0

WalkFromHead == cur_rec' = head /\ cur_no' = 0

StartWalk ==
    /\ pc = "get" /\ idx < cnt /\ last_rec_no # Quot(idx)
    /\ Quot(idx) # rec_cnt - 1
    /\ IF last_rec_no < Quot(idx)
       THEN cur_rec' = last_rec /\ cur_no' = last_rec_no
       ELSE WalkFromHead
    /\ pc' = "walk"
    /\ UNCHANGED <<list, heap, pointer, idx, data, released>>

\* A mistake to check against: the walk stays where it is.
StandStill == UNCHANGED walk

OneRecordOn == cur_rec' = next[cur_rec] /\ cur_no' = cur_no + 1

Walk ==
    /\ pc = "walk" /\ cur_no < Quot(idx)
    /\ OneRecordOn
    /\ UNCHANGED <<list, heap, pointer, pc, idx, data, released>>

Arrive ==
    /\ pc = "walk" /\ cur_no >= Quot(idx)
    /\ last_rec' = cur_rec /\ last_rec_no' = Quot(idx)
    /\ Fetch(cur_rec)
    /\ UNCHANGED <<list, heap, walk, idx, released>>

Lookup == OutOfRange \/ SameRecord \/ TailRecord \/ StartWalk \/ Walk \/ Arrive

-----------------------------------------------------------------------------
(***************************************************************************)
(* ulist_dealloc: one step frees one record and the items in it.           *)
(***************************************************************************)
ulist_dealloc ==
    /\ pc = "idle"
    /\ pc' = "dealloc" /\ cur_rec' = head
    /\ UNCHANGED <<list, heap, pointer, idx, cur_no, data, released>>

\* A mistake to check against: the slots that nobody filled are freed as well.
SlotsOf(rec) == [i \in 1..arr_size |-> arr[rec][i - 1]]

ItemsOf(rec) == [i \in 1..item_cnt[rec] |-> arr[rec][i - 1]]

FreeRecord ==
    /\ pc = "dealloc" /\ cur_rec # NULL
    /\ released' = released \o ItemsOf(cur_rec)
    /\ cnt' = cnt - item_cnt[cur_rec] /\ rec_cnt' = rec_cnt - 1
    /\ cur_rec' = next[cur_rec]
    /\ UNCHANGED <<head, tail, heap, pointer, pc, idx, cur_no, data>>

FreeList ==
    /\ pc = "dealloc" /\ cur_rec = NULL
    /\ pc' = "gone"
    /\ UNCHANGED <<list, heap, pointer, walk, idx, data, released>>

Gone == pc = "gone" /\ UNCHANGED vars

Next ==
    \/ ulist_append \/ AppendNoMemory \/ ulist_get \/ Lookup
    \/ ulist_dealloc \/ FreeRecord \/ FreeList \/ Gone

Spec == Init /\ [][Next]_vars

\* A call that was made runs to its end.
FairSpec == Spec /\ WF_vars(Lookup) /\ WF_vars(FreeRecord \/ FreeList)

-----------------------------------------------------------------------------
(***************************************************************************)
(* Properties.                                                             *)
(***************************************************************************)
Records == 1..Len(next)

\* Every variable has its type, and the heap has one entry for each record.
TypeOK ==
    /\ cnt \in Nat /\ rec_cnt \in Nat
    /\ head \in Records \cup { NULL } /\ tail \in Records \cup { NULL }
    /\ last_rec \in Records \cup { NULL } /\ last_rec_no \in Nat
    /\ next \in Seq(Nat) /\ \A r \in Records : next[r] \in Records \cup { NULL }
    /\ arr \in Seq([0..(arr_size - 1) -> Data \cup { NoData }])
    /\ item_cnt \in Seq(1..arr_size)
    /\ Len(arr) = Len(next) /\ Len(item_cnt) = Len(next)
    /\ pc \in { "idle", "get", "walk", "dealloc", "gone" }
    /\ idx \in Nat /\ cur_rec \in Records \cup { NULL } /\ cur_no \in Nat
    /\ data \in Data \cup { NoData }
    /\ released \in Seq(Data)

Alive == pc \notin { "dealloc", "gone" }

\* The records form one chain in the order of their allocation, and all of them
\* but the last are full (ulist_append).
ChainOK ==
    /\ \A r \in Records : next[r] = IF r < Len(next) THEN r + 1 ELSE NULL
    /\ \A r \in Records : r < Len(next) => item_cnt[r] = arr_size
    /\ head = (IF Len(next) = 0 THEN NULL ELSE 1)
    /\ tail = Len(next)
    /\ Alive =>
        /\ rec_cnt = Len(next)
        /\ cnt = IF rec_cnt = 0 THEN 0
                 ELSE (rec_cnt - 1) * arr_size + item_cnt[rec_cnt]

\* The cursor stands at the record that bears its number, whatever sequence of
\* appends and retrievals put it there; and a walk never leaves the chain
\* (ulist_get, get_record).
CursorOK ==
    /\ Alive => last_rec = (IF Len(next) = 0 THEN NULL ELSE last_rec_no + 1)
    /\ pc = "walk" => cur_rec = cur_no + 1 /\ cur_no <= Quot(idx) /\ idx < cnt

\* The items in the order of the records and of their slots.
Stored == [i \in 1..cnt |-> arr[Quot(i - 1) + 1][Rem(i - 1)]]

\* Deallocation gives every item to free_data_fn once, in the order of the list,
\* and both counters come down to 0 (ulist_dealloc).
AllReleased ==
    pc = "gone" =>
        /\ cnt = 0 /\ rec_cnt = 0
        /\ LET total == IF Len(next) = 0 THEN 0
                        ELSE (Len(next) - 1) * arr_size + item_cnt[Len(next)]
           IN  released = [i \in 1..total |-> arr[Quot(i - 1) + 1][Rem(i - 1)]]

\* Every retrieval comes to an end (the loop in get_record), and so does every
\* deallocation.
CallsReturn ==
    /\ pc \in { "get", "walk" } ~> pc = "idle"
    /\ pc = "dealloc" ~> pc = "gone"

\* To its clients the list is a sequence.
AppendList == INSTANCE AppendList WITH
    items  <- IF Alive THEN Stored ELSE <<>>,
    asked  <- IF pc \in { "get", "walk" } THEN { idx } ELSE {},
    answer <- data

IsAppendList == AppendList!Spec
=============================================================================
