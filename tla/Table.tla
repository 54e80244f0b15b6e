-------------------------------- MODULE Table --------------------------------
(***************************************************************************)
(* The generic table of table.c: an array of len cells, cnt of them in     *)
(* use, which tbl_push doubles when it is full and tbl_sort sorts by       *)
(* insertion, one comparison at a time.                                    *)
(***************************************************************************)
EXTENDS Integers, Sequences

CONSTANTS
    Data,               \* the pointers, each pushed at most once
    Key,                \* what cmp_fn compares them by
    Junk,               \* what a cell holds that was never written
    Lens,               \* the lengths that tbl_alloc is asked for
    DEFAULT_TBL_SIZE

ASSUME TableAssumption ==
    /\ Key \in [Data -> Int] /\ Junk \notin Data
    /\ Lens \subseteq Nat /\ DEFAULT_TBL_SIZE \in Nat \ { 0 }

VARIABLES
    arr, len, cnt,
    free_data_fn,   \* whether the table knows how to free an item
    pc,             \* none, idle, in tbl_sort, in tbl_dealloc, or at an end
    o,              \* tbl_sort: index of the element to be inserted
    i,              \* tbl_sort: index it is compared with, -1 before the array
    tmp,            \* tbl_sort: the element to be inserted
    snapshot,       \* history: the table when tbl_sort or tbl_dealloc was called
    freed           \* history: the items handed to free_data_fn, in order

table == <<arr, len, cnt, free_data_fn>>
loop  == <<o, i, tmp>>
vars  == <<arr, len, cnt, free_data_fn, pc, o, i, tmp, snapshot, freed>>

\* The items of the table.
Contents == [k \in 1..cnt |-> arr[k - 1]]

Cells(n) == 0..(n - 1)

Init ==
    /\ arr = [k \in Cells(0) |-> Junk] /\ len = 0 /\ cnt = 0 /\ free_data_fn = FALSE
    /\ pc = "none" /\ o = 0 /\ i = 0 /\ tmp = Junk
    /\ snapshot = <<>> /\ freed = <<>>

-----------------------------------------------------------------------------
tbl_alloc ==
    /\ pc = "none"
    /\ len' \in Lens /\ arr' = [k \in Cells(len') |-> Junk]
    /\ cnt' = 0 /\ free_data_fn' \in BOOLEAN
    /\ pc' = "idle"
    /\ UNCHANGED <<loop, snapshot, freed>>

\* No memory for the table: NULL is returned.
AllocNoMemory ==
    /\ pc = "none" /\ pc' = "null"
    /\ UNCHANGED <<table, loop, snapshot, freed>>

\* No memory for its array: the table is deallocated before its members are set,
\* and the pointer to it is returned all the same.
AllocNoArray ==
    /\ pc = "none" /\ \E n \in Lens : n > 0
    /\ pc' = "dangling"
    /\ UNCHANGED <<table, loop, snapshot, freed>>

-----------------------------------------------------------------------------
\* A mistake to check against: noticing too late that the table is full.
Overfull == cnt > len

Full == cnt >= len

\* What tbl_expand makes of the length.
ExpandedLen == IF cnt = 0 THEN DEFAULT_TBL_SIZE ELSE 2 * cnt

\* tbl_push, with tbl_expand if there is no cell left.
tbl_push ==
    /\ pc = "idle"
    /\ \E data \in Data \ { arr[k] : k \in Cells(cnt) } :
        /\ len' = IF Full THEN ExpandedLen ELSE len
        /\ arr' = [k \in Cells(len') |->
                     IF k = cnt THEN data ELSE IF k < len THEN arr[k] ELSE Junk]
    /\ cnt' = cnt + 1
    /\ UNCHANGED <<free_data_fn, pc, loop, snapshot, freed>>

\* realloc fails: tbl_push returns -1 and the table is as it was.
PushNoMemory == pc = "idle" /\ Full /\ UNCHANGED vars

-----------------------------------------------------------------------------
(***************************************************************************)
(* tbl_sort                                                                *)
(***************************************************************************)
tbl_sort ==
    /\ pc = "idle"
    /\ pc' = "outer" /\ o' = 1 /\ snapshot' = Contents
    /\ UNCHANGED <<table, i, tmp, freed>>

TakeNext ==
    /\ pc = "outer" /\ o < cnt
    /\ pc' = "inner" /\ tmp' = arr[o] /\ i' = o - 1
    /\ UNCHANGED <<table, o, snapshot, freed>>

SortDone ==
    /\ pc = "outer" /\ o >= cnt
    /\ pc' = "idle" /\ o' = 0 /\ i' = 0 /\ tmp' = Junk /\ snapshot' = <<>>
    /\ UNCHANGED <<table, freed>>

\* A mistake to check against: equal elements change places.
NotLess(a, b) == Key[a] >= Key[b]

\* cmp_fn(a, b) > 0.
Greater(a, b) == Key[a] > Key[b]

\* A mistake to check against: the cell is taken for the one behind it.
MoveDown == arr' = [arr EXCEPT ![i] = arr[i + 1]]

MoveUp == arr' = [arr EXCEPT ![i + 1] = arr[i]]

Shift ==
    /\ pc = "inner" /\ i >= 0 /\ Greater(arr[i], tmp)
    /\ MoveUp /\ i' = i - 1
    /\ UNCHANGED <<len, cnt, free_data_fn, pc, o, tmp, snapshot, freed>>

\* A mistake to check against: the same element is inserted again.
SameElement == o' = o

NextElement == o' = o + 1

\* The place for the element is found.
Place ==
    /\ arr' = [arr EXCEPT ![i + 1] = tmp]
    /\ NextElement /\ pc' = "outer"
    /\ UNCHANGED <<len, cnt, free_data_fn, i, tmp, snapshot, freed>>

Insert == pc = "inner" /\ i >= 0 /\ ~Greater(arr[i], tmp) /\ Place

\* cmp_fn is given what lies before the array, and then the loop ends because
\* that is where it is: if the comparison returns, its answer does not matter.
InsertFirst ==
    /\ pc = "inner" /\ i < 0
    /\ \/ Place
       \/ pc' = "wild_read" /\ UNCHANGED <<table, loop, snapshot, freed>>

-----------------------------------------------------------------------------
(***************************************************************************)
(* tbl_dealloc                                                             *)
(***************************************************************************)
tbl_dealloc ==
    /\ pc = "idle"
    /\ pc' = "dealloc" /\ snapshot' = Contents
    /\ UNCHANGED <<table, loop, freed>>

\* A mistake to check against: the cell behind the last item is freed.
CellBehind == IF cnt < len THEN arr[cnt] ELSE Junk

LastItem == arr[cnt - 1]

FreeItem ==
    /\ pc = "dealloc" /\ free_data_fn /\ cnt > 0
    /\ freed' = Append(freed, LastItem) /\ cnt' = cnt - 1
    /\ UNCHANGED <<arr, len, free_data_fn, pc, loop, snapshot>>

FreeTable ==
    /\ pc = "dealloc" /\ (~free_data_fn \/ cnt = 0)
    /\ pc' = "gone"
    /\ UNCHANGED <<table, loop, snapshot, freed>>

Ends == { "null", "dangling", "wild_read", "gone" }

Ended == pc \in Ends /\ UNCHANGED vars

Sorting == TakeNext \/ SortDone \/ Shift \/ Insert \/ InsertFirst

Releasing == FreeItem \/ FreeTable

Next ==
    \/ tbl_alloc \/ AllocNoMemory \/ AllocNoArray \/ tbl_push \/ PushNoMemory
    \/ tbl_sort \/ Sorting \/ tbl_dealloc \/ Releasing \/ Ended

Spec == Init /\ [][Next]_vars

\* A call that was made runs to its end.
FairSpec == Spec /\ WF_vars(Sorting) /\ WF_vars(Releasing)

-----------------------------------------------------------------------------
(***************************************************************************)
(* Properties.                                                             *)
(***************************************************************************)

\* The array has len cells, the first cnt of them written, and the indices of
\* tbl_sort are inside, with the one exception of the place before the array.
TypeOK ==
    /\ len \in Nat /\ cnt \in Nat /\ cnt <= len
    /\ arr \in [Cells(len) -> Data \cup { Junk }]
    /\ \A k \in Cells(cnt) : arr[k] \in Data
    /\ free_data_fn \in BOOLEAN
    /\ pc \in { "none", "idle", "outer", "inner", "dealloc" } \cup Ends
    /\ o \in Nat /\ i \in Int /\ tmp \in Data \cup { Junk }
    /\ pc = "outer" => o >= 1 /\ (o <= cnt \/ o = 1)
    /\ pc = "inner" => o < cnt /\ -1 <= i /\ i < o /\ tmp \in Data
    /\ snapshot \in Seq(Data) /\ freed \in Seq(Data)

Ordered(k, l) == Key[arr[k]] <= Key[arr[l]]

\* What lies before element o is sorted, where the element to be inserted has left
\* a hole behind cell i; everything between the hole and o is greater than it
\* (the loops of tbl_sort).
PartlySorted ==
    /\ pc = "outer" => \A k, l \in 0..(o - 1) : k < l /\ l < cnt => Ordered(k, l)
    /\ pc = "inner" =>
        /\ \A k, l \in 0..o \ { i + 1 } : k < l => Ordered(k, l)
        /\ \A k \in (i + 2)..o : Key[arr[k]] > Key[tmp]

\* Sorting neither loses nor doubles an item, however often it moves it: what the
\* table held is in its cells, with the element to be inserted in the place of
\* the hole (tbl_sort).
NothingLost ==
    /\ pc = "outer" => { arr[k] : k \in Cells(cnt) } = { snapshot[k] : k \in 1..cnt }
    /\ pc = "inner" =>
        { arr[k] : k \in Cells(cnt) \ { i + 1 } } \cup { tmp } = { snapshot[k] : k \in 1..cnt }

\* "Sort table using "insertion sort"" (table.c): the elements of the table are
\* compared with each other, and with nothing else.
ComparesElements == pc # "wild_read"

\* Every sort and every deallocation comes to an end.
CallsReturn ==
    /\ pc \in { "outer", "inner" } ~> pc \in { "idle", "wild_read" }
    /\ pc = "dealloc" ~> pc = "gone"

\* To its clients the table is a sequence that they may sort.
PointerTable == INSTANCE PointerTable WITH
    items <- IF pc \in { "none", "idle" } THEN Contents
             ELSE IF pc = "gone" THEN <<>>
             ELSE snapshot,
    freed <- IF pc = "gone" THEN freed ELSE <<>>

IsPointerTable == PointerTable!Spec
=============================================================================
