---------------------------- MODULE TableProofs ----------------------------
(***************************************************************************)
(* What holds of the table for every set of items, every key function and  *)
(* every length: the indices stay in the array, the loops of tbl_sort sort *)
(* without losing an item, and the whole implements PointerTable.          *)
(***************************************************************************)
EXTENDS Table, SequenceTheorems, TLAPS

-----------------------------------------------------------------------------
(***************************************************************************)
(* Types.                                                                  *)
(***************************************************************************)

\* The part of TypeOK about the array, for cells a, of which c are in use.
Holds(a, n, c) ==
    /\ n \in Nat /\ c \in Nat /\ c <= n
    /\ a \in [Cells(n) -> Data \cup { Junk }]
    /\ \A k \in Cells(c) : a[k] \in Data

\* A cell in use that is overwritten with an item leaves an array of items.
LEMMA Overwrite ==
    ASSUME NEW a, NEW n, NEW c, Holds(a, n, c), NEW k \in Cells(c), NEW d \in Data
    PROVE  Holds([a EXCEPT ![k] = d], n, c)
<1>1. k \in Cells(n)
  BY DEF Holds, Cells
<1>2. [a EXCEPT ![k] = d] \in [Cells(n) -> Data \cup { Junk }]
  BY <1>1 DEF Holds
<1>3. \A l \in Cells(c) : [a EXCEPT ![k] = d][l] \in Data
  BY <1>1 DEF Holds, Cells
<1> QED
  BY <1>2, <1>3 DEF Holds

\* tbl_push and tbl_expand: the new length has room for one more item.
LEMMA Pushed ==
    ASSUME NEW a, NEW n, NEW c, Holds(a, n, c), NEW m \in Nat, n <= m, c < m, NEW d \in Data
    PROVE  Holds([k \in Cells(m) |->
                     IF k = c THEN d ELSE IF k < n THEN a[k] ELSE Junk], m, c + 1)
<1> DEFINE b == [k \in Cells(m) |-> IF k = c THEN d ELSE IF k < n THEN a[k] ELSE Junk]
<1>1. \A k \in Cells(n) : a[k] \in Data \cup { Junk }
  BY DEF Holds
<1>2. \A k \in Cells(m) : b[k] \in Data \cup { Junk }
  BY <1>1 DEF Cells, Holds
<1>3. b \in [Cells(m) -> Data \cup { Junk }]
  BY <1>2
<1>4. \A k \in Cells(c + 1) : b[k] \in Data
  <2> SUFFICES ASSUME NEW k \in Cells(c + 1) PROVE b[k] \in Data
    OBVIOUS
  <2>1. k \in Cells(m) /\ k \in Int /\ k >= 0 /\ k <= c /\ k <= n
    BY DEF Cells, Holds
  <2>2. CASE k = c
    BY <2>1, <2>2
  <2>3. CASE k # c
    <3>1. k < c /\ k < n /\ k \in Cells(c)
      BY <2>1, <2>3 DEF Cells, Holds
    <3> QED
      BY <2>1, <2>3, <3>1 DEF Holds
  <2> QED
    BY <2>2, <2>3
<1>5. m \in Nat /\ c + 1 \in Nat /\ c + 1 <= m
  BY DEF Holds
<1> QED
  BY <1>3, <1>4, <1>5 DEF Holds

\* The items of the table are a sequence of items.
LEMMA ContentsType ==
    ASSUME Holds(arr, len, cnt)
    PROVE  Contents \in Seq(Data)
<1>1. \A k \in 1..cnt : k - 1 \in Cells(cnt)
  BY DEF Holds, Cells
<1>2. cnt \in Nat /\ \A k \in 1..cnt : arr[k - 1] \in Data
  BY <1>1 DEF Holds
<1>3. Contents \in [1..cnt -> Data]
  BY <1>2 DEF Contents
<1> QED
  BY <1>2, <1>3

\* The part of TypeOK about the local variables of tbl_sort.
LoopOK ==
    /\ o \in Nat /\ i \in Int /\ tmp \in Data \cup { Junk }
    /\ pc = "outer" => o >= 1 /\ (o <= cnt \/ o = 1)
    /\ pc = "inner" => o < cnt /\ -1 <= i /\ i < o /\ tmp \in Data

\* The rest of it.
RestOK ==
    /\ free_data_fn \in BOOLEAN
    /\ pc \in { "none", "idle", "outer", "inner", "dealloc" } \cup Ends
    /\ snapshot \in Seq(Data) /\ freed \in Seq(Data)

LEMMA TypeParts == TypeOK <=> Holds(arr, len, cnt) /\ LoopOK /\ RestOK
  BY Zenon DEF TypeOK, Holds, LoopOK, RestOK

LEMMA TypePartsNext ==
    TypeOK' <=> Holds(arr', len', cnt') /\ LoopOK' /\ RestOK'
  BY Zenon DEF TypeOK, Holds, LoopOK, RestOK

LEMMA TypeInit == Init => TypeOK
<1> SUFFICES ASSUME Init PROVE TypeOK
  OBVIOUS
<1>1. Holds(arr, len, cnt)
  BY DEF Init, Holds, Cells
<1>2. LoopOK
  BY DEF Init, LoopOK
<1>3. snapshot \in Seq(Data) /\ freed \in Seq(Data)
  <2>1. <<>> \in Seq(Data)
    OBVIOUS
  <2> QED
    BY <2>1 DEF Init
<1>4. RestOK
  BY <1>3 DEF Init, RestOK
<1> QED
  BY <1>1, <1>2, <1>4, TypeParts

LEMMA TypeStep == TypeOK /\ [Next]_vars => TypeOK'
<1> SUFFICES ASSUME TypeOK, [Next]_vars PROVE TypeOK'
  OBVIOUS
<1>0. Holds(arr, len, cnt) /\ LoopOK /\ RestOK
  BY TypeParts
<1>t. ASSUME UNCHANGED table PROVE Holds(arr', len', cnt')
  BY <1>0, <1>t DEF table
<1>1. CASE tbl_alloc
  <2>1. len' \in Nat /\ cnt' = 0
    BY <1>1, TableAssumption DEF tbl_alloc
  <2>2. Holds(arr', len', cnt')
    BY <1>1, <2>1 DEF tbl_alloc, Holds, Cells
  <2>3. LoopOK'
    BY <1>0, <1>1 DEF tbl_alloc, LoopOK, loop
  <2>4. RestOK'
    BY <1>0, <1>1 DEF tbl_alloc, RestOK
  <2> QED
    BY <2>2, <2>3, <2>4, TypePartsNext
<1>2. CASE AllocNoMemory \/ AllocNoArray
  <2>1. UNCHANGED <<table, loop, snapshot, freed>> /\ pc' \in { "null", "dangling" }
    BY <1>2 DEF AllocNoMemory, AllocNoArray
  <2>2. LoopOK'
    BY <1>0, <2>1 DEF LoopOK, loop
  <2>3. RestOK'
    BY <1>0, <2>1 DEF RestOK, Ends, table
  <2> QED
    BY <1>t, <2>1, <2>2, <2>3, TypePartsNext
<1>3. CASE tbl_push
  <2>1. PICK data \in Data :
          /\ len' = IF Full THEN ExpandedLen ELSE len
          /\ arr' = [k \in Cells(len') |->
                       IF k = cnt THEN data ELSE IF k < len THEN arr[k] ELSE Junk]
    BY <1>3 DEF tbl_push
  <2>2. cnt' = cnt + 1 /\ UNCHANGED <<free_data_fn, pc, loop, snapshot, freed>> /\ pc = "idle"
    BY <1>3 DEF tbl_push
  <2>3. len' \in Nat /\ len <= len' /\ cnt < len'
    BY <1>0, <2>1, TableAssumption DEF Holds, Full, ExpandedLen
  <2>4. Holds(arr', len', cnt')
    BY <1>0, <2>1, <2>2, <2>3, Pushed
  <2>5. LoopOK'
    BY <1>0, <2>2 DEF LoopOK, loop
  <2>6. RestOK'
    BY <1>0, <2>2 DEF RestOK
  <2> QED
    BY <2>4, <2>5, <2>6, TypePartsNext
<1>4. CASE tbl_sort
  <2>1. Contents \in Seq(Data)
    BY <1>0, ContentsType
  <2>2. Holds(arr', len', cnt')
    BY <1>t, <1>4 DEF tbl_sort
  <2>3. LoopOK'
    BY <1>0, <1>4 DEF tbl_sort, LoopOK, table
  <2>4. RestOK'
    BY <1>0, <1>4, <2>1 DEF tbl_sort, RestOK, table
  <2> QED
    BY <2>2, <2>3, <2>4, TypePartsNext
<1>5. CASE TakeNext
  <2>1. UNCHANGED table
    BY <1>5 DEF TakeNext
  <2>2. o \in Cells(cnt) /\ arr[o] \in Data
    BY <1>0, <1>5 DEF TakeNext, LoopOK, Holds, Cells
  <2>3. LoopOK'
    BY <1>0, <1>5, <2>2 DEF TakeNext, LoopOK, table
  <2>4. RestOK'
    BY <1>0, <1>5 DEF TakeNext, RestOK, table
  <2> QED
    BY <1>t, <2>1, <2>3, <2>4, TypePartsNext
<1>6. CASE SortDone
  <2>1. UNCHANGED table
    BY <1>6 DEF SortDone
  <2>2. LoopOK'
    BY <1>6 DEF SortDone, LoopOK
  <2>3. RestOK'
    BY <1>0, <1>6 DEF SortDone, RestOK, table
  <2> QED
    BY <1>t, <2>1, <2>2, <2>3, TypePartsNext
<1>7. CASE Shift
  <2>1. i \in Cells(cnt) /\ i + 1 \in Cells(cnt) /\ arr[i] \in Data
    BY <1>0, <1>7 DEF Shift, LoopOK, Holds, Cells
  <2>2. Holds(arr', len', cnt')
    BY <1>0, <1>7, <2>1, Overwrite DEF Shift, MoveUp
  <2>3. LoopOK'
    BY <1>0, <1>7 DEF Shift, LoopOK
  <2>4. RestOK'
    BY <1>0, <1>7 DEF Shift, RestOK
  <2> QED
    BY <2>2, <2>3, <2>4, TypePartsNext
<1>8. CASE pc = "inner" /\ Place
  <2>1. i + 1 \in Cells(cnt) /\ tmp \in Data
    BY <1>0, <1>8 DEF LoopOK, Holds, Cells
  <2>2. Holds(arr', len', cnt')
    BY <1>0, <1>8, <2>1, Overwrite DEF Place
  <2>3. LoopOK'
    BY <1>0, <1>8 DEF Place, NextElement, LoopOK, Holds
  <2>4. RestOK'
    BY <1>0, <1>8 DEF Place, RestOK
  <2> QED
    BY <2>2, <2>3, <2>4, TypePartsNext
<1>9. CASE InsertFirst /\ ~Place
  <2>1. UNCHANGED <<table, loop, snapshot, freed>> /\ pc' = "wild_read"
    BY <1>9 DEF InsertFirst
  <2>2. LoopOK'
    BY <1>0, <2>1 DEF LoopOK, loop
  <2>3. RestOK'
    BY <1>0, <2>1 DEF RestOK, Ends, table
  <2> QED
    BY <1>t, <2>1, <2>2, <2>3, TypePartsNext
<1>10. CASE tbl_dealloc
  <2>1. Contents \in Seq(Data)
    BY <1>0, ContentsType
  <2>2. LoopOK'
    BY <1>0, <1>10 DEF tbl_dealloc, LoopOK, loop
  <2>3. RestOK'
    BY <1>0, <1>10, <2>1 DEF tbl_dealloc, RestOK, table
  <2>4. Holds(arr', len', cnt')
    BY <1>t, <1>10 DEF tbl_dealloc
  <2> QED
    BY <2>2, <2>3, <2>4, TypePartsNext
<1>11. CASE FreeItem
  <2>1. cnt - 1 \in Cells(cnt) /\ LastItem \in Data
    BY <1>0, <1>11 DEF FreeItem, LastItem, Holds, Cells
  <2>2. Holds(arr', len', cnt')
    BY <1>0, <1>11 DEF FreeItem, Holds, Cells
  <2>3. LoopOK'
    BY <1>0, <1>11 DEF FreeItem, LoopOK, loop
  <2>4. RestOK'
    BY <1>0, <1>11, <2>1 DEF FreeItem, RestOK
  <2> QED
    BY <2>2, <2>3, <2>4, TypePartsNext
<1>12. CASE FreeTable
  <2>1. UNCHANGED table
    BY <1>12 DEF FreeTable
  <2>2. LoopOK'
    BY <1>0, <1>12 DEF FreeTable, LoopOK, loop
  <2>3. RestOK'
    BY <1>0, <1>12 DEF FreeTable, RestOK, Ends, table
  <2> QED
    BY <1>t, <2>1, <2>2, <2>3, TypePartsNext
<1>13. CASE UNCHANGED vars
  <2>1. UNCHANGED <<table, loop, pc, snapshot, freed>>
    BY <1>13 DEF vars, table, loop
  <2>2. LoopOK'
    BY <1>0, <2>1 DEF LoopOK, loop, table
  <2>3. RestOK'
    BY <1>0, <2>1 DEF RestOK, table
  <2> QED
    BY <1>t, <2>1, <2>2, <2>3, TypePartsNext
<1> QED
  BY Zenon, <1>1, <1>2, <1>3, <1>4, <1>5, <1>6, <1>7, <1>8, <1>9, <1>10, <1>11, <1>12, <1>13
     DEF Next, Sorting, Releasing, Insert, InsertFirst, PushNoMemory, Ended

\* Indices, lengths and the cells in use have their types, for every set of items
\* and every length, and the indices of tbl_sort stay inside (table.c).
THEOREM TypeCorrect == Spec => []TypeOK
<1>1. Init => TypeOK
  BY TypeInit
<1>2. TypeOK /\ [Next]_vars => TypeOK'
  BY TypeStep
<1> QED
  BY <1>1, <1>2, PTL DEF Spec
-----------------------------------------------------------------------------
(***************************************************************************)
(* Sorting.                                                                *)
(***************************************************************************)

\* Elements 0 to m of a are in order, the one in cell h left out.
InOrderBut(a, h, m) ==
    \A k, l \in 0..m \ { h } : k < l => Key[a[k]] <= Key[a[l]]

\* What lies behind the hole h is greater than d, up to element m.
AboveFrom(a, h, m, d) == \A k \in (h + 1)..m : Key[a[k]] > Key[d]

\* The keys of the elements are integers.
LEMMA Keys ==
    ASSUME NEW a, NEW n, NEW c, Holds(a, n, c), NEW m \in Int, m < c
    PROVE  \A k \in 0..m : k \in Cells(n) /\ a[k] \in Data /\ Key[a[k]] \in Int
<1> SUFFICES ASSUME NEW k \in 0..m
             PROVE  k \in Cells(n) /\ a[k] \in Data /\ Key[a[k]] \in Int
  OBVIOUS
<1>1. k \in Cells(n) /\ k \in Cells(c)
  BY DEF Cells, Holds
<1>2. a[k] \in Data
  BY <1>1 DEF Holds
<1> QED
  BY <1>1, <1>2, TableAssumption

\* One turn of the inner loop moves the hole down by one cell.
LEMMA ShiftKeepsOrder ==
    ASSUME NEW a, NEW n, NEW c, Holds(a, n, c), NEW m \in Nat, m < c,
           NEW j \in 0..(m - 1), NEW d \in Data,
           InOrderBut(a, j + 1, m), AboveFrom(a, j + 1, m, d), Key[a[j]] > Key[d]
    PROVE  /\ InOrderBut([a EXCEPT ![j + 1] = a[j]], j, m)
           /\ AboveFrom([a EXCEPT ![j + 1] = a[j]], j, m, d)
<1> DEFINE b == [a EXCEPT ![j + 1] = a[j]]
<1>1. \A k \in 0..m : k \in Cells(n) /\ a[k] \in Data /\ Key[a[k]] \in Int
  BY Keys
<1>2. j \in 0..m /\ j + 1 \in 0..m /\ j # j + 1
  OBVIOUS
<1>3. b[j + 1] = a[j] /\ \A k \in 0..m \ { j + 1 } : b[k] = a[k]
  BY <1>1, <1>2 DEF Holds
<1> HIDE DEF b
<1>4. InOrderBut(b, j, m)
  <2> SUFFICES ASSUME NEW k \in 0..m \ { j }, NEW l \in 0..m \ { j }, k < l
               PROVE  Key[b[k]] <= Key[b[l]]
    BY DEF InOrderBut
  <2>1. CASE k = j + 1
    BY <1>1, <1>2, <1>3, <2>1 DEF InOrderBut
  <2>2. CASE l = j + 1
    BY <1>1, <1>2, <1>3, <2>2 DEF InOrderBut
  <2>3. CASE k # j + 1 /\ l # j + 1
    BY <1>3, <2>3 DEF InOrderBut
  <2> QED
    BY <2>1, <2>2, <2>3
<1>5. AboveFrom(b, j, m, d)
  <2> SUFFICES ASSUME NEW k \in (j + 1)..m PROVE Key[b[k]] > Key[d]
    BY DEF AboveFrom
  <2>1. CASE k = j + 1
    BY <1>3, <2>1
  <2>2. CASE k # j + 1
    BY <1>3, <2>2 DEF AboveFrom
  <2> QED
    BY <2>1, <2>2
<1> QED
  BY <1>4, <1>5 DEF b

\* The element that fills the hole is in order.
LEMMA PlaceKeepsOrder ==
    ASSUME NEW a, NEW n, NEW c, Holds(a, n, c), NEW m \in Nat, m < c,
           NEW j \in Int, -1 <= j, j < m, NEW d \in Data,
           InOrderBut(a, j + 1, m), AboveFrom(a, j + 1, m, d),
           j >= 0 => ~(Key[a[j]] > Key[d])
    PROVE  \A k, l \in 0..m :
             k < l => Key[[a EXCEPT ![j + 1] = d][k]] <= Key[[a EXCEPT ![j + 1] = d][l]]
<1> DEFINE b == [a EXCEPT ![j + 1] = d]
<1>1. \A k \in 0..m : k \in Cells(n) /\ a[k] \in Data /\ Key[a[k]] \in Int
  BY Keys
<1>2. j + 1 \in 0..m /\ Key[d] \in Int
  BY TableAssumption
<1>3. b[j + 1] = d /\ \A k \in 0..m \ { j + 1 } : b[k] = a[k]
  BY <1>1, <1>2 DEF Holds
<1> HIDE DEF b
<1> SUFFICES ASSUME NEW k \in 0..m, NEW l \in 0..m, k < l
             PROVE  Key[b[k]] <= Key[b[l]]
  BY DEF b
<1>4. CASE k = j + 1
  <2>1. l \in (j + 1 + 1)..m /\ l \in 0..m \ { j + 1 }
    BY <1>4
  <2>2. Key[a[l]] > Key[d]
    BY <2>1 DEF AboveFrom
  <2> QED
    BY <1>1, <1>2, <1>3, <1>4, <2>1, <2>2
<1>5. CASE l = j + 1
  <2>1. j \in 0..m /\ k <= j /\ j \in 0..m \ { j + 1 } /\ k \in 0..m \ { j + 1 }
    BY <1>5
  <2>2. Key[a[k]] <= Key[a[j]]
    BY <1>1, <2>1 DEF InOrderBut
  <2>3. Key[a[j]] <= Key[d]
    BY <1>1, <1>2, <2>1
  <2> QED
    BY <1>1, <1>2, <1>3, <1>5, <2>1, <2>2, <2>3
<1>6. CASE k # j + 1 /\ l # j + 1
  BY <1>3, <1>6 DEF InOrderBut
<1> QED
  BY <1>4, <1>5, <1>6

\* What PartlySorted says of the two loops, and nothing else.
LEMMA SortedParts ==
    ASSUME TypeOK
    PROVE  PartlySorted <=>
             /\ pc = "outer" => \A k, l \in 0..(o - 1) :
                                  k < l /\ l < cnt => Key[arr[k]] <= Key[arr[l]]
             /\ pc = "inner" => InOrderBut(arr, i + 1, o) /\ AboveFrom(arr, i + 1, o, tmp)
<1>1. i + 1 + 1 = i + 2
  BY DEF TypeOK
<1> QED
  BY <1>1 DEF PartlySorted, InOrderBut, AboveFrom, Ordered

LEMMA SortedPartsNext ==
    ASSUME TypeOK'
    PROVE  PartlySorted' <=>
             /\ pc' = "outer" => \A k, l \in 0..(o' - 1) :
                                   k < l /\ l < cnt' => Key[arr'[k]] <= Key[arr'[l]]
             /\ pc' = "inner" => /\ InOrderBut(arr', i' + 1, o')
                                 /\ AboveFrom(arr', i' + 1, o', tmp')
<1>1. i' + 1 + 1 = i' + 2
  BY DEF TypeOK
<1> QED
  BY <1>1 DEF PartlySorted, InOrderBut, AboveFrom, Ordered

LEMMA SortedStep == TypeOK /\ TypeOK' /\ PartlySorted /\ [Next]_vars => PartlySorted'
<1> SUFFICES ASSUME TypeOK, TypeOK', PartlySorted, [Next]_vars PROVE PartlySorted'
  OBVIOUS
<1>0. Holds(arr, len, cnt) /\ LoopOK
  BY TypeParts
<1>1. CASE tbl_sort
  <2>1. o' = 1 /\ pc' = "outer"
    BY <1>1 DEF tbl_sort
  <2> QED
    BY <2>1, SortedPartsNext
<1>2. CASE TakeNext
  <2>1. UNCHANGED <<table, o>> /\ i' = o - 1 /\ pc' = "inner" /\ pc = "outer" /\ o < cnt
    BY <1>2 DEF TakeNext
  <2>2. o \in Nat /\ i' + 1 = o
    BY <1>0, <2>1 DEF LoopOK
  <2>3. \A k, l \in 0..(o - 1) : k < l /\ l < cnt => Key[arr[k]] <= Key[arr[l]]
    BY <2>1, SortedParts
  <2>4. \A k \in 0..o \ { o } : k \in 0..(o - 1) /\ k < cnt
    BY <2>1, <2>2 DEF TypeOK
  <2>5. InOrderBut(arr, o, o)
    BY <2>3, <2>4 DEF InOrderBut
  <2>6. AboveFrom(arr, o, o, tmp')
    BY <2>2 DEF AboveFrom
  <2>7. arr' = arr /\ o' = o
    BY <2>1 DEF table
  <2> QED
    BY <2>1, <2>2, <2>5, <2>6, <2>7, SortedPartsNext
<1>3. CASE Shift
  <2>1. pc = "inner" /\ pc' = "inner" /\ UNCHANGED <<o, tmp>> /\ i' = i - 1 /\ i >= 0
    BY <1>3 DEF Shift
  <2>2. arr' = [arr EXCEPT ![i + 1] = arr[i]] /\ Key[arr[i]] > Key[tmp]
    BY <1>3 DEF Shift, MoveUp, Greater
  <2>3. o \in Nat /\ o < cnt /\ i \in 0..(o - 1) /\ tmp \in Data
    BY <1>0, <2>1 DEF LoopOK
  <2>4. InOrderBut(arr, i + 1, o) /\ AboveFrom(arr, i + 1, o, tmp)
    BY <2>1, SortedParts
  <2>5. InOrderBut(arr', i, o) /\ AboveFrom(arr', i, o, tmp)
    BY <1>0, <2>2, <2>3, <2>4, ShiftKeepsOrder
  <2>6. i' + 1 = i
    BY <2>1, <2>3
  <2> QED
    BY <2>1, <2>5, <2>6, SortedPartsNext
<1>4. CASE pc = "inner" /\ Place /\ (i >= 0 => ~Greater(arr[i], tmp))
  <2>1. pc' = "outer" /\ o' = o + 1 /\ arr' = [arr EXCEPT ![i + 1] = tmp]
    BY <1>4 DEF Place, NextElement
  <2>2. o \in Nat /\ o < cnt /\ i \in Int /\ -1 <= i /\ i < o /\ tmp \in Data
    BY <1>0, <1>4 DEF LoopOK
  <2>3. InOrderBut(arr, i + 1, o) /\ AboveFrom(arr, i + 1, o, tmp)
    BY <1>4, SortedParts
  <2>4. i >= 0 => ~(Key[arr[i]] > Key[tmp])
    BY <1>4 DEF Greater
  <2>5. \A k, l \in 0..o : k < l => Key[arr'[k]] <= Key[arr'[l]]
    BY <1>0, <2>1, <2>2, <2>3, <2>4, PlaceKeepsOrder
  <2>6. o' - 1 = o
    BY <2>1, <2>2
  <2> QED
    BY <2>1, <2>5, <2>6, SortedPartsNext
<1>5. CASE pc' \notin { "outer", "inner" }
  BY <1>5, SortedPartsNext
<1>6. CASE UNCHANGED vars
  BY <1>6 DEF vars, PartlySorted, Ordered
<1>7. ASSUME tbl_push \/ tbl_alloc \/ AllocNoMemory \/ AllocNoArray
      PROVE  pc' \notin { "outer", "inner" }
  BY <1>7 DEF tbl_push, tbl_alloc, AllocNoMemory, AllocNoArray
<1>8. ASSUME SortDone \/ tbl_dealloc \/ Releasing
      PROVE  pc' \notin { "outer", "inner" }
  BY <1>8 DEF SortDone, tbl_dealloc, Releasing, FreeItem, FreeTable
<1>9. ASSUME Insert PROVE pc = "inner" /\ Place /\ (i >= 0 => ~Greater(arr[i], tmp))
  BY <1>9 DEF Insert
<1>10. ASSUME InsertFirst
       PROVE  \/ pc = "inner" /\ Place /\ (i >= 0 => ~Greater(arr[i], tmp))
              \/ pc' \notin { "outer", "inner" }
  <2>1. i \in Int /\ i < 0 /\ pc = "inner"
    BY <1>0, <1>10 DEF InsertFirst, LoopOK
  <2>2. ~(i >= 0)
    BY <2>1
  <2>3. Place \/ pc' = "wild_read"
    BY <1>10 DEF InsertFirst
  <2> QED
    BY <2>1, <2>2, <2>3
<1> QED
  BY Zenon, <1>1, <1>2, <1>3, <1>4, <1>5, <1>6, <1>7, <1>8, <1>9, <1>10
     DEF Next, Sorting, PushNoMemory, Ended

\* At every moment of a sort what was visited is in order around the hole that the
\* element to be inserted left, whatever the keys are (tbl_sort).
THEOREM SortedCorrect == Spec => []PartlySorted
<1>1. Init => PartlySorted
  BY DEF Init, PartlySorted
<1>2. TypeOK /\ TypeOK' /\ PartlySorted /\ [Next]_vars => PartlySorted'
  BY SortedStep
<1> QED
  BY <1>1, <1>2, TypeCorrect, PTL DEF Spec

-----------------------------------------------------------------------------
(***************************************************************************)
(* Nothing is lost.                                                        *)
(***************************************************************************)

\* The elements of a in the first c cells, with d instead of what is in cell h.
ElementsWith(a, c, h, d) == { a[k] : k \in Cells(c) \ { h } } \cup { d }

Elements(a, c) == { a[k] : k \in Cells(c) }

\* Taking the element out of its cell leaves a hole there.
LEMMA TakeKeeps ==
    ASSUME NEW a, NEW c, NEW h \in Cells(c)
    PROVE  ElementsWith(a, c, h, a[h]) = Elements(a, c)
BY DEF ElementsWith, Elements

\* Moving an element up moves the hole down.
LEMMA ShiftKeeps ==
    ASSUME NEW a, NEW n, NEW c, Holds(a, n, c), NEW j \in Nat, NEW h \in Nat,
           h = j + 1, h < c, NEW d, NEW e, e = a[j]
    PROVE  ElementsWith([a EXCEPT ![h] = e], c, j, d) = ElementsWith(a, c, h, d)
<1> DEFINE b == [a EXCEPT ![h] = e]
<1>1. j \in Cells(c) /\ h \in Cells(c) /\ j # h /\ Cells(c) \subseteq Cells(n)
  BY DEF Cells, Holds
<1>2. b[h] = a[j] /\ \A k \in Cells(c) \ { h } : b[k] = a[k]
  BY <1>1 DEF Holds
<1> HIDE DEF b
<1>3. \A k \in Cells(c) \ { j } : \E l \in Cells(c) \ { h } : b[k] = a[l]
  <2> TAKE k \in Cells(c) \ { j }
  <2>1. CASE k = h
    BY <1>1, <1>2, <2>1
  <2>2. CASE k # h
    BY <1>2, <2>2
  <2> QED
    BY <2>1, <2>2
<1>4. \A l \in Cells(c) \ { h } : \E k \in Cells(c) \ { j } : b[k] = a[l]
  <2> TAKE l \in Cells(c) \ { h }
  <2>1. CASE l = j
    BY <1>1, <1>2, <2>1
  <2>2. CASE l # j
    BY <1>2, <2>2
  <2> QED
    BY <2>1, <2>2
<1> QED
  BY <1>3, <1>4 DEF ElementsWith, b

\* Placing the element fills the hole.
LEMMA PlaceKeeps ==
    ASSUME NEW a, NEW n, NEW c, Holds(a, n, c), NEW h \in Cells(c), NEW d
    PROVE  Elements([a EXCEPT ![h] = d], c) = ElementsWith(a, c, h, d)
<1> DEFINE b == [a EXCEPT ![h] = d]
<1>1. Cells(c) \subseteq Cells(n)
  BY DEF Cells, Holds
<1>2. b[h] = d /\ \A k \in Cells(c) \ { h } : b[k] = a[k]
  BY <1>1 DEF Holds
<1> HIDE DEF b
<1>3. Elements(b, c) = ElementsWith(b, c, h, d)
  BY <1>2, TakeKeeps
<1>4. ElementsWith(b, c, h, d) = ElementsWith(a, c, h, d)
  BY <1>2 DEF ElementsWith
<1> QED
  BY <1>3, <1>4 DEF b

\* The snapshot of a table has the elements of its cells in use.
LEMMA SnapshotElements ==
    ASSUME Holds(arr, len, cnt)
    PROVE  Elements(arr, cnt) = { Contents[k] : k \in 1..cnt }
<1>1. \A k \in Cells(cnt) : k + 1 \in 1..cnt /\ Contents[k + 1] = arr[k]
  BY DEF Cells, Contents, Holds
<1>2. \A k \in 1..cnt : k - 1 \in Cells(cnt) /\ Contents[k] = arr[k - 1]
  BY DEF Cells, Contents, Holds
<1> QED
  BY <1>1, <1>2 DEF Elements

LEMMA LostParts ==
    NothingLost <=>
      /\ pc = "outer" => Elements(arr, cnt) = { snapshot[k] : k \in 1..cnt }
      /\ pc = "inner" => ElementsWith(arr, cnt, i + 1, tmp) = { snapshot[k] : k \in 1..cnt }
BY DEF NothingLost, Elements, ElementsWith

LEMMA LostPartsNext ==
    NothingLost' <=>
      /\ pc' = "outer" => Elements(arr', cnt') = { snapshot'[k] : k \in 1..cnt' }
      /\ pc' = "inner" => ElementsWith(arr', cnt', i' + 1, tmp')
                            = { snapshot'[k] : k \in 1..cnt' }
BY DEF NothingLost, Elements, ElementsWith

LEMMA LostStep == TypeOK /\ NothingLost /\ [Next]_vars => NothingLost'
<1> SUFFICES ASSUME TypeOK, NothingLost, [Next]_vars PROVE NothingLost'
  OBVIOUS
<1>0. Holds(arr, len, cnt) /\ LoopOK
  BY TypeParts
<1>1. CASE tbl_sort
  <2>1. arr' = arr /\ cnt' = cnt /\ snapshot' = Contents /\ pc' = "outer"
    BY <1>1 DEF tbl_sort, table
  <2>2. Elements(arr, cnt) = { Contents[k] : k \in 1..cnt }
    BY <1>0, SnapshotElements
  <2> QED
    BY <2>1, <2>2, LostPartsNext
<1>2. CASE TakeNext
  <2>1. /\ arr' = arr /\ cnt' = cnt /\ snapshot' = snapshot
        /\ pc = "outer" /\ pc' = "inner" /\ tmp' = arr[o] /\ i' = o - 1
    BY <1>2 DEF TakeNext, table
  <2>2. o \in Cells(cnt) /\ i' + 1 = o
    BY <1>0, <1>2, <2>1 DEF TakeNext, LoopOK, Cells, Holds
  <2>3. ElementsWith(arr, cnt, o, arr[o]) = Elements(arr, cnt)
    BY <2>2, TakeKeeps
  <2> QED
    BY <2>1, <2>2, <2>3, LostParts, LostPartsNext
<1>3. CASE Shift
  <2>1. /\ cnt' = cnt /\ snapshot' = snapshot /\ tmp' = tmp
        /\ pc = "inner" /\ pc' = "inner" /\ i' = i - 1 /\ i >= 0
        /\ arr' = [arr EXCEPT ![i + 1] = arr[i]]
    BY <1>3 DEF Shift, MoveUp
  <2>2. i \in Nat /\ i + 1 \in Nat /\ i + 1 < cnt /\ i' + 1 = i
    BY <1>0, <2>1 DEF LoopOK, Holds
  <2>3. ElementsWith(arr', cnt, i, tmp) = ElementsWith(arr, cnt, i + 1, tmp)
    <3>1. PICK e : e = arr[i]
      OBVIOUS
    <3>2. PICK h \in Nat : h = i + 1 /\ h < cnt
      BY <2>2
    <3>3. ElementsWith([arr EXCEPT ![h] = e], cnt, i, tmp) = ElementsWith(arr, cnt, h, tmp)
      BY <1>0, <2>2, <3>1, <3>2, ShiftKeeps
    <3> QED
      BY <2>1, <3>1, <3>2, <3>3
  <2> QED
    BY <2>1, <2>2, <2>3, LostParts, LostPartsNext
<1>4. CASE pc = "inner" /\ Place
  <2>1. /\ cnt' = cnt /\ snapshot' = snapshot /\ pc' = "outer"
        /\ arr' = [arr EXCEPT ![i + 1] = tmp]
    BY <1>4 DEF Place
  <2>2. i + 1 \in Cells(cnt)
    BY <1>0, <1>4 DEF LoopOK, Holds, Cells
  <2>3. Elements(arr', cnt) = ElementsWith(arr, cnt, i + 1, tmp)
    BY <1>0, <2>1, <2>2, PlaceKeeps
  <2> QED
    BY <1>4, <2>1, <2>3, LostParts, LostPartsNext
<1>5. CASE pc' \notin { "outer", "inner" }
  BY <1>5, LostPartsNext
<1>6. CASE UNCHANGED vars
  BY <1>6 DEF vars, NothingLost
<1>7. ASSUME tbl_push \/ tbl_alloc \/ AllocNoMemory \/ AllocNoArray
      PROVE  pc' \notin { "outer", "inner" }
  BY <1>7 DEF tbl_push, tbl_alloc, AllocNoMemory, AllocNoArray
<1>8. ASSUME SortDone \/ tbl_dealloc \/ Releasing
      PROVE  pc' \notin { "outer", "inner" }
  BY <1>8 DEF SortDone, tbl_dealloc, Releasing, FreeItem, FreeTable
<1>9. ASSUME Insert \/ InsertFirst
      PROVE  (pc = "inner" /\ Place) \/ pc' \notin { "outer", "inner" }
  <2>1. pc = "inner" /\ (Place \/ pc' = "wild_read")
    BY <1>9 DEF Insert, InsertFirst
  <2> QED
    BY <2>1
<1> QED
  BY Zenon, <1>1, <1>2, <1>3, <1>4, <1>5, <1>6, <1>7, <1>8, <1>9
     DEF Next, Sorting, PushNoMemory, Ended

\* However often items are moved, the sort keeps all that were in the table
\* (tbl_sort).
THEOREM LostCorrect == Spec => []NothingLost
<1>1. Init => NothingLost
  BY DEF Init, NothingLost
<1>2. TypeOK /\ NothingLost /\ [Next]_vars => NothingLost'
  BY LostStep
<1> QED
  BY <1>1, <1>2, TypeCorrect, PTL DEF Spec

-----------------------------------------------------------------------------
(***************************************************************************)
(* The table implements PointerTable.                                      *)
(***************************************************************************)

\* The array as it is when the element to be inserted is put into the hole.
Filled == IF pc = "inner" THEN [arr EXCEPT ![i + 1] = tmp] ELSE arr

\* a came before b when tbl_sort was called.
Earlier(s, a, b) == \E p, q \in DOMAIN s : p < q /\ s[p] = a /\ s[q] = b

\* Of the first c elements of a those with equal keys are in the order of s.
Stable(a, c, s) ==
    \A k, l \in Cells(c) : k < l /\ Key[a[k]] = Key[a[l]] => Earlier(s, a[k], a[l])

\* What tbl_dealloc has done so far: the items behind c were freed, the
\* last first, if it is known how.
Released(a, c, s, f, known) ==
    /\ c <= Len(s) /\ \A k \in 1..c : a[k - 1] = s[k]
    /\ IF known
       THEN Len(f) = Len(s) - c /\ \A k \in 1..Len(f) : f[k] = s[Len(s) + 1 - k]
       ELSE f = <<>>

RefInv ==
    /\ pc \notin { "dealloc", "gone" } => freed = <<>>
    /\ pc \in { "none", "idle" } => snapshot = <<>>
    /\ pc = "none" => cnt = 0
    /\ pc \in { "outer", "inner" } => Len(snapshot) = cnt /\ Stable(Filled, cnt, snapshot)
    /\ pc = "dealloc" => Released(arr, cnt, snapshot, freed, free_data_fn)

\* The items of the table, of which there are cnt.
LEMMA ContentsProps ==
    ASSUME TypeOK
    PROVE  /\ Contents \in Seq(Data) /\ Len(Contents) = cnt /\ DOMAIN Contents = 1..cnt
           /\ cnt \in Nat
           /\ \A k \in 1..cnt : Contents[k] = arr[k - 1]
           /\ \A k \in Cells(cnt) : k + 1 \in 1..cnt /\ Contents[k + 1] = arr[k]
<1>1. Holds(arr, len, cnt) /\ cnt \in Nat
  BY TypeParts DEF Holds
<1>2. Contents \in Seq(Data)
  BY <1>1, ContentsType
<1>3. DOMAIN Contents = 1..cnt /\ \A k \in 1..cnt : Contents[k] = arr[k - 1]
  BY DEF Contents
<1>4. Len(Contents) = cnt
  BY <1>1, <1>2, <1>3, LenProperties
<1>5. ASSUME NEW k \in Cells(cnt) PROVE k + 1 \in 1..cnt /\ Contents[k + 1] = arr[k]
  <2>1. k + 1 \in 1..cnt /\ (k + 1) - 1 = k
    BY <1>1 DEF Cells
  <2>2. Contents[k + 1] = arr[(k + 1) - 1]
    BY <1>3, <2>1
  <2> QED
    BY <2>1, <2>2
<1> QED
  BY <1>1, <1>2, <1>3, <1>4, <1>5

\* At the beginning of a sort the table is in the order it has.
LEMMA StableAtFirst ==
    ASSUME TypeOK
    PROVE  Stable(arr, cnt, Contents)
<1> SUFFICES ASSUME NEW k \in Cells(cnt), NEW l \in Cells(cnt), k < l
             PROVE  Earlier(Contents, arr[k], arr[l])
  BY DEF Stable
<1>1. /\ k + 1 \in DOMAIN Contents /\ l + 1 \in DOMAIN Contents
      /\ Contents[k + 1] = arr[k] /\ Contents[l + 1] = arr[l]
  BY ContentsProps
<1>2. k + 1 < l + 1
  BY DEF Cells
<1> QED
  BY <1>1, <1>2 DEF Earlier

\* Neighbours with different keys change places.
LEMMA SwapKeepsStable ==
    ASSUME NEW a, NEW b, NEW c \in Nat, NEW s, Stable(a, c, s),
           NEW j \in Nat, j + 1 < c, Key[a[j]] # Key[a[j + 1]],
           b[j] = a[j + 1], b[j + 1] = a[j],
           \A k \in Cells(c) : k # j /\ k # j + 1 => b[k] = a[k]
    PROVE  Stable(b, c, s)
<1> DEFINE from(k) == IF k = j THEN j + 1 ELSE IF k = j + 1 THEN j ELSE k
<1>1. \A k \in Cells(c) : from(k) \in Cells(c) /\ b[k] = a[from(k)]
  BY DEF Cells
<1> SUFFICES ASSUME NEW k \in Cells(c), NEW l \in Cells(c), k < l, Key[b[k]] = Key[b[l]]
             PROVE  Earlier(s, b[k], b[l])
  BY DEF Stable
<1>2. ~(k = j /\ l = j + 1)
  OBVIOUS
<1>3. from(k) < from(l)
  BY <1>2 DEF Cells
<1>4. /\ from(k) \in Cells(c) /\ from(l) \in Cells(c)
      /\ b[k] = a[from(k)] /\ b[l] = a[from(l)]
  BY <1>1
<1> HIDE DEF from
<1> QED
  BY <1>3, <1>4 DEF Stable

LEMMA RefInit == Init => RefInv
  BY DEF Init, RefInv

\* The cells around the hole, and what fills it.
LEMMA HoleCells ==
    ASSUME TypeOK, pc = "inner"
    PROVE  /\ cnt \in Nat /\ i + 1 \in Cells(cnt) /\ Cells(cnt) \subseteq DOMAIN arr
           /\ Filled[i + 1] = tmp /\ \A k \in Cells(cnt) \ { i + 1 } : Filled[k] = arr[k]
<1>1. cnt \in Nat /\ i + 1 \in Cells(cnt) /\ Cells(cnt) \subseteq DOMAIN arr
  BY DEF TypeOK, Cells
<1> QED
  BY <1>1 DEF Filled

LEMMA ShiftKeepsStable ==
    ASSUME TypeOK, TypeOK', Stable(Filled, cnt, snapshot), Shift
    PROVE  Stable(Filled', cnt', snapshot')
<1>1. /\ pc = "inner" /\ pc' = "inner" /\ i' = i - 1 /\ i \in Nat /\ i + 1 < cnt
      /\ cnt' = cnt /\ tmp' = tmp /\ snapshot' = snapshot
      /\ arr' = [arr EXCEPT ![i + 1] = arr[i]] /\ Key[arr[i]] > Key[tmp]
  BY DEF Shift, MoveUp, Greater, TypeOK
<1>2. i' + 1 = i /\ i # i + 1
  BY <1>1
<1>3. /\ cnt \in Nat /\ i + 1 \in Cells(cnt) /\ Cells(cnt) \subseteq DOMAIN arr
      /\ Filled[i + 1] = tmp /\ \A k \in Cells(cnt) \ { i + 1 } : Filled[k] = arr[k]
  BY <1>1, HoleCells
<1>4. i \in Cells(cnt) \ { i + 1 }
  BY <1>1, <1>3 DEF Cells
<1>5. Filled' = [arr' EXCEPT ![i] = tmp]
  BY <1>1, <1>2 DEF Filled
<1>6. /\ arr'[i + 1] = arr[i] /\ DOMAIN arr' = DOMAIN arr
      /\ \A k \in Cells(cnt) \ { i + 1 } : arr'[k] = arr[k]
  BY <1>1, <1>3
<1>7. Filled'[i] = tmp /\ \A k \in Cells(cnt) \ { i } : Filled'[k] = arr'[k]
  BY <1>3, <1>4, <1>5, <1>6
<1>8. Key[Filled[i]] # Key[Filled[i + 1]]
  <2>1. arr[i] \in Data /\ tmp \in Data
    BY <1>1, <1>4 DEF TypeOK
  <2>2. Key[arr[i]] \in Int /\ Key[tmp] \in Int
    BY <2>1, TableAssumption
  <2>3. Key[arr[i]] # Key[tmp]
    BY <1>1, <2>2
  <2> QED
    BY <1>3, <1>4, <2>3
<1>9. /\ Filled'[i] = Filled[i + 1] /\ Filled'[i + 1] = Filled[i]
      /\ \A k \in Cells(cnt) : k # i /\ k # i + 1 => Filled'[k] = Filled[k]
  BY <1>2, <1>3, <1>4, <1>6, <1>7
<1> DEFINE old == Filled
           new == Filled'
<1> HIDE DEF old, new
<1>10. Stable(new, cnt, snapshot)
  BY <1>1, <1>3, <1>8, <1>9, SwapKeepsStable DEF old, new
<1> QED
  BY <1>1, <1>10 DEF new

LEMMA RefSorting == TypeOK /\ TypeOK' /\ RefInv /\ Sorting => RefInv'
<1> SUFFICES ASSUME TypeOK, TypeOK', RefInv, Sorting PROVE RefInv'
  OBVIOUS
<1>1. CASE TakeNext
  <2>1. /\ pc = "outer" /\ pc' = "inner" /\ tmp' = arr[o] /\ i' = o - 1 /\ o < cnt
        /\ UNCHANGED <<arr, cnt, snapshot, freed>>
    BY <1>1 DEF TakeNext, table
  <2>2. i' + 1 = o
    BY <2>1 DEF TypeOK
  <2>3. Filled' = arr /\ Filled = arr
    BY <2>1, <2>2 DEF Filled, TypeOK
  <2>4. Stable(Filled', cnt', snapshot')
    BY <2>1, <2>3 DEF RefInv
  <2> QED
    BY <2>1, <2>4 DEF RefInv
<1>2. CASE SortDone
  BY <1>2 DEF SortDone, RefInv
<1>3. CASE Shift
  <2>1. pc = "inner" /\ pc' = "inner" /\ UNCHANGED <<cnt, snapshot, freed>>
    BY <1>3 DEF Shift
  <2>2. Stable(Filled', cnt', snapshot')
    BY <1>3, <2>1, ShiftKeepsStable DEF RefInv
  <2> QED
    BY <2>1, <2>2 DEF RefInv
<1>4. CASE pc = "inner" /\ Place
  <2>1. /\ pc' = "outer" /\ arr' = [arr EXCEPT ![i + 1] = tmp]
        /\ UNCHANGED <<cnt, snapshot, freed>>
    BY <1>4 DEF Place
  <2>2. Filled' = Filled
    BY <1>4, <2>1 DEF Filled
  <2>3. Stable(Filled', cnt', snapshot')
    BY <1>4, <2>1, <2>2 DEF RefInv
  <2> QED
    BY <1>4, <2>1, <2>3 DEF RefInv
<1>5. CASE InsertFirst /\ ~Place
  BY <1>5 DEF InsertFirst, RefInv
<1> QED
  BY <1>1, <1>2, <1>3, <1>4, <1>5 DEF Sorting, Insert, InsertFirst

LEMMA RefReleasing == TypeOK /\ RefInv /\ Releasing => RefInv'
<1> SUFFICES ASSUME TypeOK, RefInv, Releasing PROVE RefInv'
  OBVIOUS
<1>1. CASE FreeItem
  <2>1. /\ pc = "dealloc" /\ pc' = "dealloc" /\ free_data_fn /\ free_data_fn' = free_data_fn
        /\ cnt > 0 /\ cnt' = cnt - 1 /\ freed' = Append(freed, arr[cnt - 1])
        /\ UNCHANGED <<arr, snapshot>>
    BY <1>1 DEF FreeItem, LastItem
  <2>2. /\ cnt \in Nat /\ Len(snapshot) \in Nat /\ freed \in Seq(Data)
        /\ arr[cnt - 1] \in Data
    BY <2>1, LenProperties DEF TypeOK, Cells
  <2>3. /\ cnt <= Len(snapshot) /\ \A k \in 1..cnt : arr[k - 1] = snapshot[k]
        /\ Len(freed) = Len(snapshot) - cnt
        /\ \A k \in 1..Len(freed) : freed[k] = snapshot[Len(snapshot) + 1 - k]
    BY <2>1 DEF RefInv, Released
  <2>4. /\ Len(freed') = Len(freed) + 1 /\ freed'[Len(freed) + 1] = arr[cnt - 1]
        /\ \A k \in 1..Len(freed) : freed'[k] = freed[k]
    BY <2>1, <2>2, AppendProperties
  <2>5. cnt' <= Len(snapshot) /\ \A k \in 1..cnt' : arr[k - 1] = snapshot[k]
    BY <2>1, <2>2, <2>3
  <2>6. arr[cnt - 1] = snapshot[cnt] /\ Len(snapshot) + 1 - (Len(freed) + 1) = cnt
    BY <2>1, <2>2, <2>3
  <2>7. \A k \in 1..(Len(freed) + 1) : freed'[k] = snapshot[Len(snapshot) + 1 - k]
    <3> SUFFICES ASSUME NEW k \in 1..(Len(freed) + 1)
                 PROVE  freed'[k] = snapshot[Len(snapshot) + 1 - k]
      OBVIOUS
    <3>1. CASE k = Len(freed) + 1
      BY <2>4, <2>6, <3>1
    <3>2. CASE k \in 1..Len(freed)
      BY <2>3, <2>4, <3>2
    <3> QED
      BY <2>2, <2>3, <3>1, <3>2
  <2>8. Len(freed') = Len(snapshot) - cnt'
    BY <2>1, <2>2, <2>3, <2>4
  <2>9. Released(arr, cnt', snapshot, freed', TRUE)
    BY <2>4, <2>5, <2>7, <2>8 DEF Released
  <2>10. free_data_fn = TRUE
    BY <2>1 DEF TypeOK
  <2> QED
    BY <2>1, <2>9, <2>10 DEF RefInv
<1>2. CASE FreeTable
  BY <1>2 DEF FreeTable, RefInv
<1> QED
  BY <1>1, <1>2 DEF Releasing

LEMMA RefNext == TypeOK /\ TypeOK' /\ RefInv /\ [Next]_vars => RefInv'
<1> SUFFICES ASSUME TypeOK, TypeOK', RefInv, [Next]_vars PROVE RefInv'
  OBVIOUS
<1>1. CASE tbl_alloc \/ AllocNoMemory \/ AllocNoArray
  BY <1>1 DEF tbl_alloc, AllocNoMemory, AllocNoArray, RefInv
<1>2. CASE tbl_push
  BY <1>2 DEF tbl_push, RefInv
<1>3. CASE tbl_sort
  <2>1. /\ pc = "idle" /\ pc' = "outer" /\ snapshot' = Contents
        /\ UNCHANGED <<arr, cnt, freed>>
    BY <1>3 DEF tbl_sort, table
  <2>2. Filled' = arr
    BY <2>1 DEF Filled
  <2>3. Len(snapshot') = cnt' /\ Stable(Filled', cnt', snapshot')
    BY <2>1, <2>2, ContentsProps, StableAtFirst
  <2> QED
    BY <2>1, <2>3 DEF RefInv
<1>4. CASE Sorting
  BY <1>4, RefSorting
<1>5. CASE tbl_dealloc
  <2>1. /\ pc = "idle" /\ pc' = "dealloc" /\ snapshot' = Contents
        /\ UNCHANGED <<arr, cnt, freed, free_data_fn>>
    BY <1>5 DEF tbl_dealloc, table
  <2>2. freed' = <<>> /\ Len(<<>>) = 0
    BY <2>1 DEF RefInv
  <2>3. Released(arr, cnt, Contents, <<>>, free_data_fn)
    BY <2>2, ContentsProps DEF Released
  <2> QED
    BY <2>1, <2>2, <2>3 DEF RefInv
<1>6. CASE Releasing
  BY <1>6, RefReleasing
<1>7. CASE UNCHANGED vars
  <2>1. Filled' = Filled
    BY <1>7 DEF vars, Filled
  <2> QED
    BY <1>7, <2>1 DEF vars, RefInv
<1> QED
  BY <1>1, <1>2, <1>3, <1>4, <1>5, <1>6, <1>7 DEF Next, PushNoMemory, Ended

\* What the client sees of the table.
Seen == IF pc \in { "none", "idle" } THEN Contents
        ELSE IF pc = "gone" THEN <<>>
        ELSE snapshot

SeenFreed == IF pc = "gone" THEN freed ELSE <<>>

LEMMA CellOf == \A n \in Int : \A k \in 1..n : k - 1 \in Cells(n)
  BY DEF Cells

\* A push appends.
LEMMA PushAppends ==
    ASSUME TypeOK, TypeOK', tbl_push
    PROVE  \E d \in Data \ { Contents[k] : k \in DOMAIN Contents } :
             Contents' = Append(Contents, d)
<1>1. PICK d \in Data \ { arr[k] : k \in Cells(cnt) } :
        /\ len' = IF Full THEN ExpandedLen ELSE len
        /\ arr' = [k \in Cells(len') |->
                     IF k = cnt THEN d ELSE IF k < len THEN arr[k] ELSE Junk]
  BY DEF tbl_push
<1>2. cnt' = cnt + 1 /\ cnt \in Nat /\ cnt <= len /\ len \in Nat /\ cnt' <= len' /\ len' \in Nat
  BY DEF tbl_push, TypeOK
<1>3. /\ Contents \in Seq(Data) /\ Len(Contents) = cnt /\ DOMAIN Contents = 1..cnt
      /\ \A k \in 1..cnt : Contents[k] = arr[k - 1]
  BY ContentsProps
<1>4. /\ Contents' \in Seq(Data) /\ Len(Contents') = cnt' /\ DOMAIN Contents' = 1..cnt'
      /\ \A k \in 1..cnt' : Contents'[k] = arr'[k - 1]
  <2>1. Holds(arr', len', cnt')
    BY TypePartsNext
  <2>2. Contents' = [k \in 1..cnt' |-> arr'[k - 1]]
    BY DEF Contents
  <2>3. \A k \in 1..cnt' : k - 1 \in Cells(cnt')
    BY <1>2 DEF Cells
  <2>4. \A k \in 1..cnt' : arr'[k - 1] \in Data
    BY <2>1, <2>3 DEF Holds
  <2>5. Contents' \in Seq(Data) /\ Len(Contents') = cnt'
    BY <1>2, <2>2, <2>4
  <2> QED
    BY <2>2, <2>5
<1> DEFINE old == Contents
           new == Contents'
           all == Append(old, d)
<1> HIDE DEF old, new
<1>5. /\ all \in Seq(Data) /\ Len(all) = cnt + 1 /\ all[cnt + 1] = d
      /\ \A k \in 1..cnt : all[k] = old[k]
  BY <1>3, AppendProperties DEF old
<1> HIDE DEF all
<1>6. \A k \in 1..(cnt + 1) : new[k] = all[k]
  <2> SUFFICES ASSUME NEW k \in 1..(cnt + 1) PROVE new[k] = all[k]
    OBVIOUS
  <2>1. k - 1 \in Cells(len') /\ new[k] = arr'[k - 1]
    <3>1. k \in 1..cnt'
      BY <1>2
    <3>2. len' \in Int /\ k \in 1..len'
      BY <1>2, <3>1
    <3>3. k - 1 \in Cells(len')
      BY <3>2, CellOf
    <3> QED
      BY <1>4, <3>1, <3>3 DEF new
  <2>2. CASE k = cnt + 1
    BY <1>1, <1>2, <1>5, <2>1, <2>2
  <2>3. CASE k \in 1..cnt
    BY <1>1, <1>2, <1>3, <1>5, <2>1, <2>3 DEF old
  <2> QED
    BY <1>2, <2>2, <2>3
<1>7. new = all
  BY <1>2, <1>4, <1>5, <1>6, SeqEqual DEF new
<1>8. d \in Data \ { Contents[k] : k \in DOMAIN Contents }
  <2>1. \A k \in DOMAIN Contents : k - 1 \in Cells(cnt) /\ Contents[k] = arr[k - 1]
    BY <1>2, <1>3 DEF Cells
  <2> QED
    BY <1>1, <2>1
<1> QED
  BY <1>7, <1>8 DEF new, all, old

\* What PointerTable asks of a sort of the sequence old.
Sorted(new, old) ==
    /\ Len(new) = Len(old)
    /\ { new[k] : k \in DOMAIN new } = { old[k] : k \in DOMAIN old }
    /\ \A j, k \in DOMAIN new : j < k =>
         \/ Key[new[j]] < Key[new[k]]
         \/ Key[new[j]] = Key[new[k]] /\ Earlier(old, new[j], new[k])

\* Behind the last element the table is in this order.
LEMMA SortIsSort ==
    ASSUME TypeOK, PartlySorted, NothingLost, RefInv, SortDone
    PROVE  Sorted(Contents, snapshot)
<1>1. /\ pc = "outer" /\ o >= cnt /\ o \in Nat /\ cnt \in Nat
      /\ Len(snapshot) = cnt /\ Stable(arr, cnt, snapshot)
  BY DEF SortDone, RefInv, Filled, TypeOK
<1>2. /\ Contents \in Seq(Data) /\ Len(Contents) = cnt /\ DOMAIN Contents = 1..cnt
      /\ \A k \in 1..cnt : Contents[k] = arr[k - 1]
  BY ContentsProps
<1>3. DOMAIN snapshot = 1..cnt
  BY <1>1, LenProperties DEF TypeOK
<1>4. { Contents[k] : k \in 1..cnt } = { snapshot[k] : k \in 1..cnt }
  <2>1. Elements(arr, cnt) = { snapshot[k] : k \in 1..cnt }
    BY <1>1, LostParts
  <2>2. Elements(arr, cnt) = { Contents[k] : k \in 1..cnt }
    BY TypeParts, SnapshotElements
  <2> QED
    BY <2>1, <2>2
<1>5. ASSUME NEW j \in 1..cnt, NEW k \in 1..cnt, j < k
      PROVE  \/ Key[Contents[j]] < Key[Contents[k]]
             \/ /\ Key[Contents[j]] = Key[Contents[k]]
                /\ Earlier(snapshot, Contents[j], Contents[k])
  <2> DEFINE x == j - 1
             y == k - 1
  <2>1. /\ x \in Cells(cnt) /\ y \in Cells(cnt) /\ x < y /\ y < cnt
        /\ x \in 0..(o - 1) /\ y \in 0..(o - 1)
        /\ Contents[j] = arr[x] /\ Contents[k] = arr[y]
    BY <1>1, <1>2, <1>5 DEF Cells
  <2> HIDE DEF x, y
  <2>2. Key[arr[x]] <= Key[arr[y]]
    BY <1>1, <2>1, SortedParts
  <2>3. Key[arr[x]] = Key[arr[y]] => Earlier(snapshot, arr[x], arr[y])
    BY <1>1, <2>1 DEF Stable
  <2>4. Key[arr[x]] \in Int /\ Key[arr[y]] \in Int
    <3>1. arr[x] \in Data /\ arr[y] \in Data
      BY <2>1 DEF TypeOK
    <3> QED
      BY <3>1, TableAssumption
  <2>5. Key[arr[x]] < Key[arr[y]] \/ Key[arr[x]] = Key[arr[y]]
    BY <2>2, <2>4
  <2> QED
    BY <2>1, <2>3, <2>5
<1> QED
  BY <1>1, <1>2, <1>3, <1>4, <1>5 DEF Sorted

LEMMA ClientInit == Init => PointerTable!Init
<1> SUFFICES ASSUME Init PROVE Seen = <<>> /\ SeenFreed = <<>>
  BY DEF PointerTable!Init, Seen, SeenFreed
<1>1. pc = "none" /\ cnt = 0
  BY DEF Init
<1>2. Contents = <<>>
  BY <1>1 DEF Contents
<1> QED
  BY <1>1, <1>2 DEF Seen, SeenFreed

LEMMA ClientSorting ==
    ASSUME TypeOK, PartlySorted, NothingLost, RefInv, Sorting
    PROVE  PointerTable!Next \/ UNCHANGED PointerTable!vars
<1>1. CASE SortDone
  <2>1. pc = "outer" /\ pc' = "idle" /\ Contents' = Contents
    BY <1>1 DEF SortDone, table, Contents
  <2>2. Seen = snapshot /\ Seen' = Contents /\ SeenFreed' = SeenFreed
    BY <2>1 DEF Seen, SeenFreed
  <2>3. Sorted(Contents, snapshot)
    BY <1>1, SortIsSort
  <2>4. Sorted(Seen', Seen)
    BY <2>2, <2>3
  <2>5. PointerTable!Sort
    BY <2>2, <2>4, Zenon DEF PointerTable!Sort, PointerTable!Items, PointerTable!Before,
                             Seen, SeenFreed, Sorted, Earlier
  <2> QED
    BY <2>5 DEF PointerTable!Next
<1>2. CASE ~SortDone
  <2>1. pc \in { "outer", "inner" } /\ pc' \in { "outer", "inner", "wild_read" }
        /\ UNCHANGED <<snapshot, freed>>
    BY <1>2 DEF Sorting, TakeNext, Shift, Insert, InsertFirst, Place
  <2>2. Seen' = Seen /\ SeenFreed' = SeenFreed
    BY <2>1 DEF Seen, SeenFreed
  <2> QED
    BY <2>2 DEF PointerTable!vars, Seen, SeenFreed
<1> QED
  BY <1>1, <1>2

\* tbl_dealloc frees all items in one step, as the client sees it, or none.
LEMMA ClientReleasing ==
    ASSUME TypeOK, RefInv, Releasing
    PROVE  PointerTable!Next \/ UNCHANGED PointerTable!vars
<1>1. CASE FreeItem
  <2>1. pc = "dealloc" /\ pc' = "dealloc" /\ snapshot' = snapshot
    BY <1>1 DEF FreeItem
  <2>2. Seen' = Seen /\ SeenFreed' = SeenFreed
    BY <2>1 DEF Seen, SeenFreed
  <2> QED
    BY <2>2 DEF PointerTable!vars, Seen, SeenFreed
<1>2. CASE FreeTable
  <2>1. /\ pc = "dealloc" /\ pc' = "gone" /\ freed' = freed /\ (~free_data_fn \/ cnt = 0)
        /\ Released(arr, cnt, snapshot, freed, free_data_fn)
    BY <1>2 DEF FreeTable, RefInv
  <2>2. Seen = snapshot /\ Seen' = <<>> /\ SeenFreed = <<>> /\ SeenFreed' = freed
    BY <2>1 DEF Seen, SeenFreed
  <2>3. freed = <<>> \/ freed = [k \in DOMAIN snapshot |-> snapshot[Len(snapshot) + 1 - k]]
    <3>1. CASE free_data_fn
      <4>1. /\ Len(freed) = Len(snapshot)
            /\ \A k \in 1..Len(freed) : freed[k] = snapshot[Len(snapshot) + 1 - k]
        BY <2>1, <3>1, LenProperties DEF Released, TypeOK
      <4>2. /\ DOMAIN freed = 1..Len(freed) /\ DOMAIN snapshot = 1..Len(snapshot)
            /\ freed = [k \in DOMAIN freed |-> freed[k]]
        BY LenProperties DEF TypeOK
      <4> QED
        BY <4>1, <4>2
    <3>2. CASE ~free_data_fn
      BY <2>1, <3>2 DEF Released
    <3> QED
      BY <3>1, <3>2
  <2>4. PointerTable!Release
    BY <2>2, <2>3 DEF PointerTable!Release, Seen, SeenFreed
  <2> QED
    BY <2>4 DEF PointerTable!Next
<1> QED
  BY <1>1, <1>2 DEF Releasing

LEMMA ClientNext ==
    ASSUME TypeOK, TypeOK', PartlySorted, NothingLost, RefInv, [Next]_vars
    PROVE  PointerTable!Next \/ UNCHANGED PointerTable!vars
<1>1. ASSUME Seen' = Seen, SeenFreed' = SeenFreed PROVE UNCHANGED PointerTable!vars
  BY <1>1 DEF PointerTable!vars, Seen, SeenFreed
<1>2. CASE tbl_alloc \/ AllocNoMemory \/ AllocNoArray
  <2>1. pc = "none" /\ pc' \in { "idle", "null", "dangling" } /\ cnt = 0 /\ cnt' = 0
        /\ snapshot = <<>> /\ snapshot' = <<>>
    BY <1>2 DEF tbl_alloc, AllocNoMemory, AllocNoArray, RefInv, table
  <2>2. Contents = <<>> /\ Contents' = <<>>
    BY <2>1 DEF Contents
  <2>3. Seen' = Seen /\ SeenFreed' = SeenFreed
    BY <2>1, <2>2 DEF Seen, SeenFreed
  <2> QED
    BY <1>1, <2>3
<1>3. CASE tbl_push
  <2>1. pc = "idle" /\ pc' = "idle"
    BY <1>3 DEF tbl_push
  <2>2. Seen = Contents /\ Seen' = Contents' /\ SeenFreed' = SeenFreed
    BY <2>1 DEF Seen, SeenFreed
  <2>3. \E d \in Data \ { Contents[k] : k \in DOMAIN Contents } :
          Contents' = Append(Contents, d)
    BY <1>3, PushAppends
  <2>4. PointerTable!Push
    BY <2>2, <2>3 DEF PointerTable!Push, PointerTable!Items, Seen, SeenFreed
  <2> QED
    BY <2>4 DEF PointerTable!Next
<1>4. CASE tbl_sort \/ tbl_dealloc
  <2>1. pc = "idle" /\ pc' \in { "outer", "dealloc" } /\ snapshot' = Contents
    BY <1>4 DEF tbl_sort, tbl_dealloc
  <2>2. Seen' = Seen /\ SeenFreed' = SeenFreed
    BY <2>1 DEF Seen, SeenFreed
  <2> QED
    BY <1>1, <2>2
<1>5. CASE Sorting
  BY <1>5, ClientSorting
<1>6. CASE Releasing
  BY <1>6, ClientReleasing
<1>7. CASE UNCHANGED vars
  <2>1. Contents' = Contents /\ UNCHANGED <<pc, snapshot, freed>>
    BY <1>7 DEF vars, Contents
  <2>2. Seen' = Seen /\ SeenFreed' = SeenFreed
    BY <2>1 DEF Seen, SeenFreed
  <2> QED
    BY <1>1, <2>2
<1> QED
  BY <1>2, <1>3, <1>4, <1>5, <1>6, <1>7 DEF Next, PushNoMemory, Ended

\* What the client does not see of pushing, sorting and deallocating, item by item,
\* it need not know: items are appended, sorted so that equal keys stay in their
\* order, and released from the last to the first (table.c, table.h).
THEOREM PointerTableCorrect == Spec => IsPointerTable
<1>1. RefInv /\ TypeOK /\ TypeOK' /\ [Next]_vars => RefInv'
  BY RefNext
<1>2. Spec => []RefInv
  BY <1>1, RefInit, TypeCorrect, PTL DEF Spec
<1>3. TypeOK /\ TypeOK' /\ PartlySorted /\ NothingLost /\ RefInv /\ [Next]_vars
        => [PointerTable!Next]_(PointerTable!vars)
  BY ClientNext
<1> QED
  BY <1>2, <1>3, ClientInit, TypeCorrect, SortedCorrect, LostCorrect, PTL
     DEF Spec, IsPointerTable, PointerTable!Spec
=============================================================================
