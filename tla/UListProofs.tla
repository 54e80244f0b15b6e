----------------------------- MODULE UListProofs -----------------------------
(***************************************************************************)
(* Proofs about the unrolled list for every size of a record, every number *)
(* of items and every order of the calls: chain, cursor and counters stay  *)
(* together, deallocation frees each item once, and to its clients the     *)
(* list is a sequence (AppendList).                                        *)
(***************************************************************************)
EXTENDS UList, SequenceTheorems, TLAPS

\* The slots that item_cnt counts hold items.
Filled == \A r \in Records : \A s \in 0..(item_cnt[r] - 1) : arr[r][s] \in Data

\* The items in the first k records, when all but the last of them are full.
CountTo(k) == IF k = 0 THEN 0 ELSE (k - 1) * arr_size + item_cnt[k]

\* The records that ulist_dealloc has freed.
Freed == IF cur_rec = NULL THEN Len(next) ELSE cur_rec - 1

\* What ulist_dealloc has done so far.
FreedOK ==
    /\ Alive => released = <<>>
    /\ ~Alive =>
        /\ rec_cnt = Len(next) - Freed
        /\ cnt = CountTo(Len(next)) - CountTo(Freed)
        /\ Len(released) = CountTo(Freed)
        /\ \A i \in 1..Len(released) : released[i] = arr[Quot(i - 1) + 1][Rem(i - 1)]
    /\ pc = "gone" => cur_rec = NULL

Inv == TypeOK /\ ChainOK /\ CursorOK /\ Filled /\ FreedOK

-----------------------------------------------------------------------------
(***************************************************************************)
(* Division by arr_size.                                                   *)
(***************************************************************************)

\* The two results of div().
LEMMA DivMod ==
    ASSUME NEW n \in Nat
    PROVE  /\ Quot(n) \in Nat /\ Rem(n) \in 0..(arr_size - 1)
           /\ n = Quot(n) * arr_size + Rem(n)
  BY SizeAssumption DEF Quot, Rem

\* What is a record further on is at least arr_size further on.
LEMMA Times ==
    ASSUME NEW k \in Nat, NEW l \in Nat, k < l
    PROVE  k * arr_size \in Nat /\ k * arr_size + arr_size <= l * arr_size
  BY SizeAssumption

\* div() finds record and slot of a place.
LEMMA Place ==
    ASSUME NEW k \in Nat, NEW s \in 0..(arr_size - 1)
    PROVE  Quot(k * arr_size + s) = k /\ Rem(k * arr_size + s) = s
<1> DEFINE n == k * arr_size + s
<1>1. n \in Nat /\ k * arr_size \in Nat
  BY SizeAssumption
<1>2. Quot(n) \in Nat /\ Rem(n) \in 0..(arr_size - 1) /\ n = Quot(n) * arr_size + Rem(n)
  BY <1>1, DivMod
<1> HIDE DEF n
<1>3. ~(Quot(n) < k)
  <2>1. Quot(n) < k => Quot(n) * arr_size + arr_size <= k * arr_size
    BY <1>2, Times
  <2> QED
    BY <1>1, <1>2, <2>1, SizeAssumption DEF n
<1>4. ~(k < Quot(n))
  <2>1. k < Quot(n) => k * arr_size + arr_size <= Quot(n) * arr_size
    BY <1>2, Times
  <2> QED
    BY <1>1, <1>2, <2>1, SizeAssumption DEF n
<1>5. Quot(n) = k
  BY <1>2, <1>3, <1>4
<1> QED
  BY <1>1, <1>2, <1>5, SizeAssumption DEF n
\* What lies below a place in the chain.
LEMMA Below ==
    ASSUME NEW k \in Nat, NEW l \in Nat, NEW n \in Nat, k <= l, l < n
    PROVE  k + 1 \in 1..n
  OBVIOUS

\* The places of two sequences that are joined.
LEMMA Joined ==
    ASSUME NEW S, NEW s \in Seq(S), NEW t \in Seq(S)
    PROVE  /\ s \o t \in Seq(S) /\ Len(s \o t) = Len(s) + Len(t)
           /\ \A i \in 1..Len(s) : (s \o t)[i] = s[i]
           /\ \A i \in 1..Len(t) : (s \o t)[Len(s) + i] = t[i]
<1>1. Len(s) \in Nat /\ Len(t) \in Nat
  OBVIOUS
<1>2. /\ s \o t \in Seq(S) /\ Len(s \o t) = Len(s) + Len(t)
      /\ \A i \in 1..(Len(s) + Len(t)) :
            (s \o t)[i] = IF i <= Len(s) THEN s[i] ELSE t[i - Len(s)]
  BY ConcatProperties
<1>3. \A i \in 1..Len(s) : (s \o t)[i] = s[i]
  BY <1>1, <1>2
<1>4. ASSUME NEW i \in 1..Len(t) PROVE (s \o t)[Len(s) + i] = t[i]
  <2>1. /\ Len(s) + i \in 1..(Len(s) + Len(t)) /\ ~(Len(s) + i <= Len(s))
        /\ (Len(s) + i) - Len(s) = i
    BY <1>1
  <2> QED
    BY <1>2, <2>1
<1> QED
  BY <1>2, <1>3, <1>4

-----------------------------------------------------------------------------
(***************************************************************************)
(* The chain.                                                              *)
(***************************************************************************)

\* The counters of a chain that has a record.
LEMMA Counted ==
    ASSUME TypeOK, ChainOK, Alive, Len(next) # 0
    PROVE  /\ Len(next) \in Nat \ { 0 } /\ item_cnt[Len(next)] \in 1..arr_size
           /\ cnt = (Len(next) - 1) * arr_size + item_cnt[Len(next)]
           /\ rec_cnt = Len(next) /\ (Len(next) - 1) * arr_size \in Nat
           /\ (Len(next) - 1) * arr_size + arr_size = Len(next) * arr_size
<1>1. Len(next) \in Nat \ { 0 } /\ Len(item_cnt) = Len(next) /\ item_cnt \in Seq(1..arr_size)
  BY DEF TypeOK
<1>3. item_cnt[Len(next)] \in 1..arr_size
  <2>1. Len(next) \in 1..Len(item_cnt)
    BY <1>1
  <2> QED
    BY <1>1, <2>1, ElementOfSeq
<1>2. cnt = (Len(next) - 1) * arr_size + item_cnt[Len(next)] /\ rec_cnt = Len(next)
  BY DEF ChainOK, Alive
<1>4. (Len(next) - 1) * arr_size \in Nat
      /\ (Len(next) - 1) * arr_size + arr_size = Len(next) * arr_size
  <2> HIDE DEF Records
  <2> QED
    BY <1>1, SizeAssumption
<1> QED
  BY <1>1, <1>2, <1>3, <1>4

\* The item of an index below cnt is in a slot that is filled.
LEMMA InChain ==
    ASSUME TypeOK, ChainOK, Alive, NEW i \in Nat, i < cnt
    PROVE  /\ Quot(i) + 1 \in Records /\ Quot(i) < Len(next)
           /\ Rem(i) \in 0..(item_cnt[Quot(i) + 1] - 1)
<1>1. Len(next) # 0
  BY DEF ChainOK, Alive
<1>2. Quot(i) \in Nat /\ Rem(i) \in 0..(arr_size - 1) /\ i = Quot(i) * arr_size + Rem(i)
  BY DivMod
<1> DEFINE L == Len(next)
           q == Quot(i)
           ic == item_cnt[L]
<1>3. /\ L \in Nat \ { 0 } /\ ic \in 1..arr_size /\ cnt = (L - 1) * arr_size + ic
      /\ (L - 1) * arr_size \in Nat /\ (L - 1) * arr_size + arr_size = L * arr_size
  BY <1>1, Counted
<1>4. \A r \in Records : r < Len(next) => item_cnt[r] = arr_size
  BY DEF ChainOK
<1>5. q < L
  <2>1. L < q => L * arr_size + arr_size <= q * arr_size
    BY <1>2, <1>3, Times
  <2> HIDE DEF L, q, ic
  <2> QED
    BY <1>2, <1>3, <2>1, SizeAssumption DEF q
<1>6. q + 1 \in Records
  BY <1>2, <1>3, <1>5 DEF Records
<1>7. Rem(i) \in 0..(item_cnt[q + 1] - 1)
  <2>1. CASE q + 1 < L
    BY <1>2, <1>4, <1>6, <2>1
  <2>2. CASE q + 1 = L
    <3>1. q * arr_size = (L - 1) * arr_size
      BY <2>2, <1>2, <1>3
    <3>2. Rem(i) < ic
      <4> HIDE DEF L, ic
      <4> QED
        BY <1>2, <1>3, <3>1, SizeAssumption
    <3> QED
      BY <1>2, <1>3, <2>2, <3>2
  <2> QED
    BY <1>2, <1>3, <1>5, <2>1, <2>2
<1> QED
  BY <1>5, <1>6, <1>7

\* Where the next item goes: into the last record, or behind it when that is full.
LEMMA AtEnd ==
    ASSUME TypeOK, ChainOK, Alive
    PROVE  /\ Rem(cnt) # 0 => /\ Len(next) # 0 /\ Quot(cnt) + 1 = Len(next)
                              /\ Rem(cnt) = item_cnt[Len(next)]
                              /\ Rem(cnt) \in 1..(arr_size - 1)
           /\ Rem(cnt) = 0 => /\ cnt = Len(next) * arr_size /\ Quot(cnt) = Len(next)
                              /\ Len(next) # 0 => item_cnt[Len(next)] = arr_size
<1>1. CASE Len(next) = 0
  <2>1. cnt = 0 * arr_size + 0 /\ 0 \in 0..(arr_size - 1)
    BY <1>1, SizeAssumption DEF ChainOK, Alive
  <2> QED
    BY <1>1, <2>1, Place, SizeAssumption
<1>2. CASE Len(next) # 0
  <2> DEFINE L == Len(next)
             ic == item_cnt[L]
  <2>1. /\ L \in Nat \ { 0 } /\ ic \in 1..arr_size /\ cnt = (L - 1) * arr_size + ic
        /\ (L - 1) * arr_size \in Nat /\ (L - 1) * arr_size + arr_size = L * arr_size
    BY <1>2, Counted
  <2>2. CASE ic = arr_size
    <3>1. cnt = L * arr_size + 0 /\ 0 \in 0..(arr_size - 1)
      <4> HIDE DEF L, ic
      <4> QED
        BY <2>1, <2>2, SizeAssumption
    <3>2. Quot(cnt) = L /\ Rem(cnt) = 0
      BY <2>1, <3>1, Place
    <3> QED
      BY <1>2, <2>1, <2>2, <3>1, <3>2, SizeAssumption
  <2>3. CASE ic # arr_size
    <3>1. L - 1 \in Nat /\ ic \in 0..(arr_size - 1) /\ ic \in 1..(arr_size - 1)
      BY <2>1, <2>3, SizeAssumption
    <3>2. Quot((L - 1) * arr_size + ic) = L - 1 /\ Rem((L - 1) * arr_size + ic) = ic
      BY <3>1, Place
    <3> QED
      BY <1>2, <2>1, <3>1, <3>2
  <2> QED
    BY <2>2, <2>3
<1> QED
  BY <1>1, <1>2

\* A record in the chain, as the sequences of the heap see it.
LEMMA RecordTypes ==
    ASSUME TypeOK
    PROVE  /\ Len(next) \in Nat /\ Len(arr) = Len(next) /\ Len(item_cnt) = Len(next)
           /\ \A r \in Records : /\ next[r] \in Records \cup { NULL }
                                 /\ arr[r] \in [0..(arr_size - 1) -> Data \cup { NoData }]
                                 /\ item_cnt[r] \in 1..arr_size
<1>1. /\ Len(next) \in Nat /\ Len(arr) = Len(next) /\ Len(item_cnt) = Len(next)
      /\ \A r \in Records : next[r] \in Records \cup { NULL }
  BY DEF TypeOK
<1>2. ASSUME NEW r \in Records
      PROVE  /\ arr[r] \in [0..(arr_size - 1) -> Data \cup { NoData }]
             /\ item_cnt[r] \in 1..arr_size
  <2>1. r \in 1..Len(arr) /\ r \in 1..Len(item_cnt)
    BY <1>1 DEF Records
  <2>2. arr \in Seq([0..(arr_size - 1) -> Data \cup { NoData }])
        /\ item_cnt \in Seq(1..arr_size)
    BY DEF TypeOK
  <2>3. arr[r] \in [0..(arr_size - 1) -> Data \cup { NoData }]
    BY <2>1, <2>2, ElementOfSeq
  <2>4. item_cnt[r] \in 1..arr_size
    BY <2>1, <2>2, ElementOfSeq
  <2> QED
    BY <2>3, <2>4
<1> QED
  BY <1>1, <1>2

-----------------------------------------------------------------------------
(***************************************************************************)
(* The invariant.                                                          *)
(***************************************************************************)
LEMMA InitInv == Init => Inv
<1> SUFFICES ASSUME Init PROVE Inv
  OBVIOUS
<1>1. TypeOK
  BY SizeAssumption DEF Init, TypeOK, Records, NULL
<1>2. Len(next) = 0 /\ Alive /\ Records = {}
  BY DEF Init, Alive, Records
<1> QED
  BY <1>1, <1>2 DEF Init, Inv, ChainOK, CursorOK, Filled, FreedOK, NULL

LEMMA AppendToTailInv ==
    ASSUME Inv, pc = "idle", NEW item \in Data, AppendToTail(item), cnt' = cnt + 1,
           UNCHANGED <<pc, idx, walk, data, released>>
    PROVE  Inv'
<1> DEFINE L == Len(next)
           ic == item_cnt[L]
<1>1. Alive /\ Alive' /\ TypeOK /\ ChainOK /\ CursorOK /\ Filled /\ FreedOK
  BY DEF Inv, Alive
<1>2. L # 0 /\ Quot(cnt) + 1 = L /\ Rem(cnt) = ic /\ ic \in 1..(arr_size - 1)
  BY <1>1, AtEnd DEF AppendToTail
<1>3. tail = L /\ L \in Records /\ L \in Nat
  BY <1>1, <1>2, RecordTypes DEF ChainOK, Records
<1>4. /\ UNCHANGED <<rec_cnt, head, tail, pointer, next>>
      /\ arr' = [arr EXCEPT ![L][ic] = item]
      /\ item_cnt' = [item_cnt EXCEPT ![L] = ic + 1]
  BY <1>2, <1>3 DEF AppendToTail
<1>5. /\ Records' = Records /\ L' = L
      /\ \A r \in Records : r # L => arr'[r] = arr[r] /\ item_cnt'[r] = item_cnt[r]
      /\ item_cnt'[L] = ic + 1 /\ arr'[L] = [arr[L] EXCEPT ![ic] = item]
  <2>1. DOMAIN arr = Records /\ DOMAIN item_cnt = Records
    BY <1>1 DEF TypeOK, Records
  <2> QED
    BY <1>3, <1>4, <2>1 DEF Records
<1>6. item_cnt' \in Seq(1..arr_size) /\ Len(item_cnt') = Len(next')
  <2>1. item_cnt \in Seq(1..arr_size) /\ L \in 1..Len(item_cnt) /\ Len(item_cnt) = Len(next)
    BY <1>1, <1>3, RecordTypes DEF TypeOK, Records
  <2>2. ic + 1 \in 1..arr_size
    BY <1>2, SizeAssumption
  <2> QED
    BY <1>4, <2>1, <2>2, ExceptSeq
<1>7. arr' \in Seq([0..(arr_size - 1) -> Data \cup { NoData }]) /\ Len(arr') = Len(next')
  <2> DEFINE S == [0..(arr_size - 1) -> Data \cup { NoData }]
  <2>1. arr \in Seq(S) /\ Len(arr) = L
    BY <1>1 DEF TypeOK
  <2>2. [arr[L] EXCEPT ![ic] = item] \in S
    BY <1>1, <1>3, RecordTypes
  <2>3. arr' = [arr EXCEPT ![L] = [arr[L] EXCEPT ![ic] = item]]
    BY <1>4
  <2> HIDE DEF S
  <2> QED
    BY <1>3, <1>4, <2>1, <2>2, <2>3, ExceptSeq DEF S, Records
<1>8. TypeOK'
  BY <1>1, <1>4, <1>5, <1>6, <1>7 DEF TypeOK, walk, pointer
<1>9. ChainOK'
  <2>1. cnt + 1 = (L - 1) * arr_size + (ic + 1)
    BY <1>1, <1>2, Counted, SizeAssumption
  <2>2. \A r \in Records : r < L => item_cnt'[r] = arr_size
    BY <1>1, <1>3, <1>5 DEF ChainOK, Records
  <2> QED
    BY <1>1, <1>2, <1>4, <1>5, <2>1, <2>2 DEF ChainOK
<1>10. CursorOK' /\ FreedOK'
  BY <1>1, <1>4 DEF CursorOK, FreedOK, walk, pointer, Alive
<1>11. Filled'
  <2> SUFFICES ASSUME NEW r \in Records, NEW s \in 0..(item_cnt'[r] - 1)
              PROVE  arr'[r][s] \in Data
    BY <1>5 DEF Filled
  <2>1. CASE r # L
    BY <1>1, <1>5, <2>1 DEF Filled
  <2>2. CASE r = L /\ s = ic
    <3>1. arr[L] \in [0..(arr_size - 1) -> Data \cup { NoData }]
      BY <1>1, <1>3, RecordTypes
    <3>2. ic \in 0..(arr_size - 1)
      BY <1>2, SizeAssumption
    <3>3. [arr[L] EXCEPT ![ic] = item][ic] = item
      BY <3>1, <3>2
    <3>4. arr'[L] = [arr[L] EXCEPT ![ic] = item]
      BY <1>5
    <3> QED
      BY <2>2, <3>3, <3>4
  <2>3. CASE r = L /\ s # ic
    <3>1. s \in 0..(ic - 1)
      BY <1>2, <1>5, <2>3, SizeAssumption
    <3>2. arr[L][s] \in Data
      BY <1>1, <1>3, <3>1 DEF Filled
    <3>3. arr[L] \in [0..(arr_size - 1) -> Data \cup { NoData }] /\ s \in 0..(arr_size - 1)
      BY <1>1, <1>2, <1>3, <3>1, RecordTypes, SizeAssumption
    <3>4. [arr[L] EXCEPT ![ic] = item][s] = arr[L][s]
      BY <2>3, <3>3
    <3> QED
      BY <1>5, <2>3, <3>2, <3>4
  <2> QED
    BY <2>1, <2>2, <2>3
<1> QED
  BY <1>8, <1>9, <1>10, <1>11 DEF Inv

LEMMA AppendRecordInv ==
    ASSUME Inv, pc = "idle", NEW item \in Data, AppendRecord(item), cnt' = cnt + 1,
           UNCHANGED <<pc, idx, walk, data, released>>
    PROVE  Inv'
<1> DEFINE L == Len(next)
           rec == Len(next) + 1
           S == [0..(arr_size - 1) -> Data \cup { NoData }]
<1>1. Alive /\ Alive' /\ TypeOK /\ ChainOK /\ CursorOK /\ Filled /\ FreedOK
  BY DEF Inv, Alive
<1>2. /\ cnt = L * arr_size /\ Quot(cnt) = L /\ L \in Nat
      /\ L # 0 => item_cnt[L] = arr_size
  <2>1. Rem(cnt) = 0
    BY DEF AppendRecord
  <2>2. L \in Nat
    BY <1>1, RecordTypes
  <2>3. TypeOK /\ ChainOK /\ Alive
    BY <1>1
  <2> QED
    BY <2>1, <2>2, <2>3, AtEnd
<1>3. /\ next' = Append(Linked(rec), NULL) /\ head' = IF head = NULL THEN rec ELSE head
      /\ tail' = rec /\ last_rec' = rec /\ last_rec_no' = L /\ rec_cnt' = rec_cnt + 1
      /\ arr' = Append(arr, [EmptyRecord EXCEPT ![0] = item])
      /\ item_cnt' = Append(item_cnt, 1)
  BY <1>2 DEF AppendRecord, CursorTo
<1>4. /\ next' \in Seq(Nat) /\ Len(next') = rec
      /\ \A r \in 1..rec : next'[r] = IF r < rec THEN r + 1 ELSE NULL
  <2>1. /\ Linked(rec) \in Seq(Nat) /\ Len(Linked(rec)) = L
        /\ \A r \in 1..L : Linked(rec)[r] = r + 1
    <3>1. CASE L = 0
      BY <1>1, <3>1 DEF Linked, ChainOK, TypeOK
    <3>2. CASE L # 0
      <4>1. head # NULL /\ tail = L /\ L \in 1..Len(next) /\ rec \in Nat
        BY <1>1, <1>2, <3>2 DEF ChainOK, NULL
      <4>2. next \in Seq(Nat) /\ \A r \in 1..L : next[r] = IF r < L THEN r + 1 ELSE NULL
        BY <1>1 DEF TypeOK, ChainOK, Records
      <4>3. Linked(rec) = [next EXCEPT ![L] = rec]
        BY <4>1 DEF Linked
      <4>4. /\ Linked(rec) \in Seq(Nat) /\ Len(Linked(rec)) = L
            /\ \A r \in 1..L : Linked(rec)[r] = IF r = L THEN rec ELSE next[r]
        <5> HIDE DEF L, rec
        <5> QED
          BY <4>1, <4>2, <4>3, ExceptSeq DEF L
      <4> QED
        BY <1>2, <4>2, <4>4
    <3> QED
      BY <3>1, <3>2
  <2>2. NULL \in Nat
    BY DEF NULL
  <2> DEFINE chain == Linked(rec)
  <2>3. /\ Append(chain, NULL) \in Seq(Nat) /\ Len(Append(chain, NULL)) = L + 1
        /\ \A r \in 1..L : Append(chain, NULL)[r] = r + 1
        /\ Append(chain, NULL)[L + 1] = NULL
    <3> HIDE DEF chain, L
    <3> QED
      BY <2>1, <2>2, AppendProperties DEF chain
  <2>4. next' = Append(chain, NULL) /\ rec = L + 1
    BY <1>3
  <2> HIDE DEF chain, L, rec
  <2>5. \A r \in 1..rec : (r \in 1..L /\ r < rec) \/ (r = L + 1 /\ ~(r < rec))
    BY <1>2, <2>4
  <2> QED
    BY <2>3, <2>4, <2>5
<1>5. /\ arr' \in Seq(S) /\ Len(arr') = rec
      /\ \A r \in 1..L : arr'[r] = arr[r]
      /\ arr'[rec][0] = item
  <2>1. EmptyRecord \in S /\ 0 \in 0..(arr_size - 1)
    BY SizeAssumption DEF EmptyRecord
  <2>2. [EmptyRecord EXCEPT ![0] = item] \in S /\ [EmptyRecord EXCEPT ![0] = item][0] = item
    BY <2>1
  <2>3. arr \in Seq(S) /\ Len(arr) = L
    BY <1>1 DEF TypeOK
  <2> HIDE DEF S
  <2> QED
    BY <1>3, <2>2, <2>3, AppendProperties
<1>6. /\ item_cnt' \in Seq(1..arr_size) /\ Len(item_cnt') = rec
      /\ \A r \in 1..L : item_cnt'[r] = item_cnt[r]
      /\ item_cnt'[rec] = 1
  <2>1. item_cnt \in Seq(1..arr_size) /\ Len(item_cnt) = L /\ 1 \in 1..arr_size
    BY <1>1, SizeAssumption DEF TypeOK
  <2> QED
    BY <1>3, <2>1, AppendProperties
<1>7. Records' = 1..rec /\ Records = 1..L /\ rec \in Nat
  BY <1>2, <1>4 DEF Records
<1>8. head' = 1 /\ tail' = rec
  BY <1>1, <1>3 DEF ChainOK, NULL
<1>9. TypeOK'
  <2>1. \A r \in Records' : next'[r] \in Records' \cup { NULL }
    BY <1>2, <1>4, <1>7
  <2>2. /\ cnt' \in Nat /\ rec_cnt' \in Nat /\ last_rec_no' \in Nat
        /\ head' \in Records' /\ tail' \in Records' /\ last_rec' \in Records'
    <3>1. cnt \in Nat /\ rec_cnt \in Nat /\ L # rec
      BY <1>1, <1>2 DEF TypeOK
    <3>2. rec \in Records' /\ 1 \in Records'
      BY <1>2, <1>7
    <3> HIDE DEF L, rec
    <3> QED
      BY <1>2, <1>3, <1>8, <3>1, <3>2
  <2>3. cur_rec' \in Records' \cup { NULL }
    BY <1>1, <1>2, <1>7 DEF TypeOK, walk
  <2> QED
    BY <1>1, <1>4, <1>5, <1>6, <2>1, <2>2, <2>3 DEF TypeOK, walk
<1>10. ChainOK'
  <2>1. rec_cnt' = rec
    BY <1>1, <1>3 DEF ChainOK
  <2>2. cnt' = (rec - 1) * arr_size + item_cnt'[rec] /\ rec # 0
    BY <1>2, <1>6, <1>7, SizeAssumption
  <2>3. \A r \in Records' : r < rec => item_cnt'[r] = arr_size
    BY <1>1, <1>2, <1>6, <1>7 DEF ChainOK
  <2> QED
    BY <1>4, <1>7, <1>8, <2>1, <2>2, <2>3 DEF ChainOK
<1>11. CursorOK' /\ FreedOK'
  BY <1>1, <1>2, <1>3, <1>4 DEF CursorOK, FreedOK, Alive
<1>12. Filled'
  <2> SUFFICES ASSUME NEW r \in 1..rec, NEW s \in 0..(item_cnt'[r] - 1)
              PROVE  arr'[r][s] \in Data
    BY <1>7 DEF Filled
  <2>1. CASE r = rec
    <3>1. s = 0
      BY <1>6, <2>1
    <3> QED
      BY <1>5, <2>1, <3>1
  <2>2. CASE r # rec
    <3>1. r \in 1..L
      BY <1>2, <2>2
    <3> QED
      BY <1>1, <1>5, <1>6, <1>7, <3>1 DEF Filled
  <2> QED
    BY <2>1, <2>2
<1> QED
  BY <1>9, <1>10, <1>11, <1>12 DEF Inv

\* What a step inside ulist_get leaves alone.
LEMMA KeepsList ==
    ASSUME Inv, Alive, Alive', UNCHANGED <<list, heap, released>>
    PROVE  ChainOK' /\ Filled' /\ FreedOK' /\ Records' = Records
  BY DEF Inv, ChainOK, Filled, FreedOK, list, heap, Records, Alive

\* The record in which an index below cnt is, and its item.
LEMMA Fetched ==
    ASSUME Inv, Alive, idx < cnt
    PROVE  /\ Quot(idx) \in Nat /\ Quot(idx) + 1 \in Records /\ Quot(idx) < Len(next)
           /\ arr[Quot(idx) + 1][Rem(idx)] \in Data
           /\ rec_cnt = Len(next) /\ Len(next) \in Nat \ { 0 } /\ tail = Len(next) /\ head = 1
           /\ last_rec = last_rec_no + 1
<1>1. TypeOK /\ ChainOK /\ CursorOK /\ Filled /\ idx \in Nat
  BY DEF Inv, TypeOK
<1>2. Quot(idx) + 1 \in Records /\ Quot(idx) < Len(next)
      /\ Rem(idx) \in 0..(item_cnt[Quot(idx) + 1] - 1) /\ Quot(idx) \in Nat
  BY <1>1, InChain, DivMod
<1>3. Len(next) \in Nat
  BY <1>1, RecordTypes
<1> QED
  BY <1>1, <1>2, <1>3 DEF Filled, ChainOK, CursorOK

LEMMA LookupInv ==
    ASSUME Inv, Lookup
    PROVE  Inv'
<1>1. Alive /\ Alive' /\ UNCHANGED <<list, heap, released, idx>>
  BY DEF Lookup, OutOfRange, SameRecord, TailRecord, StartWalk, Walk, Arrive, Alive, Fetch
<1>2. ChainOK' /\ Filled' /\ FreedOK' /\ Records' = Records
  BY <1>1, KeepsList
<1>3. TypeOK /\ ChainOK /\ CursorOK /\ Quot(idx') = Quot(idx) /\ Len(next) \in Nat
  BY <1>1, RecordTypes DEF Inv
<1>4. CASE OutOfRange
  <2>1. TypeOK'
    BY <1>1, <1>2, <1>3, <1>4 DEF OutOfRange, TypeOK, list, heap, pointer, walk
  <2>2. CursorOK'
    BY <1>1, <1>3, <1>4 DEF OutOfRange, CursorOK, heap, pointer, walk
  <2> QED
    BY <1>2, <2>1, <2>2 DEF Inv
<1> DEFINE q == Quot(idx)
<1>5. ASSUME idx < cnt
      PROVE  /\ q \in Nat /\ q + 1 \in Records /\ q < Len(next)
             /\ arr[q + 1][Rem(idx)] \in Data
             /\ rec_cnt = Len(next) /\ Len(next) \in Nat \ { 0 } /\ tail = Len(next)
             /\ head = 1 /\ last_rec = last_rec_no + 1
  BY <1>1, <1>5, Fetched
<1>6. CASE SameRecord
  <2>1. data' \in Data /\ pc' = "idle" /\ UNCHANGED <<pointer, walk>>
    BY <1>5, <1>6 DEF SameRecord, Fetch
  <2>2. TypeOK'
    BY <1>1, <1>2, <1>3, <2>1 DEF TypeOK, list, heap, pointer, walk
  <2>3. CursorOK'
    BY <1>1, <1>3, <2>1 DEF CursorOK, heap, pointer
  <2> QED
    BY <1>2, <2>2, <2>3 DEF Inv
<1>7. CASE TailRecord
  <2>1. /\ last_rec' = Len(next) /\ last_rec_no' = q /\ q = Len(next) - 1
        /\ data' \in Data /\ pc' = "idle" /\ UNCHANGED walk /\ Len(next) \in Records
        /\ q \in Nat /\ Len(next) \in Nat
    BY <1>5, <1>7 DEF TailRecord, Fetch
  <2>2. TypeOK'
    BY <1>1, <1>2, <1>3, <2>1 DEF TypeOK, list, heap, walk
  <2>3. CursorOK'
    BY <1>1, <1>3, <2>1 DEF CursorOK, heap
  <2> QED
    BY <1>2, <2>2, <2>3 DEF Inv
<1>8. CASE StartWalk
  <2>1. /\ idx < cnt /\ pc' = "walk" /\ UNCHANGED <<pointer, data>>
        /\ cur_rec' = cur_no' + 1 /\ cur_no' <= q /\ cur_no' \in Nat
        /\ q \in Nat /\ q < Len(next)
    <3>1. /\ idx < cnt /\ pc' = "walk" /\ UNCHANGED <<pointer, data>>
          /\ last_rec_no # q /\ last_rec_no \in Nat
          /\ \/ last_rec_no < q /\ cur_rec' = last_rec /\ cur_no' = last_rec_no
             \/ cur_rec' = head /\ cur_no' = 0
      BY <1>3, <1>8 DEF StartWalk, WalkFromHead, TypeOK
    <3>2. q \in Nat /\ q < Len(next) /\ head = 1 /\ last_rec = last_rec_no + 1
      BY <1>5, <3>1
    <3> HIDE DEF q
    <3> QED
      BY <3>1, <3>2
  <2>2. cur_rec' \in Records
    <3> HIDE DEF q
    <3>1. cur_no' + 1 \in 1..Len(next)
      BY <1>3, <2>1, Below
    <3> QED
      BY <2>1, <3>1 DEF Records
  <2>3. TypeOK'
    BY <1>1, <1>2, <1>3, <2>1, <2>2 DEF TypeOK, list, heap, pointer
  <2>4. CursorOK'
    BY <1>1, <1>3, <2>1 DEF CursorOK, list, heap, pointer
  <2> QED
    BY <1>2, <2>3, <2>4 DEF Inv
<1>9. CASE Walk
  <2>1. /\ pc = "walk" /\ idx < cnt /\ cur_rec = cur_no + 1 /\ cur_no < q /\ cur_no \in Nat
        /\ cur_rec' = next[cur_rec] /\ cur_no' = cur_no + 1 /\ UNCHANGED <<pointer, pc, data>>
    BY <1>3, <1>9 DEF Walk, OneRecordOn, CursorOK, TypeOK
  <2>2. cur_rec \in Records /\ cur_rec < Len(next)
    BY <1>5, <2>1 DEF Records
  <2>3. cur_rec' = cur_no' + 1 /\ cur_rec' \in Records
    BY <1>3, <2>1, <2>2 DEF ChainOK, Records
  <2>4. TypeOK'
    BY <1>1, <1>2, <1>3, <2>1, <2>3 DEF TypeOK, list, heap, pointer
  <2>5. cur_no' <= q
    BY <1>5, <2>1
  <2>6. CursorOK'
    BY <1>1, <1>3, <2>1, <2>3, <2>5 DEF CursorOK, list, heap, pointer
  <2> QED
    BY <1>2, <2>4, <2>6 DEF Inv
<1>10. CASE Arrive
  <2>1. /\ pc = "walk" /\ idx < cnt /\ cur_rec = cur_no + 1 /\ cur_no >= q /\ cur_no <= q
        /\ cur_no \in Nat
    BY <1>3, <1>10 DEF Arrive, CursorOK, TypeOK
  <2>2. cur_rec = q + 1
    BY <1>5, <2>1
  <2>3. /\ last_rec' = q + 1 /\ last_rec_no' = q /\ data' \in Data /\ pc' = "idle"
        /\ UNCHANGED walk
    BY <1>5, <1>10, <2>1, <2>2 DEF Arrive, Fetch
  <2>4. TypeOK'
    BY <1>1, <1>2, <1>3, <1>5, <2>1, <2>3 DEF TypeOK, list, heap, walk
  <2>5. CursorOK'
    BY <1>1, <1>3, <1>5, <2>1, <2>3 DEF CursorOK, heap
  <2> QED
    BY <1>2, <2>4, <2>5 DEF Inv
<1> QED
  BY <1>4, <1>6, <1>7, <1>8, <1>9, <1>10 DEF Lookup

\* All records but the last are full, so the items before record k + 1 are k records.
LEMMA Before ==
    ASSUME TypeOK, ChainOK, NEW k \in 0..Len(next)
    PROVE  /\ CountTo(k) \in Nat
           /\ k < Len(next) =>
                /\ CountTo(k) = k * arr_size
                /\ CountTo(k + 1) = CountTo(k) + item_cnt[k + 1]
<1>1. Len(next) \in Nat /\ k \in Nat
  BY RecordTypes
<1>2. k # 0 => k \in Records /\ item_cnt[k] \in 1..arr_size /\ k - 1 \in Nat
  BY <1>1, RecordTypes DEF Records
<1>3. (k - 1) * arr_size + arr_size = k * arr_size /\ k * arr_size \in Nat
      /\ (k # 0 => (k - 1) * arr_size \in Nat) /\ 0 * arr_size = 0
  BY <1>1, SizeAssumption
<1>4. k # 0 /\ k < Len(next) => item_cnt[k] = arr_size
  BY <1>2 DEF ChainOK
<1>5. k < Len(next) => CountTo(k) = k * arr_size
  BY <1>1, <1>2, <1>3, <1>4 DEF CountTo
<1>6. CountTo(k + 1) = k * arr_size + item_cnt[k + 1]
  BY <1>1 DEF CountTo
<1>7. CountTo(k) \in Nat
  BY <1>1, <1>2, <1>3, SizeAssumption DEF CountTo
<1> QED
  BY <1>5, <1>6, <1>7

LEMMA DeallocInv ==
    ASSUME Inv, ulist_dealloc
    PROVE  Inv'
<1>1. TypeOK /\ ChainOK /\ Filled /\ FreedOK /\ Alive /\ ~Alive' /\ Len(next) \in Nat
  BY RecordTypes DEF Inv, ulist_dealloc, Alive
<1>2. /\ pc' = "dealloc" /\ cur_rec' = head /\ released' = <<>>
      /\ UNCHANGED <<list, heap, pointer, idx, cur_no, data>>
  BY <1>1 DEF ulist_dealloc, FreedOK
<1>3. Freed' = 0
  BY <1>1, <1>2 DEF Freed, ChainOK, heap, NULL
<1>4. cnt = CountTo(Len(next)) /\ rec_cnt = Len(next)
  BY <1>1 DEF CountTo, ChainOK
<1>5. CountTo(0) = 0 /\ CountTo(Len(next)) \in Nat
  BY <1>1, Before DEF CountTo
<1>7. CountTo(Len(next))' = CountTo(Len(next)) /\ CountTo(Freed)' = 0
  BY <1>2, <1>3, <1>5 DEF CountTo, heap
<1>8. FreedOK'
  BY <1>1, <1>2, <1>3, <1>4, <1>5, <1>7 DEF FreedOK, list, heap
<1>9. TypeOK'
  BY <1>1, <1>2 DEF TypeOK, list, heap, pointer, Records
<1>10. ChainOK' /\ CursorOK' /\ Filled'
  BY <1>1, <1>2 DEF ChainOK, CursorOK, Filled, list, heap, pointer, Records
<1> QED
  BY <1>8, <1>9, <1>10 DEF Inv

LEMMA FreeRecordInv ==
    ASSUME Inv, FreeRecord
    PROVE  Inv'
<1> DEFINE L == Len(next)
           k == cur_rec - 1
           items == ItemsOf(cur_rec)
<1>1. TypeOK /\ ChainOK /\ Filled /\ FreedOK /\ ~Alive /\ ~Alive' /\ L \in Nat
  BY RecordTypes DEF Inv, FreeRecord, Alive
<1>2. /\ pc = "dealloc" /\ pc' = "dealloc" /\ cur_rec \in Records
      /\ released' = released \o items
      /\ cnt' = cnt - item_cnt[cur_rec] /\ rec_cnt' = rec_cnt - 1
      /\ cur_rec' = next[cur_rec]
      /\ UNCHANGED <<head, tail, heap, pointer, pc, idx, cur_no, data>>
  BY <1>1 DEF FreeRecord, TypeOK
<1>3. /\ k \in Nat /\ k < L /\ k + 1 = cur_rec /\ cur_rec \in Nat /\ cur_rec <= L
      /\ Freed = k /\ item_cnt[k + 1] \in 1..arr_size
  BY <1>1, <1>2, RecordTypes DEF Records, Freed, NULL
<1>4. Freed' = k + 1 /\ cur_rec' \in Records \cup { NULL }
  BY <1>1, <1>2, <1>3 DEF Freed, ChainOK, Records, heap, NULL
<1>5. /\ CountTo(k) = k * arr_size /\ CountTo(k) \in Nat /\ CountTo(k + 1) \in Nat
      /\ CountTo(k + 1) = CountTo(k) + item_cnt[k + 1] /\ CountTo(L) \in Nat
  BY <1>1, <1>3, Before
<1>6. /\ CountTo(L)' = CountTo(L) /\ CountTo(Freed)' = CountTo(k + 1)
  BY <1>2, <1>4 DEF CountTo, heap
<1>7. /\ rec_cnt = L - k /\ cnt = CountTo(L) - CountTo(k) /\ Len(released) = CountTo(k)
      /\ released \in Seq(Data)
      /\ \A i \in 1..Len(released) : released[i] = arr[Quot(i - 1) + 1][Rem(i - 1)]
  BY <1>1, <1>3 DEF FreedOK, TypeOK
<1>8. rec_cnt' = L - (k + 1) /\ cnt' = CountTo(L) - CountTo(k + 1) /\ rec_cnt' \in Nat
  <2>1. item_cnt[cur_rec] = item_cnt[k + 1] /\ item_cnt[k + 1] \in Nat
    BY <1>3
  <2>2. rec_cnt' = rec_cnt - 1 /\ cnt' = cnt - item_cnt[k + 1]
    BY <1>2, <2>1
  <2> HIDE DEF k, L
  <2> QED
    BY <1>1, <1>3, <1>5, <1>7, <2>1, <2>2
<1>9. CountTo(k + 1) <= CountTo(L)
  <2>1. CASE k + 1 = L
    BY <2>1, <1>5
  <2>2. CASE k + 1 # L
    <3>1. k + 1 < L /\ L - 1 \in Nat /\ item_cnt[L] \in 1..arr_size /\ L \in Records
      BY <1>1, <1>3, <2>2, RecordTypes DEF Records
    <3>2. CountTo(k + 1) = (k + 1) * arr_size
      BY <1>1, <1>3, <3>1, Before
    <3>3. k + 1 = L - 1 \/ (k + 1) * arr_size + arr_size <= (L - 1) * arr_size
      BY <1>3, <3>1, Times
    <3>4. (k + 1) * arr_size <= (L - 1) * arr_size /\ (L - 1) * arr_size \in Nat
          /\ (k + 1) * arr_size \in Nat
      <4>1. (L - 1) * arr_size \in Nat /\ (k + 1) * arr_size \in Nat
        BY <1>3, <3>1, SizeAssumption
      <4>2. CASE k + 1 = L - 1
        BY <4>1, <4>2
      <4>3. CASE k + 1 # L - 1
        BY <3>3, <4>1, <4>3, SizeAssumption
      <4> QED
        BY <4>1, <4>2, <4>3
    <3>5. CountTo(L) = (L - 1) * arr_size + item_cnt[L]
      BY <3>1 DEF CountTo
    <3> QED
      BY <3>1, <3>2, <3>4, <3>5
  <2> QED
    BY <2>1, <2>2
<1>10. /\ items \in Seq(Data) /\ Len(items) = item_cnt[k + 1]
       /\ \A i \in 1..item_cnt[k + 1] : items[i] = arr[k + 1][i - 1]
  <2>1. items = [i \in 1..item_cnt[k + 1] |-> arr[k + 1][i - 1]]
    BY <1>3 DEF ItemsOf
  <2>2. \A i \in 1..item_cnt[k + 1] : arr[k + 1][i - 1] \in Data
    <3> SUFFICES ASSUME NEW i \in 1..item_cnt[k + 1] PROVE arr[k + 1][i - 1] \in Data
      OBVIOUS
    <3>1. i - 1 \in 0..(item_cnt[k + 1] - 1) /\ k + 1 \in Records
      BY <1>2, <1>3
    <3> QED
      BY <1>1, <3>1 DEF Filled
  <2>3. item_cnt[k + 1] \in Nat
    BY <1>3
  <2> HIDE DEF items, k
  <2> QED
    BY <2>1, <2>2, <2>3
<1>11. /\ released' \in Seq(Data) /\ Len(released') = CountTo(k + 1)
       /\ \A i \in 1..CountTo(k) : released'[i] = released[i]
       /\ \A i \in 1..item_cnt[k + 1] : released'[CountTo(k) + i] = items[i]
  <2>1. released \in Seq(Data) /\ items \in Seq(Data) /\ released' = released \o items
        /\ Len(released) = CountTo(k) /\ Len(items) = item_cnt[k + 1]
    BY <1>2, <1>7, <1>10
  <2>2. CountTo(k) \in Nat /\ item_cnt[k + 1] \in Nat
        /\ CountTo(k + 1) = CountTo(k) + item_cnt[k + 1]
    BY <1>3, <1>5
  <2> HIDE DEF items, k
  <2> DEFINE both == released \o items
  <2>3. /\ both \in Seq(Data) /\ Len(both) = Len(released) + Len(items)
        /\ \A i \in 1..Len(released) : both[i] = released[i]
        /\ \A i \in 1..Len(items) : both[Len(released) + i] = items[i]
    <3>1. \A s, t \in Seq(Data) :
            /\ s \o t \in Seq(Data) /\ Len(s \o t) = Len(s) + Len(t)
            /\ \A i \in 1..Len(s) : (s \o t)[i] = s[i]
            /\ \A i \in 1..Len(t) : (s \o t)[Len(s) + i] = t[i]
      BY Joined
    <3>2. released \in Seq(Data) /\ items \in Seq(Data)
      BY <2>1
    <3> QED
      BY <3>1, <3>2, Zenon
  <2>4. released' = both
    BY <2>1
  <2> HIDE DEF both
  <2> QED
    BY <2>1, <2>2, <2>3, <2>4
<1>12. ASSUME NEW i \in 1..CountTo(k + 1)
       PROVE  released'[i] = arr[Quot(i - 1) + 1][Rem(i - 1)]
  <2>1. CASE i <= CountTo(k)
    <3>1. i \in 1..CountTo(k)
      BY <1>5, <2>1
    <3> QED
      BY <1>7, <1>11, <3>1
  <2>2. CASE ~(i <= CountTo(k))
    <3> DEFINE j == i - CountTo(k)
    <3>1. j \in 1..item_cnt[k + 1] /\ i = CountTo(k) + j /\ j \in Nat
      BY <1>3, <1>5, <2>2
    <3>2. j - 1 \in 0..(arr_size - 1)
      BY <1>3, <3>1, SizeAssumption
    <3>5. i - 1 = k * arr_size + (j - 1)
      <4> HIDE DEF j, k
      <4> QED
        BY <1>5, <3>1
    <3>3. Quot(i - 1) = k /\ Rem(i - 1) = j - 1
      BY <1>3, <3>2, <3>5, Place
    <3>4. released'[i] = arr[k + 1][j - 1]
      BY <1>10, <1>11, <3>1
    <3> QED
      BY <3>3, <3>4
  <2> QED
    BY <2>1, <2>2
<1>13. FreedOK'
  BY <1>1, <1>2, <1>4, <1>6, <1>8, <1>11, <1>12 DEF FreedOK, heap
<1>14. TypeOK'
  <2>1. cnt' \in Nat
    BY <1>5, <1>8, <1>9
  <2> QED
    BY <1>1, <1>2, <1>4, <1>8, <1>11, <2>1 DEF TypeOK, heap, pointer, Records
<1>15. ChainOK' /\ CursorOK' /\ Filled'
  BY <1>1, <1>2 DEF ChainOK, CursorOK, Filled, heap, Records
<1> QED
  BY <1>13, <1>14, <1>15 DEF Inv

LEMMA FreeListInv ==
    ASSUME Inv, FreeList
    PROVE  Inv'
<1>1. /\ ~Alive /\ ~Alive' /\ pc' = "gone" /\ cur_rec' = NULL
      /\ UNCHANGED <<list, heap, pointer, walk, idx, data, released>>
  BY DEF FreeList, Alive, walk
<1>2. CountTo(Len(next))' = CountTo(Len(next)) /\ CountTo(Freed)' = CountTo(Freed)
      /\ Freed' = Freed
  BY <1>1 DEF CountTo, Freed, heap, walk
<1>3. TypeOK' /\ ChainOK' /\ CursorOK' /\ Filled' /\ FreedOK'
  BY <1>1, <1>2 DEF Inv, TypeOK, ChainOK, CursorOK, Filled, FreedOK, list, heap, pointer,
     walk, Records
<1> QED
  BY <1>3 DEF Inv

LEMMA GetInv ==
    ASSUME Inv, ulist_get
    PROVE  Inv'
<1>1. Alive /\ Alive' /\ idx' \in Nat /\ pc' = "get"
      /\ UNCHANGED <<list, heap, pointer, walk, data, released>>
  BY DataAssumption DEF ulist_get, Alive
<1>2. ChainOK' /\ Filled' /\ FreedOK'
  BY <1>1, KeepsList
<1>3. TypeOK' /\ CursorOK'
  BY <1>1 DEF Inv, TypeOK, CursorOK, list, heap, pointer, walk, Records
<1> QED
  BY <1>2, <1>3 DEF Inv

LEMMA StutterInv ==
    ASSUME Inv, UNCHANGED vars
    PROVE  Inv'
<1>1. /\ UNCHANGED <<cnt, rec_cnt, head, tail, last_rec, last_rec_no, next, arr, item_cnt>>
      /\ UNCHANGED <<pc, idx, cur_rec, cur_no, data, released>>
  BY DEF vars
<1>2. Freed' = Freed /\ CountTo(Len(next))' = CountTo(Len(next))
      /\ CountTo(Freed)' = CountTo(Freed)
  BY <1>1 DEF Freed, CountTo
<1>3. TypeOK' /\ ChainOK' /\ CursorOK'
  BY <1>1 DEF Inv, TypeOK, ChainOK, CursorOK, Records, Alive
<1>4. Filled' /\ FreedOK'
  BY <1>1, <1>2 DEF Inv, Filled, FreedOK, Records, Alive
<1> QED
  BY <1>3, <1>4 DEF Inv

LEMMA NextInv == Inv /\ [Next]_vars => Inv'
<1> SUFFICES ASSUME Inv, [Next]_vars PROVE Inv'
  OBVIOUS
<1>1. CASE ulist_append
  <2>1. PICK item \in Data : AppendToTail(item) \/ AppendRecord(item)
    BY <1>1 DEF ulist_append
  <2>2. pc = "idle" /\ cnt' = cnt + 1 /\ UNCHANGED <<pc, idx, walk, data, released>>
    BY <1>1 DEF ulist_append
  <2> QED
    BY <2>1, <2>2, AppendToTailInv, AppendRecordInv
<1>2. CASE AppendNoMemory \/ Gone \/ UNCHANGED vars
  BY <1>2, StutterInv DEF AppendNoMemory, Gone
<1>3. CASE ulist_get \/ Lookup
  BY <1>3, GetInv, LookupInv
<1>4. CASE ulist_dealloc \/ FreeRecord \/ FreeList
  BY <1>4, DeallocInv, FreeRecordInv, FreeListInv
<1> QED
  BY <1>1, <1>2, <1>3, <1>4 DEF Next

LEMMA InvAlways == Spec => []Inv
  BY InitInv, NextInv, PTL DEF Spec

\* Every variable keeps its type, and the heap one entry for each record.
THEOREM TypeCorrect == Spec => []TypeOK
<1>1. Inv => TypeOK
  BY DEF Inv
<1> QED
  BY <1>1, InvAlways, PTL

\* The records form one chain in the order of their allocation, and the counters
\* say so, after any number of appends (ulist_append).
THEOREM ChainCorrect == Spec => []ChainOK
<1>1. Inv => ChainOK
  BY DEF Inv
<1> QED
  BY <1>1, InvAlways, PTL

\* The remembered record is the one that bears the remembered number, whatever calls
\* moved it, and a walk stays in the chain (ulist_get, get_record).
THEOREM CursorCorrect == Spec => []CursorOK
<1>1. Inv => CursorOK
  BY DEF Inv
<1> QED
  BY <1>1, InvAlways, PTL

\* Deallocation gives every item to free_data_fn once, in order (ulist_dealloc).
THEOREM ReleasedCorrect == Spec => []AllReleased
<1>1. Inv => AllReleased
  <2> SUFFICES ASSUME Inv, pc = "gone" PROVE AllReleased
    BY DEF AllReleased
  <2>1. /\ FreedOK /\ ~Alive /\ Freed = Len(next) /\ Len(next) \in Nat /\ released \in Seq(Data)
        /\ TypeOK /\ ChainOK
    BY RecordTypes DEF Inv, FreedOK, Freed, Alive, TypeOK
  <2>2. CountTo(Len(next)) \in Nat
    BY <2>1, Before
  <2>3. /\ rec_cnt = 0 /\ cnt = 0 /\ Len(released) = CountTo(Len(next))
        /\ \A i \in 1..Len(released) : released[i] = arr[Quot(i - 1) + 1][Rem(i - 1)]
    BY <2>1, <2>2 DEF FreedOK
  <2>4. released = [i \in 1..Len(released) |-> arr[Quot(i - 1) + 1][Rem(i - 1)]]
    BY <2>1, <2>3
  <2> QED
    BY <2>3, <2>4 DEF AllReleased, CountTo
<1> QED
  BY <1>1, InvAlways, PTL

-----------------------------------------------------------------------------
(***************************************************************************)
(* To its clients the list is a sequence.                                  *)
(***************************************************************************)

\* What is stored, place by place.
LEMMA StoredSeq ==
    ASSUME Inv, Alive
    PROVE  /\ cnt \in Nat /\ Stored \in Seq(Data) /\ Len(Stored) = cnt
           /\ \A i \in 1..cnt : Stored[i] = arr[Quot(i - 1) + 1][Rem(i - 1)]
<1>1. TypeOK /\ ChainOK /\ Filled /\ cnt \in Nat
  BY DEF Inv, TypeOK
<1>2. ASSUME NEW i \in 1..cnt
      PROVE  arr[Quot(i - 1) + 1][Rem(i - 1)] \in Data
  <2>1. i - 1 \in Nat /\ i - 1 < cnt
    BY <1>1
  <2>2. Quot(i - 1) + 1 \in Records /\ Rem(i - 1) \in 0..(item_cnt[Quot(i - 1) + 1] - 1)
    BY <1>1, <2>1, InChain
  <2> QED
    BY <1>1, <2>2 DEF Filled
<1>3. Stored = [i \in 1..cnt |-> arr[Quot(i - 1) + 1][Rem(i - 1)]]
  BY DEF Stored
<1> QED
  BY <1>1, <1>2, <1>3

\* An item in the last record is at the end of the sequence.
LEMMA TailEnd ==
    ASSUME Inv, pc = "idle", NEW item \in Data, AppendToTail(item)
    PROVE  /\ \A i \in 0..(cnt - 1) : arr'[Quot(i) + 1][Rem(i)] = arr[Quot(i) + 1][Rem(i)]
           /\ arr'[Quot(cnt) + 1][Rem(cnt)] = item
<1>1. Alive /\ TypeOK /\ ChainOK /\ cnt \in Nat
  BY DEF Inv, Alive, TypeOK
<1> DEFINE L == Len(next)
           ic == Rem(cnt)
<1>2. Quot(cnt) + 1 = L /\ ic \in 1..(arr_size - 1) /\ tail = L /\ L \in Records
      /\ arr' = [arr EXCEPT ![L][ic] = item]
  BY <1>1, AtEnd, RecordTypes DEF AppendToTail, ChainOK, Records
<1>3. \A r \in Records : arr[r] \in [0..(arr_size - 1) -> Data \cup { NoData }]
  BY <1>1, RecordTypes
<1>4. DOMAIN arr = Records
  BY <1>1 DEF TypeOK, Records
<1>5. arr'[L] = [arr[L] EXCEPT ![ic] = item] /\ \A r \in Records : r # L => arr'[r] = arr[r]
  BY <1>2, <1>4
<1>6. arr'[L][ic] = item
  <2>1. ic \in 0..(arr_size - 1)
    BY <1>2, SizeAssumption
  <2> QED
    BY <1>2, <1>3, <1>5, <2>1
<1>7. ASSUME NEW i \in 0..(cnt - 1)
      PROVE  arr'[Quot(i) + 1][Rem(i)] = arr[Quot(i) + 1][Rem(i)]
  <2>1. i \in Nat /\ i < cnt /\ i # cnt
    BY <1>1
  <2>2. Quot(i) + 1 \in Records /\ Quot(i) \in Nat /\ Rem(i) \in 0..(arr_size - 1)
        /\ i = Quot(i) * arr_size + Rem(i)
    BY <1>1, <2>1, InChain, DivMod
  <2>3. CASE Quot(i) + 1 # L
    BY <1>5, <2>2, <2>3
  <2>4. CASE Quot(i) + 1 = L
    <3>1. Rem(i) # ic
      <4>1. Quot(cnt) \in Nat /\ cnt = Quot(cnt) * arr_size + Rem(cnt)
        BY <1>1, DivMod
      <4>2. Quot(i) = Quot(cnt)
        BY <1>2, <2>2, <2>4, <4>1
      <4> QED
        BY <2>1, <2>2, <4>1, <4>2
    <3>2. [arr[L] EXCEPT ![ic] = item][Rem(i)] = arr[L][Rem(i)]
      BY <1>2, <1>3, <2>2, <3>1
    <3> QED
      BY <1>5, <2>4, <3>2
  <2> QED
    BY <2>3, <2>4
<1> QED
  BY <1>2, <1>6, <1>7

\* So is the first item of a new record.
LEMMA RecordEnd ==
    ASSUME Inv, pc = "idle", NEW item \in Data, AppendRecord(item)
    PROVE  /\ \A i \in 0..(cnt - 1) : arr'[Quot(i) + 1][Rem(i)] = arr[Quot(i) + 1][Rem(i)]
           /\ arr'[Quot(cnt) + 1][Rem(cnt)] = item
<1> DEFINE L == Len(next)
           S == [0..(arr_size - 1) -> Data \cup { NoData }]
           new == [EmptyRecord EXCEPT ![0] = item]
<1>1. Alive /\ TypeOK /\ ChainOK /\ cnt \in Nat /\ arr \in Seq(S) /\ Len(arr) = L
      /\ L \in Nat
  BY RecordTypes DEF Inv, Alive, TypeOK
<1>2. Quot(cnt) = L /\ Rem(cnt) = 0 /\ arr' = Append(arr, new)
  BY <1>1, AtEnd DEF AppendRecord
<1>3. new \in S /\ new[0] = item
  BY SizeAssumption DEF EmptyRecord
<1> HIDE DEF new, S
<1>4. arr'[L + 1] = new /\ \A r \in 1..L : arr'[r] = arr[r]
  BY <1>1, <1>2, <1>3, AppendProperties
<1>5. ASSUME NEW i \in 0..(cnt - 1)
      PROVE  arr'[Quot(i) + 1][Rem(i)] = arr[Quot(i) + 1][Rem(i)]
  <2>1. i \in Nat /\ i < cnt
    BY <1>1
  <2>2. Quot(i) + 1 \in 1..L
    BY <1>1, <2>1, InChain DEF Records
  <2> QED
    BY <1>4, <2>2
<1> QED
  BY <1>2, <1>3, <1>4, <1>5

\* ulist_append puts one item at the end and leaves the others where they are.
LEMMA AppendGrows ==
    ASSUME Inv, ulist_append
    PROVE  \E item \in Data : Stored' = Append(Stored, item)
<1>1. Inv' /\ Alive /\ Alive' /\ pc = "idle" /\ cnt' = cnt + 1
  BY NextInv DEF Next, ulist_append, Alive
<1>2. PICK item \in Data : AppendToTail(item) \/ AppendRecord(item)
  BY DEF ulist_append
<1> DEFINE more == Append(Stored, item)
<1>3. /\ cnt \in Nat /\ Stored \in Seq(Data) /\ Len(Stored) = cnt
      /\ \A i \in 1..cnt : Stored[i] = arr[Quot(i - 1) + 1][Rem(i - 1)]
  BY <1>1, StoredSeq
<1>4. /\ \A i \in 0..(cnt - 1) : arr'[Quot(i) + 1][Rem(i)] = arr[Quot(i) + 1][Rem(i)]
      /\ arr'[Quot(cnt) + 1][Rem(cnt)] = item
  BY <1>1, <1>2, TailEnd, RecordEnd
<1>5. /\ more \in Seq(Data) /\ Len(more) = cnt + 1 /\ more[cnt + 1] = item
      /\ \A i \in 1..cnt : more[i] = Stored[i]
  BY <1>3, AppendProperties
<1> HIDE DEF more
<1>6. \A i \in 1..(cnt + 1) : more[i] = arr'[Quot(i - 1) + 1][Rem(i - 1)]
  <2> SUFFICES ASSUME NEW i \in 1..(cnt + 1)
               PROVE  more[i] = arr'[Quot(i - 1) + 1][Rem(i - 1)]
    OBVIOUS
  <2>1. CASE i = cnt + 1
    <3>1. i - 1 = cnt
      BY <1>3, <2>1
    <3> QED
      BY <1>4, <1>5, <2>1, <3>1
  <2>2. CASE i # cnt + 1
    <3>1. i \in 1..cnt /\ i - 1 \in 0..(cnt - 1)
      BY <1>3, <2>2
    <3> QED
      BY <1>3, <1>4, <1>5, <3>1
  <2> QED
    BY <2>1, <2>2
<1>7. more = [i \in 1..(cnt + 1) |-> arr'[Quot(i - 1) + 1][Rem(i - 1)]]
  BY <1>3, <1>5, <1>6
<1>8. Stored' = [i \in 1..(cnt + 1) |-> arr'[Quot(i - 1) + 1][Rem(i - 1)]]
  BY <1>1 DEF Stored, Quot, Rem
<1> QED
  BY <1>7, <1>8 DEF more

\* A retrieval that ends answers with the item of its index, or with NoData.
LEMMA Answered ==
    ASSUME Inv, OutOfRange \/ SameRecord \/ TailRecord \/ Arrive
    PROVE  data' = IF idx < Len(Stored) THEN Stored[idx + 1] ELSE NoData
<1>1. Alive /\ TypeOK /\ idx \in Nat
  BY DEF Inv, TypeOK, Alive, OutOfRange, SameRecord, TailRecord, Arrive
<1>2. /\ cnt \in Nat /\ Len(Stored) = cnt
      /\ \A i \in 1..cnt : Stored[i] = arr[Quot(i - 1) + 1][Rem(i - 1)]
  BY <1>1, StoredSeq
<1>3. CASE OutOfRange
  BY <1>1, <1>2, <1>3 DEF OutOfRange
<1>4. CASE SameRecord \/ TailRecord \/ Arrive
  <2>1. idx < cnt
    BY <1>1, <1>4 DEF SameRecord, TailRecord, Arrive, Inv, CursorOK
  <2>2. /\ Quot(idx) \in Nat /\ rec_cnt = Len(next) /\ tail = Len(next)
        /\ Len(next) \in Nat \ { 0 } /\ last_rec = last_rec_no + 1
    BY <1>1, <2>1, Fetched
  <2>3. data' = arr[Quot(idx) + 1][Rem(idx)]
    <3>1. CASE SameRecord
      BY <2>2, <3>1 DEF SameRecord, Fetch
    <3>2. CASE TailRecord
      BY <2>2, <3>2 DEF TailRecord, Fetch
    <3>3. CASE Arrive
      <4>1. cur_no = Quot(idx) /\ cur_rec = Quot(idx) + 1
        BY <2>2, <3>3, <1>1 DEF Arrive, Inv, CursorOK, TypeOK
      <4> QED
        BY <3>3, <4>1 DEF Arrive, Fetch
    <3> QED
      BY <1>4, <3>1, <3>2, <3>3
  <2>4. idx + 1 \in 1..cnt /\ (idx + 1) - 1 = idx
    BY <1>1, <1>2, <2>1
  <2>5. Stored[idx + 1] = arr[Quot(idx) + 1][Rem(idx)]
    BY <1>2, <2>4
  <2> QED
    BY <1>2, <2>1, <2>3, <2>5
<1> QED
  BY <1>3, <1>4

LEMMA AppendListInit == Init => AppendList!Init
<1> SUFFICES ASSUME Init PROVE AppendList!Init
  OBVIOUS
<1>1. cnt = 0 /\ pc = "idle" /\ data = NoData
  BY DEF Init
<1>2. Stored = <<>>
  BY <1>1 DEF Stored
<1> QED
  BY <1>1, <1>2 DEF AppendList!Init, Alive

\* What leaves list and records alone leaves the sequence alone.
LEMMA SameStored == UNCHANGED <<list, heap>> => Stored' = Stored
  BY DEF Stored, list, heap, Quot, Rem

\* Every step is a step of the sequence, or none to its clients.
LEMMA AppendListNext == Inv /\ [Next]_vars => [AppendList!Next]_(AppendList!vars)
<1> SUFFICES ASSUME Inv, [Next]_vars PROVE [AppendList!Next]_(AppendList!vars)
  OBVIOUS
<1>1. CASE ulist_append
  <2>1. /\ pc = "idle" /\ pc' = "idle" /\ data' = data /\ Alive /\ Alive'
        /\ \E item \in Data : Stored' = Append(Stored, item)
    BY <1>1, AppendGrows DEF ulist_append, Alive
  <2>2. AppendList!Grow
    BY <2>1 DEF AppendList!Grow
  <2> QED
    BY <2>2 DEF AppendList!Next
<1>2. CASE ulist_get
  <2>1. /\ pc = "idle" /\ pc' = "get" /\ idx' \in Indices /\ data' = data
        /\ Stored' = Stored /\ Alive /\ Alive'
    BY <1>2, SameStored DEF ulist_get, Alive
  <2>2. AppendList!Ask
    BY <2>1 DEF AppendList!Ask
  <2> QED
    BY <2>2 DEF AppendList!Next
<1>3. CASE OutOfRange \/ SameRecord \/ TailRecord \/ Arrive
  <2>1. /\ pc \in { "get", "walk" } /\ pc' = "idle" /\ Stored' = Stored /\ Alive /\ Alive'
        /\ data' = IF idx < Len(Stored) THEN Stored[idx + 1] ELSE NoData
    BY <1>3, SameStored, Answered
       DEF OutOfRange, SameRecord, TailRecord, Arrive, Fetch, Alive
  <2>2. AppendList!Answer
    BY <2>1 DEF AppendList!Answer
  <2> QED
    BY <2>2 DEF AppendList!Next
<1>4. CASE StartWalk \/ Walk
  <2>1. /\ pc \in { "get", "walk" } /\ pc' \in { "get", "walk" } /\ idx' = idx
        /\ data' = data /\ Stored' = Stored /\ Alive /\ Alive'
    BY <1>4, SameStored DEF StartWalk, Walk, Alive
  <2> QED
    BY <2>1 DEF AppendList!vars
<1>5. CASE ulist_dealloc
  <2>1. pc = "idle" /\ pc' = "dealloc" /\ data' = data /\ ~Alive'
    BY <1>5 DEF ulist_dealloc, Alive
  <2>2. AppendList!Empty
    BY <2>1 DEF AppendList!Empty
  <2> QED
    BY <2>2 DEF AppendList!Next
<1>6. CASE FreeRecord \/ FreeList
  <2>1. pc = "dealloc" /\ pc' \in { "dealloc", "gone" } /\ data' = data /\ ~Alive /\ ~Alive'
    BY <1>6 DEF FreeRecord, FreeList, Alive, Inv, TypeOK
  <2> QED
    BY <2>1 DEF AppendList!vars
<1>7. CASE AppendNoMemory \/ Gone \/ UNCHANGED vars
  <2>1. UNCHANGED <<cnt, arr, pc, idx, data>>
    BY <1>7 DEF AppendNoMemory, Gone, vars
  <2>2. Stored' = Stored /\ Alive' = Alive
    BY <2>1 DEF Stored, Alive, Quot, Rem
  <2> QED
    BY <2>1, <2>2 DEF AppendList!vars
<1> QED
  BY <1>1, <1>2, <1>3, <1>4, <1>5, <1>6, <1>7 DEF Next, Lookup

\* For clients that append, retrieve and deallocate in any order, the chain of records
\* with its cursor is the sequence of what was appended (ulist_append, ulist_get,
\* ulist_dealloc).
THEOREM AppendListCorrect == Spec => IsAppendList
<1> QED
  BY AppendListInit, AppendListNext, InvAlways, PTL
     DEF Spec, IsAppendList, AppendList!Spec
=============================================================================
