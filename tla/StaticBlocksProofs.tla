------------------------- MODULE StaticBlocksProofs -------------------------
(***************************************************************************)
(* Proofs about StaticBlocks: the blocks lie one behind the other, every   *)
(* name has one owner and is freed once, the joiners match the slots, and  *)
(* the option string is decoded and read as OptsDecodeProofs shows; for    *)
(* every length of the stream, and every set of ids, lengths and strings.  *)
(***************************************************************************)
EXTENDS StaticBlocks, SequenceTheorems, FunctionTheorems, FiniteSetTheorems, TLAPS

\* How often a value occurs in a sequence.
Occ(s, v) == Cardinality({ k \in DOMAIN s : s[k] = v })

\* The names in a table.
NamesOf(tbl) == [k \in DOMAIN tbl |-> tbl[k].name]

-----------------------------------------------------------------------------
(***************************************************************************)
(* Occurrences in a sequence that changes.                                 *)
(***************************************************************************)

LEMMA OccType ==
    ASSUME NEW S, NEW s \in Seq(S), NEW v
    PROVE  /\ DOMAIN s = 1..Len(s) /\ Len(s) \in Nat
           /\ IsFiniteSet({ k \in DOMAIN s : s[k] = v })
           /\ Occ(s, v) \in Nat
<1>1. DOMAIN s = 1..Len(s) /\ Len(s) \in Nat
  BY LenProperties
<1>2. IsFiniteSet(1..Len(s))
  BY <1>1, FS_Interval
<1>3. { k \in DOMAIN s : s[k] = v } \in SUBSET (1..Len(s))
  BY <1>1
<1>4. IsFiniteSet({ k \in DOMAIN s : s[k] = v })
  BY <1>2, <1>3, FS_Subset
<1> QED
  BY <1>1, <1>4, FS_CardinalityType DEF Occ

\* A value that occurs is counted, and one that is counted occurs.
LEMMA OccAt ==
    ASSUME NEW S, NEW s \in Seq(S), NEW v
    PROVE  Occ(s, v) = 0 <=> \A k \in DOMAIN s : s[k] # v
<1> DEFINE P == { k \in DOMAIN s : s[k] = v }
<1>1. IsFiniteSet(P)
  BY OccType
<1>2. Cardinality(P) = 0 <=> P = {}
  BY <1>1, FS_EmptySet
<1> QED
  BY <1>2 DEF Occ

LEMMA OccAppend ==
    ASSUME NEW S, NEW s \in Seq(S), NEW e \in S, NEW v
    PROVE  Occ(Append(s, e), v) = Occ(s, v) + (IF e = v THEN 1 ELSE 0)
<1> DEFINE P == { k \in DOMAIN s : s[k] = v }
           new == Append(s, e)
           Q == { k \in DOMAIN new : new[k] = v }
<1>1. /\ DOMAIN s = 1..Len(s) /\ Len(s) \in Nat /\ IsFiniteSet(P)
      /\ Cardinality(P) \in Nat
  BY OccType DEF Occ
<1>2. /\ new \in Seq(S) /\ Len(new) = Len(s) + 1 /\ new[Len(s) + 1] = e
      /\ \A k \in 1..Len(s) : new[k] = s[k]
  BY AppendProperties
<1>3. DOMAIN new = 1..(Len(s) + 1)
  BY <1>2, LenProperties
<1> HIDE DEF new
<1>4. CASE e = v
  <2>1. Q = P \cup { Len(s) + 1 } /\ Len(s) + 1 \notin P
    BY <1>1, <1>2, <1>3, <1>4
  <2> HIDE DEF P, Q
  <2>2. Cardinality(Q) = Cardinality(P) + 1
    BY <1>1, <2>1, FS_AddElement
  <2>3. Occ(Append(s, e), v) = Cardinality(Q) /\ Occ(s, v) = Cardinality(P)
    BY DEF Occ, new, P, Q
  <2> QED
    BY <1>1, <1>4, <2>2, <2>3
<1>5. CASE e # v
  <2>1. Q = P
    BY <1>1, <1>2, <1>3, <1>5
  <2>2. Occ(Append(s, e), v) = Cardinality(Q) /\ Occ(s, v) = Cardinality(P)
    BY DEF Occ, new
  <2> HIDE DEF P, Q
  <2> QED
    BY <1>1, <1>5, <2>1, <2>2
<1> QED
  BY <1>4, <1>5

\* Two sequences agree but for place i.
SameBut(i, s, new) == DOMAIN new = DOMAIN s /\ \A k \in DOMAIN s : k # i => new[k] = s[k]

\* The value at one place is exchanged.
LEMMA OccChange ==
    ASSUME NEW S, NEW s \in Seq(S), NEW new \in Seq(S), NEW i \in DOMAIN s,
           SameBut(i, s, new), NEW v
    PROVE  Occ(new, v)
             = Occ(s, v) - (IF s[i] = v THEN 1 ELSE 0) + (IF new[i] = v THEN 1 ELSE 0)
<1> DEFINE P == { k \in DOMAIN s : s[k] = v }
           Q == { k \in DOMAIN new : new[k] = v }
           R == P \ { i }
<1>1. IsFiniteSet(P) /\ Cardinality(P) \in Nat
  BY OccType DEF Occ
<1>2. IsFiniteSet(R) /\ Cardinality(R) = Cardinality(P) - (IF s[i] = v THEN 1 ELSE 0)
  <2>1. i \in P <=> s[i] = v
    OBVIOUS
  <2>2. /\ IsFiniteSet(R)
        /\ Cardinality(R) = IF i \in P THEN Cardinality(P) - 1 ELSE Cardinality(P)
    BY <1>1, FS_RemoveElement
  <2> HIDE DEF P
  <2> QED
    BY <1>1, <2>1, <2>2
<1>3. Cardinality(R) \in Nat
  BY <1>2, FS_CardinalityType
<1>4. Cardinality(Q) = Cardinality(R) + (IF new[i] = v THEN 1 ELSE 0)
  <2>1. CASE new[i] = v
    <3>1. Q = R \cup { i } /\ i \notin R
      BY <2>1 DEF SameBut
    <3> HIDE DEF Q, R
    <3> QED
      BY <1>2, <1>3, <2>1, <3>1, FS_AddElement
  <2>2. CASE new[i] # v
    <3>1. Q = R
      BY <2>2 DEF SameBut
    <3> HIDE DEF Q, R
    <3> QED
      BY <1>3, <2>2, <3>1
  <2> QED
    BY <2>1, <2>2
<1>5. Occ(s, v) = Cardinality(P) /\ Occ(new, v) = Cardinality(Q)
  BY DEF Occ
<1> HIDE DEF P, Q, R
<1> QED
  BY <1>1, <1>2, <1>3, <1>4, <1>5

\* The last value is taken away.
LEMMA OccButLast ==
    ASSUME NEW S, NEW s \in Seq(S), s # <<>>, NEW v
    PROVE  /\ Len(s) \in DOMAIN s /\ ButLast(s) \in Seq(S)
           /\ DOMAIN ButLast(s) = 1..(Len(s) - 1)
           /\ \A k \in DOMAIN ButLast(s) : ButLast(s)[k] = s[k]
           /\ Occ(s, v) = Occ(ButLast(s), v) + (IF s[Len(s)] = v THEN 1 ELSE 0)
<1> DEFINE old == ButLast(s)
           n == Len(s) - 1
<1>1. Len(s) \in Nat /\ DOMAIN s = 1..Len(s) /\ Len(s) # 0 /\ n \in Nat
  BY LenProperties, EmptySeq
<1>2. old \in Seq(S) /\ Len(old) = n /\ \A k \in 1..n : old[k] = s[k]
  BY <1>1, SubSeqProperties, ElementOfSeq DEF ButLast
<1>3. s[Len(s)] \in S
  BY <1>1, ElementOfSeq
<1>4. s = Append(old, s[Len(s)])
  <2> DEFINE again == Append(old, s[Len(s)])
  <2> HIDE DEF old
  <2>1. /\ again \in Seq(S) /\ Len(again) = n + 1 /\ again[n + 1] = s[Len(s)]
        /\ \A k \in 1..n : again[k] = old[k]
    BY <1>2, <1>3, AppendProperties
  <2> HIDE DEF again
  <2>2. Len(again) = Len(s) /\ \A k \in 1..Len(s) : s[k] = again[k]
    BY <1>1, <1>2, <2>1
  <2>3. s = again
    BY <1>1, <2>1, <2>2, SeqEqual
  <2> QED
    BY <2>3 DEF again
<1>5. DOMAIN old = 1..n
  BY <1>2, LenProperties
<1>6. Occ(s, v) = Occ(old, v) + (IF s[Len(s)] = v THEN 1 ELSE 0)
  <2> HIDE DEF old
  <2>1. Occ(Append(old, s[Len(s)]), v) = Occ(old, v) + (IF s[Len(s)] = v THEN 1 ELSE 0)
    BY <1>2, <1>3, OccAppend
  <2> QED
    BY <1>4, <2>1
<1> QED
  BY <1>1, <1>2, <1>5, <1>6

-----------------------------------------------------------------------------
(***************************************************************************)
(* Columns of the tables.                                                  *)
(***************************************************************************)

\* How many entries of a table have a name.
Held(tbl, name) == Cardinality({ k \in DOMAIN tbl : tbl[k].name = name })

\* What can be an entry: it has a name, or the null pointer for one.
Nameable(S) == \A s \in S : s.name \in Nat

LEMMA NamesSeq ==
    ASSUME NEW S, Nameable(S), NEW tbl \in Seq(S), NEW v
    PROVE  /\ NamesOf(tbl) \in Seq(Nat) /\ Len(NamesOf(tbl)) = Len(tbl)
           /\ DOMAIN NamesOf(tbl) = DOMAIN tbl /\ DOMAIN tbl = 1..Len(tbl) /\ Len(tbl) \in Nat
           /\ \A k \in DOMAIN tbl : NamesOf(tbl)[k] = tbl[k].name
           /\ Held(tbl, v) = Occ(NamesOf(tbl), v) /\ Held(tbl, v) \in Nat
<1>1. DOMAIN tbl = 1..Len(tbl) /\ Len(tbl) \in Nat /\ \A k \in DOMAIN tbl : tbl[k] \in S
  BY LenProperties, ElementOfSeq
<1>2. NamesOf(tbl) = [k \in 1..Len(tbl) |-> tbl[k].name]
  BY <1>1 DEF NamesOf
<1>3. /\ NamesOf(tbl) \in Seq(Nat) /\ Len(NamesOf(tbl)) = Len(tbl)
      /\ DOMAIN NamesOf(tbl) = DOMAIN tbl
      /\ \A k \in DOMAIN tbl : NamesOf(tbl)[k] = tbl[k].name
  BY <1>1, <1>2 DEF Nameable
<1>4. { k \in DOMAIN tbl : tbl[k].name = v }
        = { k \in DOMAIN NamesOf(tbl) : NamesOf(tbl)[k] = v }
  BY <1>3
<1>5. Held(tbl, v) = Occ(NamesOf(tbl), v)
  BY <1>4 DEF Held, Occ
<1>6. Occ(NamesOf(tbl), v) \in Nat
  BY <1>3, OccType
<1> QED
  BY <1>1, <1>3, <1>5, <1>6

LEMMA HeldAppend ==
    ASSUME NEW S, Nameable(S), NEW tbl \in Seq(S), NEW e \in S, NEW v
    PROVE  Held(Append(tbl, e), v) = Held(tbl, v) + (IF e.name = v THEN 1 ELSE 0)
<1> DEFINE new == Append(tbl, e)
<1>1. /\ new \in Seq(S) /\ Len(new) = Len(tbl) + 1 /\ new[Len(tbl) + 1] = e
      /\ \A k \in 1..Len(tbl) : new[k] = tbl[k]
  BY AppendProperties
<1> HIDE DEF new
<1>2. /\ NamesOf(tbl) \in Seq(Nat) /\ Len(NamesOf(tbl)) = Len(tbl) /\ Len(tbl) \in Nat
      /\ DOMAIN tbl = 1..Len(tbl) /\ \A k \in DOMAIN tbl : NamesOf(tbl)[k] = tbl[k].name
      /\ Held(tbl, v) = Occ(NamesOf(tbl), v)
  BY NamesSeq
<1>3. /\ NamesOf(new) \in Seq(Nat) /\ Len(NamesOf(new)) = Len(new)
      /\ DOMAIN new = 1..Len(new) /\ \A k \in DOMAIN new : NamesOf(new)[k] = new[k].name
      /\ Held(new, v) = Occ(NamesOf(new), v)
  BY <1>1, NamesSeq
<1> DEFINE col == Append(NamesOf(tbl), e.name)
<1>7. e.name \in Nat
  BY DEF Nameable
<1>8. Occ(col, v) = Occ(NamesOf(tbl), v) + (IF e.name = v THEN 1 ELSE 0)
  BY <1>2, <1>7, OccAppend
<1>4. /\ col \in Seq(Nat) /\ Len(col) = Len(NamesOf(tbl)) + 1
      /\ col[Len(NamesOf(tbl)) + 1] = e.name
      /\ \A k \in 1..Len(NamesOf(tbl)) : col[k] = NamesOf(tbl)[k]
  BY <1>2, <1>7, AppendProperties
<1> HIDE DEF col
<1>5. \A k \in 1..Len(col) : NamesOf(new)[k] = col[k]
  <2> TAKE k \in 1..Len(col)
  <2>1. CASE k = Len(tbl) + 1
    <3>1. col[k] = e.name /\ new[k] = e
      BY <1>1, <1>2, <1>4, <2>1
    <3>2. k \in DOMAIN new
      BY <1>1, <1>2, <1>3, <2>1
    <3>3. NamesOf(new)[k] = new[k].name
      BY <1>3, <3>2
    <3> QED
      BY <3>1, <3>3
  <2>2. CASE k \in 1..Len(tbl)
    <3>1. k \in DOMAIN tbl /\ k \in DOMAIN new /\ new[k] = tbl[k]
      BY <1>1, <1>2, <1>3, <2>2
    <3>2. NamesOf(new)[k] = new[k].name /\ NamesOf(tbl)[k] = tbl[k].name
      BY <1>2, <1>3, <3>1
    <3>3. col[k] = NamesOf(tbl)[k]
      BY <1>2, <1>4, <2>2
    <3> QED
      BY <3>1, <3>2, <3>3
  <2> QED
    BY <1>2, <1>4, <2>1, <2>2
<1>6. NamesOf(new) = col
  <2>1. Len(NamesOf(new)) = Len(col)
    BY <1>1, <1>2, <1>3, <1>4
  <2> QED
    BY <1>3, <1>4, <1>5, <2>1, SeqEqual
<1> QED
  BY <1>2, <1>3, <1>6, <1>8 DEF new

LEMMA HeldChange ==
    ASSUME NEW S, Nameable(S), NEW tbl \in Seq(S), NEW new \in Seq(S),
           NEW i \in DOMAIN tbl, SameBut(i, tbl, new), NEW v
    PROVE  Held(new, v)
             = Held(tbl, v) - (IF tbl[i].name = v THEN 1 ELSE 0)
                 + (IF new[i].name = v THEN 1 ELSE 0)
<1> DEFINE col == NamesOf(tbl)
           new_col == NamesOf(new)
<1>1. /\ col \in Seq(Nat) /\ DOMAIN col = DOMAIN tbl /\ Held(tbl, v) = Occ(col, v)
      /\ \A k \in DOMAIN tbl : col[k] = tbl[k].name
  BY NamesSeq
<1>2. /\ new_col \in Seq(Nat) /\ DOMAIN new_col = DOMAIN tbl /\ Held(new, v) = Occ(new_col, v)
      /\ \A k \in DOMAIN tbl : new_col[k] = new[k].name
  BY NamesSeq DEF SameBut
<1> HIDE DEF col, new_col
<1>3. SameBut(i, col, new_col) /\ i \in DOMAIN col
  BY <1>1, <1>2 DEF SameBut
<1>4. Occ(new_col, v) = Occ(col, v) - (IF col[i] = v THEN 1 ELSE 0)
                          + (IF new_col[i] = v THEN 1 ELSE 0)
  BY <1>1, <1>2, <1>3, OccChange
<1> QED
  BY <1>1, <1>2, <1>4 DEF SameBut

LEMMA HeldButLast ==
    ASSUME NEW S, Nameable(S), NEW tbl \in Seq(S), tbl # <<>>, NEW v
    PROVE  Held(tbl, v) = Held(ButLast(tbl), v)
                            + (IF tbl[Len(tbl)].name = v THEN 1 ELSE 0)
<1> DEFINE old == ButLast(tbl)
           n == Len(tbl)
<1>1. /\ n \in DOMAIN tbl /\ old \in Seq(S) /\ DOMAIN old = 1..(n - 1)
      /\ \A k \in DOMAIN old : old[k] = tbl[k]
  BY OccButLast
<1>2. tbl[n] \in S /\ DOMAIN tbl = 1..n /\ n \in Nat
  BY <1>1, LenProperties
<1> HIDE DEF old
<1>3. tbl = Append(old, tbl[n])
  <2> DEFINE again == Append(old, tbl[n])
  <2>1. Len(old) = n - 1
    <3>1. DOMAIN old = 1..Len(old) /\ Len(old) \in Nat
      BY <1>1, LenProperties
    <3> HIDE DEF n
    <3>2. n - 1 \in Nat
      BY <1>1, <1>2
    <3>3. 1..Len(old) = 1..(n - 1)
      BY <1>1, <3>1
    <3> QED
      BY <3>1, <3>2, <3>3
  <2>2. /\ again \in Seq(S) /\ Len(again) = Len(old) + 1 /\ again[Len(old) + 1] = tbl[n]
        /\ \A k \in 1..Len(old) : again[k] = old[k]
    BY <1>1, <1>2, AppendProperties
  <2> HIDE DEF again
  <2>3. Len(again) = Len(tbl) /\ \A k \in 1..Len(tbl) : tbl[k] = again[k]
    BY <1>1, <1>2, <2>1, <2>2
  <2>4. tbl = again
    BY <2>2, <2>3, SeqEqual
  <2> QED
    BY <2>4 DEF again
<1>4. Held(Append(old, tbl[n]), v) = Held(old, v) + (IF tbl[n].name = v THEN 1 ELSE 0)
  BY <1>1, <1>2, HeldAppend
<1> QED
  BY <1>3, <1>4 DEF old

\* No entry has a name that none is counted for.
LEMMA HeldAt ==
    ASSUME NEW S, Nameable(S), NEW tbl \in Seq(S), NEW v,
           NEW k \in DOMAIN tbl, tbl[k].name = v
    PROVE  Held(tbl, v) # 0
<1>1. /\ NamesOf(tbl) \in Seq(Nat) /\ DOMAIN NamesOf(tbl) = DOMAIN tbl
      /\ NamesOf(tbl)[k] = tbl[k].name /\ Held(tbl, v) = Occ(NamesOf(tbl), v)
  BY NamesSeq
<1> QED
  BY <1>1, OccAt

-----------------------------------------------------------------------------
(***************************************************************************)
(* The decoder.  Each step is a step of OptsDecode, leaves it alone, or    *)
(* loads a string; so that what OptsDecodeProofs shows of the string at    *)
(* hand is kept between the names that come and go.                        *)
(***************************************************************************)
DP == INSTANCE OptsDecodeProofs

DecoderInv == DP!LayoutInv /\ DP!ReadInv

LEMMA DecoderTypes == Decoder!TypeOK <=> DP!TypeOK
  BY DEF Decoder!TypeOK, DP!TypeOK, Decoder!EcdStr, DP!EcdStr

LEMMA Loaded ==
    ASSUME NEW e \in Seq(1..255), Decoder!Load(e)
    PROVE  DP!Init'
<1>1. DP!Start(e)'
  BY DEF Decoder!Load, DP!Start
<1> QED
  BY <1>1 DEF DP!Init, DP!EcdStr

LEMMA DecodingSame == Decoder!Decoding => DP!Next
<1>1. /\ Decoder!AtChar = DP!AtChar /\ Decoder!Char = DP!Char
      /\ Decoder!InKey = DP!InKey /\ Decoder!Decoded = DP!Decoded
      /\ Decoder!Shifted(bit) = DP!Shifted(bit)
      /\ Decoder!Decremented(DP!Char) = DP!Decremented(DP!Char)
      /\ Decoder!Scanning = DP!Scanning /\ Decoder!InBuf(dcd_pos) = DP!InBuf(dcd_pos)
      /\ Decoder!MayBeEnd = DP!MayBeEnd /\ Decoder!MayBeChar = DP!MayBeChar
  BY DEF Decoder!AtChar, DP!AtChar, Decoder!Char, DP!Char, Decoder!InKey, DP!InKey,
         Decoder!Decoded, DP!Decoded, Decoder!Shifted, DP!Shifted,
         Decoder!Decremented, DP!Decremented, Decoder!Scanning, DP!Scanning,
         Decoder!OptsLen, DP!OptsLen, Decoder!InBuf, DP!InBuf,
         Decoder!BufLen, DP!BufLen, Decoder!MayBeEnd, DP!MayBeEnd,
         Decoder!MayBeChar, DP!MayBeChar
<1>2. Decoder!KeyByte => DP!KeyByte
  BY <1>1 DEF Decoder!KeyByte, DP!KeyByte, Decoder!reader, DP!reader
<1>3. Decoder!DataByte => DP!DataByte
  BY <1>1 DEF Decoder!DataByte, DP!DataByte, Decoder!reader, DP!reader
<1>4. Decoder!Terminate => DP!Terminate
  BY DEF Decoder!Terminate, DP!Terminate, Decoder!reader, DP!reader
<1>5. Decoder!SkipOpts => DP!SkipOpts
  BY <1>1 DEF Decoder!SkipOpts, DP!SkipOpts, Decoder!OptsLen, DP!OptsLen
<1>6. Decoder!NextCell => DP!NextCell
  BY <1>1 DEF Decoder!NextCell, DP!NextCell
<1>7. Decoder!EndOfStr => DP!EndOfStr
  BY <1>1 DEF Decoder!EndOfStr, DP!EndOfStr, Decoder!AtEnd, DP!AtEnd
<1> QED
  BY <1>2, <1>3, <1>4, <1>5, <1>6, <1>7 DEF Decoder!Decoding, DP!Next, DP!Decoding

LEMMA DecoderMoves == [Next]_vars => [DP!Next]_(DP!vars) \/ DP!Init'
<1> SUFFICES ASSUME [Next]_vars PROVE [DP!Next]_(DP!vars) \/ DP!Init'
  OBVIOUS
<1>1. CASE UNCHANGED decoder \/ UNCHANGED vars
  BY <1>1 DEF decoder, vars, DP!vars
<1>2. CASE DecodeStep \/ HostReadsBehind
  BY <1>2, DecodingSame DEF DecodeStep, HostReadsBehind, Decoder!Decoding
<1>3. CASE HostBlk
  <2>1. PICK e \in EcdStrs : Decoder!Load(e)
    BY <1>3 DEF HostBlk
  <2> QED
    BY <2>1, Loaded, StaticAssumption
<1>4. CASE HostDone \/ HostFails
  <2>1. Decoder!Load(<<>>)
    BY <1>4 DEF HostDone, HostFails
  <2>2. <<>> \in Seq(1..255)
    OBVIOUS
  <2> QED
    BY <2>1, <2>2, Loaded
<1> QED
  BY <1>1, <1>2, <1>3, <1>4 DEF Next, Hosting, Ended

LEMMA DecoderInit == Init => DP!Init
<1> SUFFICES ASSUME Init PROVE DP!Init
  OBVIOUS
<1>1. DP!Start(<<>>)
  BY DEF Init, Decoder!Start, DP!Start
<1>2. <<>> \in Seq(1..255)
  OBVIOUS
<1> QED
  BY <1>1, <1>2 DEF DP!Init, DP!EcdStr

LEMMA DecoderAlways == Spec => []DecoderInv
<1>1. DP!Init => DecoderInv
  BY DP!LayoutInit, DP!ReadInit DEF DecoderInv
<1>2. (DP!Init => DecoderInv)'
  BY <1>1, PTL
<1>3. DecoderInv /\ [DP!Next]_(DP!vars) => DecoderInv'
  <2>1. DP!LayoutInv' => DP!TypeOK'
    BY DEF DP!LayoutInv
  <2> QED
    BY <2>1, DP!LayoutStep, DP!ReadStep DEF DecoderInv
<1>4. DecoderInv /\ [Next]_vars => DecoderInv'
  BY <1>2, <1>3, DecoderMoves
<1>5. Init => DecoderInv
  BY <1>1, DecoderInit
<1> QED
  BY <1>4, <1>5, PTL DEF Spec

\* The option string of the host block is decoded as its layout says, at every turn
\* of the loop and whatever becomes of the names (save_host_blk).
THEOREM DecodedCorrect == Spec => []DecodedSoFar
<1>1. DecoderInv => DecodedSoFar
  <2>1. DP!LayoutInv => DP!DecodedSoFar
    BY DP!LayoutDecoded
  <2> QED
    BY <2>1 DEF DecoderInv, DecodedSoFar, Decoder!DecodedSoFar, DP!DecodedSoFar,
           Decoder!Decoded, DP!Decoded, Decoder!CharsIn, DP!CharsIn,
           Decoder!Plain, DP!Plain, Decoder!BitOf, DP!BitOf, Decoder!BufLen, DP!BufLen
<1> QED
  BY <1>1, DecoderAlways, PTL

\* Of the buffer for the decoded string nothing behind its end is read, except where
\* the model says so (HostReadsBehind): save_game_opts takes its four cells unchecked.
THEOREM ReadCorrect == Spec => []OptsInBuffer
<1>1. DecoderInv => OptsInBuffer
  BY DEF DecoderInv, DP!ReadInv, DP!EndsAhead, DP!StrEnds, DP!BufLen, DP!OptsLen,
         OptsInBuffer, Decoder!OptsInBuffer, Decoder!StrEnds, Decoder!BufLen,
         Decoder!OptsLen
<1> QED
  BY <1>1, DecoderAlways, PTL

-----------------------------------------------------------------------------
(***************************************************************************)
(* The cursor and the place in process_stream.                             *)
(***************************************************************************)

\* What is no table, and that nothing is skipped or read twice.
CursorInv ==
    /\ pc \in Reading \cup Results \cup { "slots", "names", "deinit", "gone" }
    /\ build \in Builds /\ pos \in 0..Lim /\ blk_id \in 0..Unread /\ nfo \in 0..3
    /\ idx \in Nat /\ size \in Nat /\ pos = size
    /\ pc \in { "begin", "decode" } => nfo = 0

LEMMA Lengths ==
    /\ Lim \in Nat
    /\ \A n \in PrsnRecLens : n \in Nat
    /\ \A e \in EcdStrs : \A m \in HostMidLens(e) : m \in Nat
    /\ \A n \in SlotCnts \cup { 0 } : n \in Nat /\ n * SlotLen \in Nat
<1>1. \A n \in PrsnRecLens : n \in Nat
  BY StaticAssumption DEF PrsnRecLens
<1>2. \A e \in EcdStrs : \A m \in HostMidLens(e) : m \in Nat
  <2> SUFFICES ASSUME NEW e \in EcdStrs PROVE \A m \in HostMidLens(e) : m \in Nat
    OBVIOUS
  <2>1. Len(e) \in Nat
    BY StaticAssumption, LenProperties
  <2> QED
    BY <2>1, StaticAssumption DEF HostMidLens
<1>3. SlotLen \in { 7, 8, 9 }
  BY DEF SlotLen
<1>4. \A n \in SlotCnts \cup { 0 } : n \in Nat /\ n * SlotLen \in Nat
  <2> SUFFICES ASSUME NEW n \in SlotCnts \cup { 0 } PROVE n \in Nat /\ n * SlotLen \in Nat
    OBVIOUS
  <2>1. n \in Nat
    BY StaticAssumption
  <2>2. n * 7 \in Nat /\ n * 8 \in Nat /\ n * 9 \in Nat
    BY <2>1
  <2> QED
    BY <1>3, <2>1, <2>2
<1> QED
  BY <1>1, <1>2, <1>4, StaticAssumption

\* The expected block was read.
LEMMA ReadBlkKeeps ==
    ASSUME CursorInv, NEW n \in Nat, ReadBlk(n), nfo < 3
    PROVE  CursorInv'
  BY Lengths DEF CursorInv, ReadBlk, InStream, Reading, Unread

LEMMA CursorKeeps == CursorInv /\ [Next]_vars => CursorInv'
<1> SUFFICES ASSUME CursorInv, [Next]_vars PROVE CursorInv'
  OBVIOUS
<1>1. CASE Fail \/ Dangling
  BY <1>1 DEF Fail, Dangling, CursorInv, Results
<1>2. CASE Begin
  <2>1. CASE /\ 4 <= Lim /\ pc' = "blocks" /\ pos' = 4 /\ size' = 4
             /\ UNCHANGED <<build, blk_id, nfo, idx>>
    <3>1. pos' \in 0..Lim /\ size' \in Nat /\ pos' = size'
      BY <2>1, StaticAssumption
    <3> QED
      BY <2>1, <3>1 DEF CursorInv, Reading
  <2> QED
    BY <1>1, <1>2, <2>1 DEF Begin
<1>3. CASE NoMoreGuests
  BY <1>3 DEF NoMoreGuests, BlkIdIs, PutBack, HostId, JoinScrnId, NoId, NextNfo, CursorInv, Unread
<1>4. CASE BadHostBlk \/ BadGuestBlk \/ CutGuestBlk \/ BadJoinScrnBlk
  BY <1>1, <1>4 DEF BadHostBlk, BadGuestBlk, CutGuestBlk, BadJoinScrnBlk
<1>5. CASE CutBlkId \/ OtherBlk \/ NoSlots \/ CompleteFails \/ HostFails
  BY <1>1, <1>5 DEF CutBlkId, OtherBlk, NoSlots, CompleteFails, HostFails
<1>6. CASE HostBlk
  <2>1. PICK e \in EcdStrs : \E n \in PrsnRecLens, m \in HostMidLens(e) :
          /\ InStream(pos + 1 + n + m)
          /\ pos' = pos + 1 + n + m /\ size' = size + 1 + n + m
    BY <1>6 DEF HostBlk
  <2>2. PICK n \in PrsnRecLens, m \in HostMidLens(e) :
          /\ InStream(pos + 1 + n + m)
          /\ pos' = pos + 1 + n + m /\ size' = size + 1 + n + m
    BY <2>1
  <2>3. n \in Nat /\ m \in Nat
    BY Lengths
  <2>4. pos' \in 0..Lim /\ size' \in Nat /\ pos' = size'
    BY <2>2, <2>3, Lengths DEF CursorInv, InStream
  <2> QED
    BY <1>6, <2>4 DEF HostBlk, CursorInv, Reading, Unread
<1>7. CASE HostDone
  BY <1>7, ReadBlkKeeps DEF HostDone, HostEnd, CursorInv
<1>8. CASE DecodeStep \/ UNCHANGED vars
  BY <1>8 DEF DecodeStep, others, vars, CursorInv
<1>9. CASE HostReadsBehind
  BY <1>9 DEF HostReadsBehind, CursorInv, Results
<1>10. CASE GuestBlk
  <2>1. PICK n \in PrsnRecLens : ReadBlk(1 + n + 4)
    BY <1>10 DEF GuestBlk
  <2>2. 1 + n + 4 \in Nat /\ nfo < 3
    BY <1>10, Lengths DEF GuestBlk
  <2> QED
    BY <2>1, <2>2, ReadBlkKeeps
<1>11. CASE JoinScrnBlk
  <2>1. PICK n \in SlotCnts : ReadBlk(1 + 3 + n * SlotLen + 6)
    BY <1>11 DEF JoinScrnBlk
  <2>2. n * SlotLen \in Nat /\ nfo < 3
    BY <1>11, Lengths DEF JoinScrnBlk
  <2>3. 1 + 3 + n * SlotLen + 6 \in Nat
    BY <2>2
  <2> QED
    BY <2>1, <2>2, <2>3, ReadBlkKeeps
<1>12. CASE AllocJoiners
  <2>1. CASE pc' = "slots" /\ idx' = 1 /\ UNCHANGED stream
    BY <1>12, <2>1 DEF stream, CursorInv
  <2> QED
    BY <1>1, <1>12, <2>1 DEF AllocJoiners
<1>13. CASE AddJoiner
  <2>1. CASE pc' = pc /\ idx' = idx + 1 /\ UNCHANGED stream
    BY <2>1 DEF stream, CursorInv
  <2> QED
    BY <1>1, <1>13, <2>1 DEF AddJoiner
<1>14. CASE AllAdded
  BY <1>14 DEF AllAdded, stream, CursorInv
<1>15. CASE JoinGuest \/ JoinHost \/ CompleteJoiner
  <2>1. idx' = idx + 1 /\ pc' = pc /\ UNCHANGED stream
    BY <1>15 DEF JoinGuest, JoinHost, CompleteJoiner, NameJoiner
  <2> QED
    BY <2>1 DEF stream, CursorInv
<1>16. CASE Finish
  BY <1>16 DEF Finish, stream, CursorInv, Results
<1>17. CASE Freeing
  BY <1>17 DEF Freeing, Deinit, FreePerson, FreeJoiner, AllFreed, stream, CursorInv
<1>18. CASE Ended
  BY <1>8, <1>18 DEF Ended
<1> QED
  BY <1>2, <1>3, <1>4, <1>5, <1>6, <1>7, <1>8, <1>9, <1>10, <1>11, <1>12, <1>13, <1>14,
     <1>15, <1>16, <1>17, <1>18 DEF Next, Blocks, Joining, Hosting

LEMMA CursorAlways == Spec => []CursorInv
<1>1. Init => CursorInv
  BY Lengths DEF Init, CursorInv, Reading, Unread
<1> QED
  BY <1>1, CursorKeeps, PTL DEF Spec

\* process_stream reads the blocks one behind the other: nothing is skipped, and what
\* get_blk_id puts back is read once (save_static_blk_seq).
THEOREM ContiguousCorrect == Spec => []Contiguous
<1>1. CursorInv => Contiguous
  BY DEF CursorInv, Contiguous
<1> QED
  BY <1>1, CursorAlways, PTL

-----------------------------------------------------------------------------
(***************************************************************************)
(* The sorted table.  The rank of a joiner is its place in it; ranks are a *)
(* bijection, so that what is counted in the table does not change.        *)
(***************************************************************************)
Joiners == [id : Ids, name : Nat, host : BOOLEAN]

Before(k) == { j \in DOMAIN joiner_tbl : Precedes(j, k) }

Rank(k) == 1 + Cardinality(Before(k))

LEMMA JoinerTypes ==
    ASSUME joiner_tbl \in Seq(Joiners)
    PROVE  /\ DOMAIN joiner_tbl = 1..Len(joiner_tbl) /\ Len(joiner_tbl) \in Nat
           /\ IsFiniteSet(DOMAIN joiner_tbl) /\ Cardinality(DOMAIN joiner_tbl) = Len(joiner_tbl)
           /\ \A k \in DOMAIN joiner_tbl :
                /\ k \in Nat /\ joiner_tbl[k] \in Joiners
                /\ joiner_tbl[k].id \in Nat /\ joiner_tbl[k].id \in Ids
                /\ joiner_tbl[k].name \in Nat /\ joiner_tbl[k].host \in BOOLEAN
<1>1. DOMAIN joiner_tbl = 1..Len(joiner_tbl) /\ Len(joiner_tbl) \in Nat
  BY LenProperties
<1>2. IsFiniteSet(1..Len(joiner_tbl)) /\ Cardinality(1..Len(joiner_tbl)) = Len(joiner_tbl)
  BY <1>1, FS_Interval
<1>3. \A k \in DOMAIN joiner_tbl : k \in Nat /\ joiner_tbl[k] \in Joiners
  BY <1>1, ElementOfSeq
<1>4. \A e \in Joiners : e.id \in Ids /\ e.id \in Nat /\ e.name \in Nat /\ e.host \in BOOLEAN
  BY StaticAssumption DEF Joiners
<1> QED
  BY <1>1, <1>2, <1>3, <1>4

\* Precedes is a strict total order.
LEMMA PrecedesOrder ==
    ASSUME joiner_tbl \in Seq(Joiners),
           NEW i \in DOMAIN joiner_tbl, NEW j \in DOMAIN joiner_tbl, NEW k \in DOMAIN joiner_tbl
    PROVE  /\ ~Precedes(k, k)
           /\ Precedes(i, j) /\ Precedes(j, k) => Precedes(i, k)
           /\ j = k \/ Precedes(j, k) \/ Precedes(k, j)
<1>1. \A m \in { i, j, k } : m \in Nat /\ joiner_tbl[m].id \in Nat
  BY JoinerTypes
<1> QED
  BY <1>1 DEF Precedes

LEMMA RankGrows ==
    ASSUME joiner_tbl \in Seq(Joiners),
           NEW j \in DOMAIN joiner_tbl, NEW k \in DOMAIN joiner_tbl
    PROVE  /\ Rank(k) \in DOMAIN joiner_tbl
           /\ Precedes(j, k) => Rank(j) < Rank(k)
<1> DEFINE D == DOMAIN joiner_tbl
<1>1. D = 1..Len(joiner_tbl) /\ IsFiniteSet(D) /\ Cardinality(D) = Len(joiner_tbl)
      /\ Len(joiner_tbl) \in Nat
  BY JoinerTypes
<1>2. \A m \in D : IsFiniteSet(Before(m)) /\ Cardinality(Before(m)) \in Nat
  <2> TAKE m \in D
  <2>1. Before(m) \in SUBSET D
    BY DEF Before
  <2> QED
    BY <1>1, <2>1, FS_Subset, FS_CardinalityType
<1>3. Rank(k) \in D
  <2>1. Before(k) \in SUBSET (D \ { k })
    BY PrecedesOrder DEF Before
  <2>2. IsFiniteSet(D \ { k }) /\ Cardinality(D \ { k }) = Len(joiner_tbl) - 1
    BY <1>1, FS_RemoveElement
  <2>3. Cardinality(Before(k)) <= Len(joiner_tbl) - 1
    BY <2>1, <2>2, FS_Subset
  <2> QED
    BY <1>1, <1>2, <2>3 DEF Rank
<1>4. ASSUME Precedes(j, k) PROVE Rank(j) < Rank(k)
  <2>1. Before(j) \cup { j } \in SUBSET Before(k)
    BY <1>4, PrecedesOrder DEF Before
  <2>2. j \notin Before(j)
    BY PrecedesOrder DEF Before
  <2>3. Cardinality(Before(j) \cup { j }) = Cardinality(Before(j)) + 1
    BY <1>2, <2>2, FS_AddElement
  <2>4. Cardinality(Before(j) \cup { j }) <= Cardinality(Before(k))
    BY <1>2, <2>1, FS_Subset
  <2> QED
    BY <1>2, <2>3, <2>4 DEF Rank
<1> QED
  BY <1>3, <1>4

LEMMA RankBijection ==
    ASSUME joiner_tbl \in Seq(Joiners)
    PROVE  [k \in DOMAIN joiner_tbl |-> Rank(k)]
             \in Bijection(DOMAIN joiner_tbl, DOMAIN joiner_tbl)
<1> DEFINE D == DOMAIN joiner_tbl
           rank == [k \in D |-> Rank(k)]
<1>1. IsFiniteSet(D)
  BY JoinerTypes
<1>2. rank \in [D -> D] /\ \A k \in D : rank[k] \in Nat
  BY RankGrows, JoinerTypes
<1>3. \A j, k \in D : rank[j] = rank[k] => j = k
  <2> SUFFICES ASSUME NEW j \in D, NEW k \in D, j # k PROVE rank[j] # rank[k]
    OBVIOUS
  <2>1. Precedes(j, k) \/ Precedes(k, j)
    BY PrecedesOrder
  <2>2. rank[j] < rank[k] \/ rank[k] < rank[j]
    BY <2>1, RankGrows
  <2> HIDE DEF rank
  <2> QED
    BY <1>2, <2>2
<1> HIDE DEF D, rank
<1>4. rank \in Injection(D, D)
  BY <1>2, <1>3, Fun_IsInj
<1>5. rank \in Surjection(D, D)
  BY <1>1, <1>4, FS_Injection
<1>6. rank \in Bijection(D, D)
  BY <1>4, <1>5, Fun_IsBij
<1> QED
  BY <1>6 DEF rank, D

\* What tbl_sort leaves: a table of the same size, whose places are the ranks.
LEMMA Sorted ==
    ASSUME joiner_tbl \in Seq(Joiners), SortJoiners
    PROVE  /\ joiner_tbl' \in Seq(Joiners) /\ Len(joiner_tbl') = Len(joiner_tbl)
           /\ DOMAIN joiner_tbl' = DOMAIN joiner_tbl
           /\ \A k \in DOMAIN joiner_tbl :
                Rank(k) \in DOMAIN joiner_tbl /\ joiner_tbl'[Rank(k)] = joiner_tbl[k]
           /\ \A i \in DOMAIN joiner_tbl : \E k \in DOMAIN joiner_tbl : i = Rank(k)
<1> DEFINE D == DOMAIN joiner_tbl
<1>1. D = 1..Len(joiner_tbl) /\ Len(joiner_tbl) \in Nat /\ \A k \in D : joiner_tbl[k] \in Joiners
  BY JoinerTypes
<1>2. joiner_tbl' \in [D -> Joiners]
  <2>1. { joiner_tbl[k] : k \in D } \subseteq Joiners
    BY <1>1
  <2>2. joiner_tbl' \in [D -> { joiner_tbl[k] : k \in D }]
    BY DEF SortJoiners
  <2> QED
    BY <2>1, <2>2
<1>3. joiner_tbl' \in [1..Len(joiner_tbl) -> Joiners]
  BY <1>1, <1>2
<1>4. joiner_tbl' \in Seq(Joiners) /\ Len(joiner_tbl') = Len(joiner_tbl)
  BY <1>1, <1>3
<1>5. \A k \in D : joiner_tbl'[Rank(k)] = joiner_tbl[k]
  BY DEF SortJoiners, Rank, Before
<1>6. \A i \in D : \E k \in D : i = Rank(k)
  <2>1. [k \in D |-> Rank(k)] \in Surjection(D, D)
    BY RankBijection, Fun_BijectionProperties
  <2>2. \A i \in D : \E k \in D : [m \in D |-> Rank(m)][k] = i
    BY <2>1, Fun_SurjectionProperties
  <2> QED
    BY <2>2
<1> QED
  BY <1>2, <1>4, <1>5, <1>6, RankGrows

\* A column of the table has the same values after it was sorted, as often as before.
LEMMA SortedCount ==
    ASSUME joiner_tbl \in Seq(Joiners), SortJoiners,
           NEW P \in SUBSET Joiners
    PROVE  Cardinality({ i \in DOMAIN joiner_tbl' : joiner_tbl'[i] \in P })
             = Cardinality({ k \in DOMAIN joiner_tbl : joiner_tbl[k] \in P })
<1> DEFINE D == DOMAIN joiner_tbl
           Old == { k \in D : joiner_tbl[k] \in P }
           New == { i \in D : joiner_tbl'[i] \in P }
           rank == [k \in Old |-> Rank(k)]
<1>1. IsFiniteSet(Old)
  <2>1. Old \in SUBSET D
    OBVIOUS
  <2> QED
    BY <2>1, JoinerTypes, FS_Subset
<1>2. /\ DOMAIN joiner_tbl' = D
      /\ \A k \in D : Rank(k) \in D /\ joiner_tbl'[Rank(k)] = joiner_tbl[k]
      /\ \A i \in D : \E k \in D : i = Rank(k)
  BY Sorted
<1>3. \A j, k \in D : Rank(j) = Rank(k) => j = k
  <2> SUFFICES ASSUME NEW j \in D, NEW k \in D, Rank(j) = Rank(k) PROVE j = k
    OBVIOUS
  <2>1. [m \in D |-> Rank(m)][j] = [m \in D |-> Rank(m)][k]
    OBVIOUS
  <2> QED
    BY <2>1, RankBijection, Fun_BijectionProperties
<1>4. rank \in [Old -> New] /\ \A j, k \in Old : rank[j] = rank[k] => j = k
  BY <1>2, <1>3
<1>5. \A i \in New : \E k \in Old : rank[k] = i
  BY <1>2
<1> HIDE DEF Old, New, rank
<1>6. rank \in Bijection(Old, New)
  BY <1>4, <1>5, Fun_IsBij
<1>7. Cardinality(New) = Cardinality(Old)
  BY <1>1, <1>6, FS_Bijection DEF ExistsBijection
<1> QED
  BY <1>2, <1>7 DEF Old, New

LEMMA SortedHeld ==
    ASSUME joiner_tbl \in Seq(Joiners), SortJoiners, NEW v
    PROVE  Held(joiner_tbl', v) = Held(joiner_tbl, v)
<1> DEFINE P == { e \in Joiners : e.name = v }
<1>1. Cardinality({ i \in DOMAIN joiner_tbl' : joiner_tbl'[i] \in P })
        = Cardinality({ k \in DOMAIN joiner_tbl : joiner_tbl[k] \in P })
  BY SortedCount
<1>2. \A k \in DOMAIN joiner_tbl : joiner_tbl[k] \in Joiners
  BY JoinerTypes
<1>3. \A i \in DOMAIN joiner_tbl' : joiner_tbl'[i] \in Joiners
  BY <1>2, Sorted
<1>4. { k \in DOMAIN joiner_tbl : joiner_tbl[k] \in P }
        = { k \in DOMAIN joiner_tbl : joiner_tbl[k].name = v }
  BY <1>2
<1>5. { i \in DOMAIN joiner_tbl' : joiner_tbl'[i] \in P }
        = { i \in DOMAIN joiner_tbl' : joiner_tbl'[i].name = v }
  BY <1>3
<1> QED
  BY <1>1, <1>4, <1>5 DEF Held

-----------------------------------------------------------------------------
(***************************************************************************)
(* Who owns a name.  The invariant counts the owners of every number, the  *)
(* ones that are still to come too; a step moves one name, makes one or    *)
(* does nothing, and the sums are done by what a step does to its tables.  *)
(***************************************************************************)
TableType ==
    /\ host \in [id : Ids \cup { 0 }, name : Nat]
    /\ prsn_tbl \in Seq(Persons) /\ slot_tbl \in Seq(Slots) /\ joiner_tbl \in Seq(Joiners)
    /\ names \in Nat /\ freed \in Seq(1..names) /\ lost \subseteq 1..names

\* Every name that was allocated has one owner, and a name to come has none.
Counted == \A name \in Nat \ { NULL } : Owners(name) = IF name <= names THEN 1 ELSE 0

LEMMA PersonTypes ==
    ASSUME prsn_tbl \in Seq(Persons)
    PROVE  /\ DOMAIN prsn_tbl = 1..Len(prsn_tbl) /\ Len(prsn_tbl) \in Nat
           /\ \A k \in DOMAIN prsn_tbl :
                /\ k \in Nat /\ prsn_tbl[k] \in Persons
                /\ prsn_tbl[k].id \in Ids /\ prsn_tbl[k].name \in Nat
<1>1. DOMAIN prsn_tbl = 1..Len(prsn_tbl) /\ Len(prsn_tbl) \in Nat
  BY LenProperties
<1>2. \A k \in DOMAIN prsn_tbl : k \in Nat /\ prsn_tbl[k] \in Persons
  BY <1>1, ElementOfSeq
<1>3. \A e \in Persons : e.id \in Ids /\ e.name \in Nat
  BY DEF Persons
<1> QED
  BY <1>1, <1>2, <1>3

LEMMA NameTypes ==
    Nameable(Persons) /\ Nameable(Joiners)
  BY DEF Nameable, Persons, Joiners

LEMMA OwnersSum ==
    ASSUME TableType, NEW name
    PROVE  /\ Owners(name) = Held(prsn_tbl, name) + Held(joiner_tbl, name) + Occ(freed, name)
                               + (IF host.name = name THEN 1 ELSE 0)
                               + (IF name \in lost THEN 1 ELSE 0)
           /\ Held(prsn_tbl, name) \in Nat /\ Held(joiner_tbl, name) \in Nat
           /\ Occ(freed, name) \in Nat
<1>1. Held(prsn_tbl, name) \in Nat /\ Held(joiner_tbl, name) \in Nat
  BY NameTypes, NamesSeq DEF TableType
<1>2. Occ(freed, name) \in Nat
  BY OccType DEF TableType
<1> QED
  BY <1>1, <1>2 DEF Owners, Held, Occ

\* Nobody has a name that is still to come.
LEMMA NamesKnown ==
    ASSUME TableType, Counted
    PROVE  /\ host.name \in 0..names
           /\ \A k \in DOMAIN prsn_tbl : prsn_tbl[k].name \in 0..names
           /\ \A k \in DOMAIN joiner_tbl : joiner_tbl[k].name \in 0..names
<1>1. \A name \in Nat : name > names =>
        Held(prsn_tbl, name) = 0 /\ Held(joiner_tbl, name) = 0 /\ host.name # name
  <2> SUFFICES ASSUME NEW name \in Nat, name > names
               PROVE  Held(prsn_tbl, name) = 0 /\ Held(joiner_tbl, name) = 0
                        /\ host.name # name
    OBVIOUS
  <2>1. Owners(name) = 0
    BY DEF Counted, TableType, NULL
  <2> QED
    BY <2>1, OwnersSum
<1>2. host.name \in Nat /\ names \in Nat
  BY DEF TableType
<1>3. \A k \in DOMAIN prsn_tbl : prsn_tbl[k].name \in 0..names
  <2> SUFFICES ASSUME NEW k \in DOMAIN prsn_tbl, prsn_tbl[k].name \notin 0..names
               PROVE  FALSE
    OBVIOUS
  <2>1. prsn_tbl[k].name \in Nat /\ prsn_tbl[k].name > names
    BY <1>2, PersonTypes DEF TableType
  <2>2. Held(prsn_tbl, prsn_tbl[k].name) # 0
    BY NameTypes, HeldAt DEF TableType
  <2> QED
    BY <1>1, <2>1, <2>2
<1>4. \A k \in DOMAIN joiner_tbl : joiner_tbl[k].name \in 0..names
  <2> SUFFICES ASSUME NEW k \in DOMAIN joiner_tbl, joiner_tbl[k].name \notin 0..names
               PROVE  FALSE
    OBVIOUS
  <2>1. joiner_tbl[k].name \in Nat /\ joiner_tbl[k].name > names
    BY <1>2, JoinerTypes DEF TableType
  <2>2. Held(joiner_tbl, joiner_tbl[k].name) # 0
    BY NameTypes, HeldAt DEF TableType
  <2> QED
    BY <1>1, <2>1, <2>2
<1> QED
  BY <1>1, <1>2, <1>3, <1>4

LEMMA CountedKept ==
    ASSUME Counted, names' = names,
           \A name \in Nat \ { NULL } : Owners(name)' = Owners(name)
    PROVE  Counted'
  BY DEF Counted

LEMMA CountedNew ==
    ASSUME names \in Nat, Counted, names' = NewName,
           \A name \in Nat \ { NULL } :
             Owners(name)' = Owners(name) + (IF name = NewName THEN 1 ELSE 0)
    PROVE  Counted'
<1> SUFFICES ASSUME NEW name \in Nat \ { NULL }
             PROVE  Owners(name)' = IF name <= names' THEN 1 ELSE 0
  BY DEF Counted
<1>1. Owners(name) = IF name <= names THEN 1 ELSE 0
  BY DEF Counted
<1>2. Owners(name)' = Owners(name) + (IF name = names + 1 THEN 1 ELSE 0)
  BY DEF NewName
<1>3. names' = names + 1
  BY DEF NewName
<1> QED
  BY <1>1, <1>2, <1>3

\* The names that exist are still names when one more does.
LEMMA MoreNames ==
    ASSUME TableType, names' = NewName
    PROVE  names' \in Nat /\ names' # NULL /\ freed \in Seq(1..names') /\ lost \subseteq 1..names'
<1>1. names' \in Nat /\ names' # 0 /\ 1..names \subseteq 1..names' /\ names \in Nat
  BY DEF TableType, NewName
<1>2. freed \in Seq(1..names')
  BY <1>1, SeqMonotonic DEF TableType
<1> QED
  BY <1>1, <1>2 DEF TableType, NULL

-----------------------------------------------------------------------------
(***************************************************************************)
(* The moves of a name.                                                    *)
(***************************************************************************)

\* Nothing happens to the names.
LEMMA Quiet ==
    ASSUME TableType, Counted, UNCHANGED <<host, prsn_tbl, joiner_tbl, memory>>,
           slot_tbl' \in Seq(Slots)
    PROVE  TableType' /\ Counted'
<1>1. UNCHANGED <<host, prsn_tbl, joiner_tbl, names, freed, lost>>
  BY DEF memory
<1>2. TableType'
  BY <1>1 DEF TableType
<1>3. \A name \in Nat \ { NULL } : Owners(name)' = Owners(name)
  BY <1>1 DEF Owners
<1> QED
  BY <1>1, <1>2, <1>3, CountedKept

\* The host gets a name.
LEMMA HostGetsName ==
    ASSUME TableType, Counted, host.name = NULL, names' = NewName,
           NEW id \in Ids, host' = [id |-> id, name |-> NewName],
           UNCHANGED <<prsn_tbl, slot_tbl, joiner_tbl, freed, lost>>
    PROVE  TableType' /\ Counted' /\ host'.name # NULL
<1>1. host'.name = NewName /\ NewName \in Nat /\ NewName # NULL
      /\ host' \in [id : Ids \cup { 0 }, name : Nat]
  BY DEF TableType, NewName, NULL
<1>2. TableType'
  BY <1>1, MoreNames DEF TableType
<1>3. ASSUME NEW name \in Nat \ { NULL }
      PROVE  Owners(name)' = Owners(name) + (IF name = NewName THEN 1 ELSE 0)
  <2>1. Owners(name)' = Held(prsn_tbl, name) + Held(joiner_tbl, name) + Occ(freed, name)
                          + (IF NewName = name THEN 1 ELSE 0)
                          + (IF name \in lost THEN 1 ELSE 0)
    BY <1>1 DEF Owners, Held, Occ
  <2>2. host.name # name
    OBVIOUS
  <2> QED
    BY <2>1, <2>2, OwnersSum
<1> QED
  BY <1>1, <1>2, <1>3, CountedNew DEF TableType

\* A person comes with a new name.
LEMMA PersonComes ==
    ASSUME TableType, Counted, names' = NewName,
           NEW id \in Ids, prsn_tbl' = Append(prsn_tbl, [id |-> id, name |-> NewName]),
           UNCHANGED <<host, slot_tbl, joiner_tbl, freed, lost>>
    PROVE  TableType' /\ Counted'
<1> DEFINE e == [id |-> id, name |-> NewName]
<1>1. NewName \in Nat /\ e \in Persons /\ e.name = NewName
  BY DEF TableType, NewName, Persons
<1> HIDE DEF e
<1>2. prsn_tbl' = Append(prsn_tbl, e)
  BY DEF e
<1>3. TableType'
  <2>1. prsn_tbl' \in Seq(Persons)
    BY <1>1, <1>2, AppendProperties DEF TableType
  <2> QED
    BY <2>1, MoreNames DEF TableType
<1>4. ASSUME NEW name \in Nat \ { NULL }
      PROVE  Owners(name)' = Owners(name) + (IF name = NewName THEN 1 ELSE 0)
  <2>1. Held(prsn_tbl', name) = Held(prsn_tbl, name) + (IF NewName = name THEN 1 ELSE 0)
    <3>1. prsn_tbl \in Seq(Persons) /\ Nameable(Persons)
      BY NameTypes DEF TableType
    <3>2. Held(Append(prsn_tbl, e), name)
            = Held(prsn_tbl, name) + (IF e.name = name THEN 1 ELSE 0)
      BY <1>1, <3>1, HeldAppend
    <3> QED
      BY <1>1, <1>2, <3>2
  <2>2. Owners(name)' = Held(prsn_tbl', name) + Held(joiner_tbl, name) + Occ(freed, name)
                          + (IF host.name = name THEN 1 ELSE 0)
                          + (IF name \in lost THEN 1 ELSE 0)
    BY DEF Owners, Held, Occ
  <2> QED
    BY <2>1, <2>2, OwnersSum
<1> QED
  BY <1>3, <1>4, CountedNew DEF TableType

\* A name is stored in a person that is then freed without it.
LEMMA NameIsLost ==
    ASSUME TableType, Counted, names' = NewName, lost' = lost \cup { NewName },
           UNCHANGED <<tables, freed>>
    PROVE  TableType' /\ Counted'
<1>1. UNCHANGED <<host, prsn_tbl, slot_tbl, joiner_tbl, freed>>
  BY DEF tables
<1>2. NewName \in 1..NewName /\ NewName \notin lost
  BY DEF TableType, NewName
<1>3. TableType'
  BY <1>1, <1>2, MoreNames DEF TableType
<1>4. ASSUME NEW name \in Nat \ { NULL }
      PROVE  Owners(name)' = Owners(name) + (IF name = NewName THEN 1 ELSE 0)
  <2>1. Owners(name)' = Held(prsn_tbl, name) + Held(joiner_tbl, name) + Occ(freed, name)
                          + (IF host.name = name THEN 1 ELSE 0)
                          + (IF name \in lost' THEN 1 ELSE 0)
    BY <1>1 DEF Owners, Held, Occ
  <2>2. (IF name \in lost' THEN 1 ELSE 0)
          = (IF name \in lost THEN 1 ELSE 0) + (IF name = NewName THEN 1 ELSE 0)
    BY <1>2
  <2> QED
    BY <2>1, <2>2, OwnersSum
<1> QED
  BY <1>3, <1>4, CountedNew DEF TableType

\* What a name alone does to the entry of a joiner.
LEMMA JoinerNamed ==
    ASSUME joiner_tbl \in Seq(Joiners), NEW i \in DOMAIN joiner_tbl, NEW name \in Nat
    PROVE  [joiner_tbl EXCEPT ![i].name = name]
             = [joiner_tbl EXCEPT ![i] = [id |-> joiner_tbl[i].id, name |-> name,
                                          host |-> joiner_tbl[i].host]]
<1> DEFINE e == joiner_tbl[i]
<1>1. e = [id |-> e.id, name |-> e.name, host |-> e.host]
  BY JoinerTypes DEF Joiners
<1>2. [e EXCEPT !.name = name] = [id |-> e.id, name |-> name, host |-> e.host]
  BY <1>1
<1> QED
  BY <1>2

\* Joiner i, which has no name, gets one; the rest of Owners is for the caller.
LEMMA JoinerGetsName ==
    ASSUME joiner_tbl \in Seq(Joiners), NEW i \in DOMAIN joiner_tbl,
           joiner_tbl[i].name = NULL, NEW new_name \in Nat, NEW is_host \in BOOLEAN,
           joiner_tbl' = [joiner_tbl EXCEPT ![i] = [id |-> joiner_tbl[i].id,
                                                    name |-> new_name, host |-> is_host]]
    PROVE  /\ joiner_tbl' \in Seq(Joiners) /\ DOMAIN joiner_tbl' = DOMAIN joiner_tbl
           /\ joiner_tbl'[i].name = new_name
           /\ \A k \in DOMAIN joiner_tbl : k # i => joiner_tbl'[k] = joiner_tbl[k]
           /\ \A name \in Nat \ { NULL } :
                Held(joiner_tbl', name)
                  = Held(joiner_tbl, name) + (IF new_name = name THEN 1 ELSE 0)
<1> DEFINE e == [id |-> joiner_tbl[i].id, name |-> new_name, host |-> is_host]
<1>1. e \in Joiners /\ e.name = new_name
  BY JoinerTypes DEF Joiners
<1> HIDE DEF e
<1>2. joiner_tbl' = [joiner_tbl EXCEPT ![i] = e]
  BY DEF e
<1>3. i \in 1..Len(joiner_tbl) /\ DOMAIN joiner_tbl = 1..Len(joiner_tbl)
      /\ Len(joiner_tbl) \in Nat
  BY JoinerTypes
<1>4. /\ joiner_tbl' \in Seq(Joiners) /\ Len(joiner_tbl') = Len(joiner_tbl)
      /\ joiner_tbl'[i] = e
      /\ \A k \in DOMAIN joiner_tbl : k # i => joiner_tbl'[k] = joiner_tbl[k]
  BY <1>1, <1>2, <1>3, ExceptSeq
<1>5. SameBut(i, joiner_tbl, joiner_tbl')
  <2>1. DOMAIN joiner_tbl' = DOMAIN joiner_tbl
    BY <1>3, <1>4, LenProperties
  <2> QED
    BY <1>4, <2>1 DEF SameBut
<1>6. ASSUME NEW name \in Nat \ { NULL }
      PROVE  Held(joiner_tbl', name)
               = Held(joiner_tbl, name) + (IF new_name = name THEN 1 ELSE 0)
  <2>1. Nameable(Joiners)
    BY NameTypes
  <2>2. Held(joiner_tbl', name)
          = Held(joiner_tbl, name) - (IF joiner_tbl[i].name = name THEN 1 ELSE 0)
              + (IF joiner_tbl'[i].name = name THEN 1 ELSE 0)
    <3> DEFINE old == joiner_tbl
               new == joiner_tbl'
    <3>1. /\ Nameable(Joiners) /\ old \in Seq(Joiners) /\ new \in Seq(Joiners)
          /\ i \in DOMAIN old /\ SameBut(i, old, new)
      BY <1>4, <1>5, <2>1
    <3> HIDE DEF old, new
    <3>2. Held(new, name) = Held(old, name) - (IF old[i].name = name THEN 1 ELSE 0)
                              + (IF new[i].name = name THEN 1 ELSE 0)
      BY <3>1, HeldChange
    <3> QED
      BY <3>2 DEF old, new
  <2>3. joiner_tbl[i].name # name
    OBVIOUS
  <2>4. Held(joiner_tbl, name) \in Nat
    BY <2>1, NamesSeq
  <2> QED
    BY <1>1, <1>3, <1>4, <2>2, <2>3, <2>4
<1> QED
  BY <1>1, <1>4, <1>5, <1>6 DEF SameBut

\* A joiner comes without a name.
LEMMA JoinerComes ==
    ASSUME TableType, Counted, NEW id \in Ids,
           joiner_tbl' = Append(joiner_tbl, [id |-> id, name |-> NULL, host |-> FALSE]),
           UNCHANGED <<host, prsn_tbl, slot_tbl, memory>>
    PROVE  TableType' /\ Counted'
<1> DEFINE e == [id |-> id, name |-> NULL, host |-> FALSE]
<1>1. e \in Joiners /\ e.name = NULL
  BY DEF Joiners, NULL
<1> HIDE DEF e
<1>2. joiner_tbl' = Append(joiner_tbl, e) /\ UNCHANGED <<names, freed, lost>>
  BY DEF e, memory
<1>3. TableType'
  <2>1. joiner_tbl' \in Seq(Joiners)
    BY <1>1, <1>2, AppendProperties DEF TableType
  <2> QED
    BY <1>2, <2>1 DEF TableType
<1>4. ASSUME NEW name \in Nat \ { NULL } PROVE Owners(name)' = Owners(name)
  <2>1. joiner_tbl \in Seq(Joiners) /\ Nameable(Joiners)
    BY NameTypes DEF TableType
  <2>2. Held(Append(joiner_tbl, e), name)
          = Held(joiner_tbl, name) + (IF e.name = name THEN 1 ELSE 0)
    BY <1>1, <2>1, HeldAppend
  <2>3. Held(joiner_tbl', name) = Held(joiner_tbl, name)
    BY <1>1, <1>2, <2>2, OwnersSum
  <2> QED
    BY <1>2, <2>3 DEF Owners, Held
<1> QED
  BY <1>2, <1>3, <1>4, CountedKept

\* A joiner gets a name that was not there before.
LEMMA JoinerCompleted ==
    ASSUME TableType, Counted, NEW i \in DOMAIN joiner_tbl, joiner_tbl[i].name = NULL,
           NEW is_host \in BOOLEAN, names' = NewName,
           joiner_tbl' = [joiner_tbl EXCEPT ![i] = [id |-> joiner_tbl[i].id,
                                                    name |-> NewName, host |-> is_host]],
           UNCHANGED <<host, prsn_tbl, slot_tbl, freed, lost>>
    PROVE  TableType' /\ Counted'
<1>1. NewName \in Nat /\ joiner_tbl \in Seq(Joiners)
  BY DEF TableType, NewName
<1>2. /\ joiner_tbl' \in Seq(Joiners)
      /\ \A name \in Nat \ { NULL } :
           Held(joiner_tbl', name)
             = Held(joiner_tbl, name) + (IF NewName = name THEN 1 ELSE 0)
  BY <1>1, JoinerGetsName
<1>3. TableType'
  BY <1>2, MoreNames DEF TableType
<1>4. ASSUME NEW name \in Nat \ { NULL }
      PROVE  Owners(name)' = Owners(name) + (IF name = NewName THEN 1 ELSE 0)
  <2>1. Owners(name)' = Held(prsn_tbl, name) + Held(joiner_tbl', name) + Occ(freed, name)
                          + (IF host.name = name THEN 1 ELSE 0)
                          + (IF name \in lost THEN 1 ELSE 0)
    BY DEF Owners, Held, Occ
  <2>2. Held(joiner_tbl', name) = Held(joiner_tbl, name) + (IF NewName = name THEN 1 ELSE 0)
    BY <1>2
  <2> QED
    BY <2>1, <2>2, OwnersSum
<1> QED
  BY <1>3, <1>4, CountedNew DEF TableType

\* A joiner gets the name of person k.
LEMMA PersonHandsOver ==
    ASSUME TableType, Counted, NEW i \in DOMAIN joiner_tbl, joiner_tbl[i].name = NULL,
           NEW k \in DOMAIN prsn_tbl,
           joiner_tbl' = [joiner_tbl EXCEPT ![i] = [id |-> joiner_tbl[i].id,
                                                    name |-> prsn_tbl[k].name, host |-> FALSE]],
           prsn_tbl' = [prsn_tbl EXCEPT ![k] = Exported(@)],
           UNCHANGED <<host, slot_tbl, names, freed, lost>>
    PROVE  TableType' /\ Counted'
<1> DEFINE e == Exported(prsn_tbl[k])
<1>1. /\ prsn_tbl \in Seq(Persons) /\ joiner_tbl \in Seq(Joiners)
      /\ k \in 1..Len(prsn_tbl) /\ prsn_tbl[k] \in Persons /\ prsn_tbl[k].name \in Nat
  BY PersonTypes DEF TableType
<1>2. e \in Persons /\ e.name = NULL
  BY <1>1 DEF Exported, Persons, NULL
<1>3. prsn_tbl' = [prsn_tbl EXCEPT ![k] = e]
  OBVIOUS
<1> HIDE DEF e
<1>4. /\ prsn_tbl' \in Seq(Persons) /\ DOMAIN prsn_tbl' = DOMAIN prsn_tbl
      /\ prsn_tbl'[k] = e
      /\ SameBut(k, prsn_tbl, prsn_tbl')
  BY <1>1, <1>2, <1>3, ExceptSeq DEF SameBut
<1>5. /\ joiner_tbl' \in Seq(Joiners)
      /\ \A name \in Nat \ { NULL } :
           Held(joiner_tbl', name)
             = Held(joiner_tbl, name) + (IF prsn_tbl[k].name = name THEN 1 ELSE 0)
  BY <1>1, JoinerGetsName
<1>6. TableType'
  BY <1>4, <1>5 DEF TableType
<1>7. ASSUME NEW name \in Nat \ { NULL } PROVE Owners(name)' = Owners(name)
  <2>1. Held(prsn_tbl', name)
          = Held(prsn_tbl, name) - (IF prsn_tbl[k].name = name THEN 1 ELSE 0)
              + (IF prsn_tbl'[k].name = name THEN 1 ELSE 0)
    <3> DEFINE old == prsn_tbl
               new == prsn_tbl'
    <3>1. /\ Nameable(Persons) /\ old \in Seq(Persons) /\ new \in Seq(Persons)
          /\ k \in DOMAIN old /\ SameBut(k, old, new)
      BY <1>1, <1>4, NameTypes
    <3> HIDE DEF old, new
    <3>2. Held(new, name) = Held(old, name) - (IF old[k].name = name THEN 1 ELSE 0)
                              + (IF new[k].name = name THEN 1 ELSE 0)
      BY <3>1, HeldChange
    <3> QED
      BY <3>2 DEF old, new
  <2>2. Held(prsn_tbl', name)
          = Held(prsn_tbl, name) - (IF prsn_tbl[k].name = name THEN 1 ELSE 0)
    BY <1>2, <1>4, <2>1, OwnersSum
  <2>3. Owners(name)' = Held(prsn_tbl', name) + Held(joiner_tbl', name) + Occ(freed, name)
                          + (IF host.name = name THEN 1 ELSE 0)
                          + (IF name \in lost THEN 1 ELSE 0)
    BY DEF Owners, Held, Occ
  <2>4. Held(joiner_tbl', name)
          = Held(joiner_tbl, name) + (IF prsn_tbl[k].name = name THEN 1 ELSE 0)
    BY <1>5
  <2> QED
    BY <2>2, <2>3, <2>4, OwnersSum
<1> QED
  BY <1>6, <1>7, CountedKept

\* A joiner gets the name of the host.
LEMMA HostHandsOver ==
    ASSUME TableType, Counted, NEW i \in DOMAIN joiner_tbl, joiner_tbl[i].name = NULL,
           joiner_tbl' = [joiner_tbl EXCEPT ![i] = [id |-> joiner_tbl[i].id,
                                                    name |-> host.name, host |-> TRUE]],
           host' = Exported(host),
           UNCHANGED <<prsn_tbl, slot_tbl, names, freed, lost>>
    PROVE  TableType' /\ Counted'
<1>1. /\ joiner_tbl \in Seq(Joiners) /\ host.name \in Nat
      /\ host' \in [id : Ids \cup { 0 }, name : Nat] /\ host'.name = NULL
  BY DEF TableType, Exported, NULL
<1>2. /\ joiner_tbl' \in Seq(Joiners)
      /\ \A name \in Nat \ { NULL } :
           Held(joiner_tbl', name)
             = Held(joiner_tbl, name) + (IF host.name = name THEN 1 ELSE 0)
  BY <1>1, JoinerGetsName
<1>3. TableType'
  BY <1>1, <1>2 DEF TableType
<1>4. ASSUME NEW name \in Nat \ { NULL } PROVE Owners(name)' = Owners(name)
  <2>1. Owners(name)' = Held(prsn_tbl, name) + Held(joiner_tbl', name) + Occ(freed, name)
                          + (IF host'.name = name THEN 1 ELSE 0)
                          + (IF name \in lost THEN 1 ELSE 0)
    BY DEF Owners, Held, Occ
  <2>2. host'.name # name
    BY <1>1
  <2>3. Held(joiner_tbl', name) = Held(joiner_tbl, name) + (IF host.name = name THEN 1 ELSE 0)
    BY <1>2
  <2> QED
    BY <2>1, <2>2, <2>3, OwnersSum
<1> QED
  BY <1>3, <1>4, CountedKept

\* The table of joiners is sorted.
LEMMA JoinersSorted ==
    ASSUME TableType, Counted, SortJoiners,
           UNCHANGED <<host, prsn_tbl, slot_tbl, memory>>
    PROVE  TableType' /\ Counted'
<1>1. UNCHANGED <<host, prsn_tbl, slot_tbl, names, freed, lost>>
  BY DEF memory
<1>2. joiner_tbl \in Seq(Joiners)
  BY DEF TableType
<1>3. TableType'
  BY <1>1, <1>2, Sorted DEF TableType
<1>4. ASSUME NEW name \in Nat \ { NULL } PROVE Owners(name)' = Owners(name)
  <2>1. Held(joiner_tbl', name) = Held(joiner_tbl, name)
    BY <1>2, SortedHeld
  <2> QED
    BY <1>1, <2>1 DEF Owners, Held
<1> QED
  BY <1>1, <1>3, <1>4, CountedKept

LEMMA FreeNameAdds ==
    ASSUME TableType, NEW name \in 0..names, FreeName(name)
    PROVE  /\ freed' \in Seq(1..names)
           /\ \A v \in Nat \ { NULL } :
                Occ(freed', v) = Occ(freed, v) + (IF name = v THEN 1 ELSE 0)
<1>1. freed \in Seq(1..names) /\ names \in Nat
  BY DEF TableType
<1>2. CASE name = NULL
  <2>1. freed' = freed
    BY <1>2 DEF FreeName
  <2>2. \A v \in Nat \ { NULL } : name # v /\ Occ(freed, v) \in Nat
    BY <1>1, <1>2, OccType
  <2> QED
    BY <1>1, <2>1, <2>2
<1>3. CASE name # NULL
  <2>1. freed' = Append(freed, name) /\ name \in 1..names
    BY <1>1, <1>3 DEF FreeName, NULL
  <2>2. freed' \in Seq(1..names)
    BY <1>1, <2>1, AppendProperties
  <2>3. \A v : Occ(Append(freed, name), v) = Occ(freed, v) + (IF name = v THEN 1 ELSE 0)
    BY <1>1, <2>1, OccAppend
  <2> QED
    BY <2>1, <2>2, <2>3
<1> QED
  BY <1>2, <1>3

LEMMA HostFreed ==
    ASSUME TableType, Counted, FreeName(host.name), host' = Exported(host),
           UNCHANGED <<prsn_tbl, slot_tbl, joiner_tbl, names, lost>>
    PROVE  TableType' /\ Counted' /\ host'.name = NULL
<1>1. host' \in [id : Ids \cup { 0 }, name : Nat] /\ host'.name = NULL
  BY DEF TableType, Exported, NULL
<1>2. /\ freed' \in Seq(1..names)
      /\ \A v \in Nat \ { NULL } :
           Occ(freed', v) = Occ(freed, v) + (IF host.name = v THEN 1 ELSE 0)
  BY NamesKnown, FreeNameAdds
<1>3. TableType'
  BY <1>1, <1>2 DEF TableType
<1>4. ASSUME NEW name \in Nat \ { NULL } PROVE Owners(name)' = Owners(name)
  <2>1. Owners(name)' = Held(prsn_tbl, name) + Held(joiner_tbl, name) + Occ(freed', name)
                          + (IF host'.name = name THEN 1 ELSE 0)
                          + (IF name \in lost THEN 1 ELSE 0)
    BY DEF Owners, Held, Occ
  <2>2. host'.name # name
    BY <1>1
  <2>3. Occ(freed', name) = Occ(freed, name) + (IF host.name = name THEN 1 ELSE 0)
    BY <1>2
  <2> QED
    BY <2>1, <2>2, <2>3, OwnersSum
<1> QED
  BY <1>1, <1>3, <1>4, CountedKept

LEMMA PersonFreed ==
    ASSUME TableType, Counted, prsn_tbl # <<>>,
           FreeName(prsn_tbl[Len(prsn_tbl)].name), prsn_tbl' = ButLast(prsn_tbl),
           UNCHANGED <<host, slot_tbl, joiner_tbl, names, lost>>
    PROVE  TableType' /\ Counted'
<1> DEFINE last == prsn_tbl[Len(prsn_tbl)].name
<1>1. /\ Len(prsn_tbl) \in DOMAIN prsn_tbl /\ prsn_tbl' \in Seq(Persons)
      /\ prsn_tbl \in Seq(Persons) /\ Nameable(Persons)
  BY OccButLast, NameTypes DEF TableType
<1>2. last \in 0..names
  BY <1>1, NamesKnown
<1>3. /\ freed' \in Seq(1..names)
      /\ \A v \in Nat \ { NULL } : Occ(freed', v) = Occ(freed, v) + (IF last = v THEN 1 ELSE 0)
  BY <1>2, FreeNameAdds
<1>4. TableType'
  BY <1>1, <1>3 DEF TableType
<1>5. ASSUME NEW name \in Nat \ { NULL } PROVE Owners(name)' = Owners(name)
  <2>1. Owners(name)' = Held(prsn_tbl', name) + Held(joiner_tbl, name) + Occ(freed', name)
                          + (IF host.name = name THEN 1 ELSE 0)
                          + (IF name \in lost THEN 1 ELSE 0)
    BY DEF Owners, Held, Occ
  <2>2. Held(prsn_tbl, name) = Held(prsn_tbl', name) + (IF last = name THEN 1 ELSE 0)
    BY <1>1, HeldButLast
  <2>3. Held(prsn_tbl', name) \in Nat
    BY <1>1, NamesSeq
  <2>4. Occ(freed', name) = Occ(freed, name) + (IF last = name THEN 1 ELSE 0)
    BY <1>3
  <2> HIDE DEF last
  <2>5. Owners(name)' = Owners(name)
    <3>1. /\ Owners(name) = Held(prsn_tbl, name) + Held(joiner_tbl, name) + Occ(freed, name)
                             + (IF host.name = name THEN 1 ELSE 0)
                             + (IF name \in lost THEN 1 ELSE 0)
          /\ Held(joiner_tbl, name) \in Nat /\ Occ(freed, name) \in Nat
      BY OwnersSum
    <3> QED
      BY <2>1, <2>2, <2>3, <2>4, <3>1, SMTT(30)
  <2> QED
    BY <2>5
<1> QED
  BY <1>4, <1>5, CountedKept

LEMMA JoinerFreed ==
    ASSUME TableType, Counted, joiner_tbl # <<>>,
           FreeName(joiner_tbl[Len(joiner_tbl)].name), joiner_tbl' = ButLast(joiner_tbl),
           UNCHANGED <<host, prsn_tbl, slot_tbl, names, lost>>
    PROVE  TableType' /\ Counted'
<1> DEFINE last == joiner_tbl[Len(joiner_tbl)].name
<1>1. /\ Len(joiner_tbl) \in DOMAIN joiner_tbl /\ joiner_tbl' \in Seq(Joiners)
      /\ joiner_tbl \in Seq(Joiners) /\ Nameable(Joiners)
  BY OccButLast, NameTypes DEF TableType
<1>2. last \in 0..names
  BY <1>1, NamesKnown
<1>3. /\ freed' \in Seq(1..names)
      /\ \A v \in Nat \ { NULL } : Occ(freed', v) = Occ(freed, v) + (IF last = v THEN 1 ELSE 0)
  BY <1>2, FreeNameAdds
<1>4. TableType'
  BY <1>1, <1>3 DEF TableType
<1>5. ASSUME NEW name \in Nat \ { NULL } PROVE Owners(name)' = Owners(name)
  <2>1. Owners(name)' = Held(prsn_tbl, name) + Held(joiner_tbl', name) + Occ(freed', name)
                          + (IF host.name = name THEN 1 ELSE 0)
                          + (IF name \in lost THEN 1 ELSE 0)
    BY DEF Owners, Held, Occ
  <2>2. Held(joiner_tbl, name) = Held(joiner_tbl', name) + (IF last = name THEN 1 ELSE 0)
    BY <1>1, HeldButLast
  <2>3. Held(joiner_tbl', name) \in Nat
    BY <1>1, NamesSeq
  <2>4. Occ(freed', name) = Occ(freed, name) + (IF last = name THEN 1 ELSE 0)
    BY <1>3
  <2> HIDE DEF last
  <2>5. Owners(name)' = Owners(name)
    <3>1. /\ Owners(name) = Held(prsn_tbl, name) + Held(joiner_tbl, name) + Occ(freed, name)
                             + (IF host.name = name THEN 1 ELSE 0)
                             + (IF name \in lost THEN 1 ELSE 0)
          /\ Held(prsn_tbl, name) \in Nat /\ Occ(freed, name) \in Nat
      BY OwnersSum
    <3> QED
      BY <2>1, <2>2, <2>3, <2>4, <3>1, SMTT(30)
  <2> QED
    BY <2>5
<1> QED
  BY <1>4, <1>5, CountedKept

-----------------------------------------------------------------------------
(***************************************************************************)
(* Where the program stands, and who has a name there.                     *)
(***************************************************************************)
GivenUp == lost # {} => pc \in { "error", "deinit", "gone" } /\ nfo = 1

Named ==
    /\ pc = "begin" => host.name = NULL
    /\ pc = "blocks" => (host.name = NULL <=> nfo = 0)
    /\ pc \in { "decode", "slots" } => host.name # NULL
    /\ pc \in Reading => joiner_tbl = <<>>
    /\ pc \in Reading \cup { "slots" } =>
        \A k \in DOMAIN prsn_tbl : prsn_tbl[k].name # NULL
    /\ pc \in { "deinit", "gone" } => host.name = NULL
    /\ pc = "gone" => prsn_tbl = <<>> /\ joiner_tbl = <<>>

\* Where the loops of form_joiner_tbl stand: the joiners from idx on have no name yet.
Loops ==
    /\ pc = "slots" =>
        /\ idx \in 1..(Len(slot_tbl) + 1)
        /\ \A k \in DOMAIN joiner_tbl : joiner_tbl[k].name = NULL /\ ~joiner_tbl[k].host
    /\ pc = "names" =>
        /\ idx # 0
        /\ \A k \in DOMAIN joiner_tbl : k >= idx => joiner_tbl[k].name = NULL

OwnInv == CursorInv /\ TableType /\ Counted /\ GivenUp /\ Named /\ Loops

\* At the ends of process_stream nothing is asked of the tables.
LEMMA AtEnds ==
    ASSUME pc' \in { "error", "dangling", "wild_read", "parsed" }
    PROVE  Named' /\ Loops'
  BY DEF Named, Loops, Reading

\* No name is given up but with a bad guest block.
LEMMA NoneGivenUp ==
    ASSUME GivenUp, lost' = lost, pc \notin { "error", "deinit", "gone" }
    PROVE  GivenUp'
  BY DEF GivenUp

LEMMA QuietlyKept ==
    ASSUME OwnInv, UNCHANGED <<tables, memory>>
    PROVE  TableType' /\ Counted'
<1>1. UNCHANGED <<host, prsn_tbl, joiner_tbl, memory>> /\ slot_tbl' \in Seq(Slots)
  BY DEF OwnInv, TableType, tables
<1> QED
  BY <1>1, Quiet DEF OwnInv

LEMMA BeginOwns == OwnInv /\ Begin /\ CursorInv' => OwnInv'
<1> SUFFICES ASSUME OwnInv, Begin, CursorInv' PROVE OwnInv'
  OBVIOUS
<1>1. UNCHANGED <<tables, memory>> /\ pc = "begin"
      /\ pc' \in { "blocks", "error", "dangling" } /\ nfo' = nfo
  BY DEF Begin, Fail, Dangling
<1>2. TableType' /\ Counted'
  BY <1>1, QuietlyKept
<1>3. GivenUp'
  BY <1>1, NoneGivenUp DEF OwnInv, memory
<1>4. CASE pc' = "blocks"
  <2>1. UNCHANGED <<host, prsn_tbl, joiner_tbl>> /\ nfo = 0
    BY <1>1 DEF tables, OwnInv, CursorInv
  <2>2. Named' /\ Loops'
    BY <1>1, <1>4, <2>1 DEF OwnInv, Named, Loops, Reading
  <2> QED
    BY <1>2, <1>3, <2>2 DEF OwnInv
<1> QED
  BY <1>1, <1>2, <1>3, <1>4, AtEnds DEF OwnInv

\* Every error that leaves the tables alone.
LEMMA FailOwns ==
    ASSUME OwnInv, pc' \in { "error", "dangling", "wild_read" },
           UNCHANGED <<tables, memory>>, CursorInv',
           pc \notin { "error", "deinit", "gone" }
    PROVE  OwnInv'
<1>1. TableType' /\ Counted'
  BY QuietlyKept
<1>2. GivenUp'
  BY NoneGivenUp DEF OwnInv, memory
<1> QED
  BY <1>1, <1>2, AtEnds DEF OwnInv

LEMMA HostBlkOwns == OwnInv /\ (HostBlk \/ BadHostBlk) /\ CursorInv' => OwnInv'
<1> SUFFICES ASSUME OwnInv, HostBlk \/ BadHostBlk, CursorInv' PROVE OwnInv'
  OBVIOUS
<1>1. /\ pc = "blocks" /\ nfo = 0 /\ pc' \in { "decode", "error" }
      /\ UNCHANGED <<prsn_tbl, slot_tbl, joiner_tbl, freed, lost>>
  BY DEF HostBlk, BadHostBlk, BlkIdIs, Fail
<1>2. host.name = NULL
  BY <1>1 DEF OwnInv, Named
<1>3. GivenUp'
  BY <1>1, NoneGivenUp DEF OwnInv
<1>4. CASE \E id \in Ids : host' = [id |-> id, name |-> NewName] /\ names' = NewName
  <2>1. TableType' /\ Counted' /\ host'.name # NULL
    BY <1>1, <1>2, <1>4, HostGetsName DEF OwnInv
  <2>2. CASE pc' = "decode"
    <3>1. Named' /\ Loops'
      BY <1>1, <2>1, <2>2 DEF OwnInv, Named, Loops, Reading
    <3> QED
      BY <1>3, <2>1, <3>1 DEF OwnInv
  <2> QED
    BY <1>1, <1>3, <2>1, <2>2, AtEnds DEF OwnInv
<1>5. CASE UNCHANGED <<host, names>> /\ pc' = "error"
  BY <1>1, <1>5, FailOwns DEF tables, memory
<1> QED
  BY <1>1, <1>4, <1>5 DEF HostBlk, BadHostBlk, Fail

LEMMA GuestBlkOwns ==
    OwnInv /\ (GuestBlk \/ BadGuestBlk \/ CutGuestBlk) /\ CursorInv' => OwnInv'
<1> SUFFICES ASSUME OwnInv, GuestBlk \/ BadGuestBlk \/ CutGuestBlk, CursorInv' PROVE OwnInv'
  OBVIOUS
<1>1. pc = "blocks" /\ nfo = 1 /\ nfo' = 1 /\ pc' \in { "blocks", "error" }
  BY DEF GuestBlk, BadGuestBlk, CutGuestBlk, BlkIdIs, Fail, ReadBlk
<1>2. CASE GuestBlk \/ CutGuestBlk
  <2>1. PICK id \in Ids : prsn_tbl' = Append(prsn_tbl, [id |-> id, name |-> NewName])
    BY <1>2 DEF GuestBlk, CutGuestBlk
  <2>2. UNCHANGED <<host, slot_tbl, joiner_tbl, freed, lost>> /\ names' = NewName
    BY <1>2 DEF GuestBlk, CutGuestBlk
  <2>3. TableType' /\ Counted'
    BY <2>1, <2>2, PersonComes DEF OwnInv
  <2>4. GivenUp'
    BY <1>1, <2>2, NoneGivenUp DEF OwnInv
  <2>5. CASE pc' = "blocks"
    <3>1. \A k \in DOMAIN prsn_tbl' : prsn_tbl'[k].name # NULL
      <4> DEFINE e == [id |-> id, name |-> NewName]
      <4>1. prsn_tbl \in Seq(Persons) /\ e \in Persons /\ e.name # NULL
        BY DEF OwnInv, TableType, NewName, Persons, NULL
      <4> HIDE DEF e
      <4>2. prsn_tbl' = Append(prsn_tbl, e)
        BY <2>1 DEF e
      <4>3. /\ prsn_tbl' \in Seq(Persons) /\ Len(prsn_tbl') = Len(prsn_tbl) + 1
            /\ prsn_tbl'[Len(prsn_tbl) + 1] = e
            /\ \A k \in 1..Len(prsn_tbl) : prsn_tbl'[k] = prsn_tbl[k]
        BY <4>1, <4>2, AppendProperties
      <4>4. /\ DOMAIN prsn_tbl' = 1..(Len(prsn_tbl) + 1) /\ Len(prsn_tbl) \in Nat
            /\ DOMAIN prsn_tbl = 1..Len(prsn_tbl)
        BY <4>1, <4>3, LenProperties
      <4>5. \A k \in DOMAIN prsn_tbl : prsn_tbl[k].name # NULL
        BY <1>1 DEF OwnInv, Named, Reading
      <4> QED
        BY <4>1, <4>3, <4>4, <4>5
    <3>2. Named' /\ Loops'
      BY <1>1, <2>2, <2>5, <3>1 DEF OwnInv, Named, Loops, Reading
    <3> QED
      BY <2>3, <2>4, <3>2 DEF OwnInv
  <2> QED
    BY <1>1, <2>3, <2>4, <2>5, AtEnds DEF OwnInv
<1>3. CASE BadGuestBlk
  <2>1. pc' = "error" /\ UNCHANGED <<tables, freed>>
    BY <1>3 DEF BadGuestBlk, Fail
  <2>2. CASE UNCHANGED <<names, lost>>
    BY <1>1, <2>1, <2>2, FailOwns DEF memory
  <2>3. CASE names' = NewName /\ lost' = lost \cup { NewName }
    <3>1. TableType' /\ Counted'
      BY <2>1, <2>3, NameIsLost DEF OwnInv
    <3>2. GivenUp'
      BY <1>1, <2>1 DEF GivenUp
    <3> QED
      BY <2>1, <3>1, <3>2, AtEnds DEF OwnInv
  <2> QED
    BY <1>3, <2>2, <2>3 DEF BadGuestBlk
<1> QED
  BY <1>2, <1>3

LEMMA JoinScrnOwns == OwnInv /\ (JoinScrnBlk \/ BadJoinScrnBlk) /\ CursorInv' => OwnInv'
<1> SUFFICES ASSUME OwnInv, JoinScrnBlk \/ BadJoinScrnBlk, CursorInv' PROVE OwnInv'
  OBVIOUS
<1>1. /\ pc = "blocks" /\ nfo = 2 /\ pc' \in { "blocks", "error" }
      /\ UNCHANGED <<host, prsn_tbl, joiner_tbl, memory>>
      /\ pc' = "blocks" => nfo' = 3
  <2>1. CASE JoinScrnBlk
    <3>1. PICK n \in SlotCnts : ReadBlk(1 + 3 + n * SlotLen + 6)
      BY <2>1 DEF JoinScrnBlk
    <3>2. nfo = 2 /\ nfo' = 3 /\ pc' = "blocks"
      BY <2>1, <3>1 DEF JoinScrnBlk, ReadBlk
    <3> QED
      BY <2>1, <3>2 DEF JoinScrnBlk, BlkIdIs
  <2>2. CASE BadJoinScrnBlk
    BY <2>2 DEF BadJoinScrnBlk, BlkIdIs, Fail
  <2> QED
    BY <2>1, <2>2
<1>2. slot_tbl' \in Seq(Slots)
  <2>1. PICK n \in SlotCnts \cup { 0 } : slot_tbl' \in [1..n -> Slots]
    BY DEF JoinScrnBlk, BadJoinScrnBlk
  <2>2. n \in Nat
    BY Lengths
  <2> QED
    BY <2>1, <2>2
<1>3. TableType' /\ Counted'
  BY <1>1, <1>2, Quiet DEF OwnInv
<1>4. GivenUp'
  BY <1>1, NoneGivenUp DEF OwnInv, memory
<1>5. CASE pc' = "blocks"
  <2>1. Named' /\ Loops'
    BY <1>1, <1>5 DEF OwnInv, Named, Loops, Reading
  <2> QED
    BY <1>3, <1>4, <2>1 DEF OwnInv
<1> QED
  BY <1>1, <1>3, <1>4, <1>5, AtEnds DEF OwnInv

LEMMA AllocJoinersOwns == OwnInv /\ AllocJoiners /\ CursorInv' => OwnInv'
<1> SUFFICES ASSUME OwnInv, AllocJoiners, CursorInv' PROVE OwnInv'
  OBVIOUS
<1>1. UNCHANGED <<tables, memory>> /\ pc = "blocks" /\ nfo = 3
  BY DEF AllocJoiners
<1>2. CASE pc' = "slots" /\ idx' = 1
  <2>1. TableType' /\ Counted'
    BY <1>1, QuietlyKept
  <2>2. GivenUp'
    BY <1>1, NoneGivenUp DEF OwnInv, memory
  <2>3. UNCHANGED <<host, prsn_tbl, slot_tbl, joiner_tbl>> /\ joiner_tbl = <<>>
        /\ host.name # NULL
    BY <1>1 DEF tables, OwnInv, Named, Reading
  <2>4. Named'
    BY <1>1, <1>2, <2>3 DEF OwnInv, Named, Reading
  <2>5. Loops'
    <3>1. Len(slot_tbl) \in Nat /\ DOMAIN joiner_tbl = {}
      BY <2>3, LenProperties DEF OwnInv, TableType
    <3>2. idx' \in 1..(Len(slot_tbl') + 1)
      BY <1>2, <2>3, <3>1
    <3> QED
      BY <1>2, <2>3, <3>1, <3>2 DEF Loops
  <2> QED
    BY <2>1, <2>2, <2>4, <2>5 DEF OwnInv
<1>3. CASE pc' \in { "error", "dangling" }
  BY <1>1, <1>3, FailOwns
<1> QED
  BY <1>2, <1>3 DEF AllocJoiners, Fail, Dangling

LEMMA AddJoinerOwns == OwnInv /\ AddJoiner /\ CursorInv' => OwnInv'
<1> SUFFICES ASSUME OwnInv, AddJoiner, CursorInv' PROVE OwnInv'
  OBVIOUS
<1>1. /\ pc = "slots" /\ idx <= Len(slot_tbl)
      /\ UNCHANGED <<host, prsn_tbl, slot_tbl, memory>>
  BY DEF AddJoiner
<1>2. /\ joiner_tbl \in Seq(Joiners) /\ slot_tbl \in Seq(Slots)
      /\ Len(slot_tbl) \in Nat /\ idx \in 1..(Len(slot_tbl) + 1)
      /\ \A k \in DOMAIN joiner_tbl : joiner_tbl[k].name = NULL /\ ~joiner_tbl[k].host
  BY <1>1, LenProperties DEF OwnInv, TableType, Loops
<1>3. GivenUp'
  BY <1>1, NoneGivenUp DEF OwnInv, memory
<1>4. CASE pc' = "error" /\ UNCHANGED joiner_tbl
  BY <1>1, <1>4, FailOwns DEF tables
<1>5. ASSUME pc' = "slots", idx' = idx + 1, TableType', Counted',
             \A k \in DOMAIN joiner_tbl' :
               joiner_tbl'[k].name = NULL /\ ~joiner_tbl'[k].host
      PROVE  OwnInv'
  <2>1. Named'
    BY <1>1, <1>5 DEF OwnInv, Named, Reading
  <2>2. idx' \in 1..(Len(slot_tbl') + 1)
    BY <1>1, <1>2, <1>5
  <2>3. Loops'
    BY <1>5, <2>2 DEF Loops
  <2> QED
    BY <1>3, <1>5, <2>1, <2>3 DEF OwnInv
<1>6. CASE pc' = "slots" /\ idx' = idx + 1 /\ UNCHANGED joiner_tbl
  <2>1. TableType' /\ Counted'
    BY <1>1, <1>6, QuietlyKept DEF tables
  <2> QED
    BY <1>2, <1>5, <1>6, <2>1
<1>7. CASE /\ pc' = "slots" /\ idx' = idx + 1
           /\ joiner_tbl' = Append(joiner_tbl,
                                   [id |-> slot_tbl[idx].id, name |-> NULL, host |-> FALSE])
  <2>1. slot_tbl[idx].id \in Ids
    <3>1. idx \in 1..Len(slot_tbl)
      BY <1>1, <1>2
    <3>2. slot_tbl[idx] \in Slots
      BY <1>2, <3>1, ElementOfSeq
    <3> QED
      BY <3>2 DEF Slots
  <2>2. TableType' /\ Counted'
    BY <1>1, <1>7, <2>1, JoinerComes DEF OwnInv
  <2>3. \A k \in DOMAIN joiner_tbl' : joiner_tbl'[k].name = NULL /\ ~joiner_tbl'[k].host
    <3> DEFINE e == [id |-> slot_tbl[idx].id, name |-> NULL, host |-> FALSE]
    <3>1. e \in Joiners /\ e.name = NULL /\ ~e.host
      BY <2>1 DEF Joiners, NULL
    <3> HIDE DEF e
    <3>2. joiner_tbl' = Append(joiner_tbl, e)
      BY <1>7 DEF e
    <3>3. /\ joiner_tbl' \in Seq(Joiners) /\ Len(joiner_tbl') = Len(joiner_tbl) + 1
          /\ joiner_tbl'[Len(joiner_tbl) + 1] = e
          /\ \A k \in 1..Len(joiner_tbl) : joiner_tbl'[k] = joiner_tbl[k]
      BY <1>2, <3>1, <3>2, AppendProperties
    <3>4. /\ DOMAIN joiner_tbl' = 1..(Len(joiner_tbl) + 1) /\ Len(joiner_tbl) \in Nat
          /\ DOMAIN joiner_tbl = 1..Len(joiner_tbl)
      BY <1>2, <3>3, LenProperties
    <3> QED
      BY <1>2, <3>1, <3>3, <3>4
  <2> QED
    BY <1>5, <1>7, <2>2, <2>3
<1> QED
  BY <1>1, <1>4, <1>6, <1>7 DEF AddJoiner, Fail

LEMMA AllAddedOwns == OwnInv /\ AllAdded /\ CursorInv' => OwnInv'
<1> SUFFICES ASSUME OwnInv, AllAdded, CursorInv' PROVE OwnInv'
  OBVIOUS
<1>1. UNCHANGED <<tables, memory>> /\ pc = "slots" /\ pc' = "names" /\ idx' = 1
  BY DEF AllAdded
<1>2. TableType' /\ Counted'
  BY <1>1, QuietlyKept
<1>3. GivenUp'
  BY <1>1, NoneGivenUp DEF OwnInv, memory
<1>4. UNCHANGED joiner_tbl
  BY <1>1 DEF tables
<1>5. Named' /\ Loops'
  BY <1>1, <1>4 DEF OwnInv, Named, Loops, Reading
<1> QED
  BY <1>2, <1>3, <1>5 DEF OwnInv

\* Joiner idx has no name yet.
LEMMA AtJoinerNameless ==
    ASSUME OwnInv, AtJoiner
    PROVE  /\ joiner_tbl \in Seq(Joiners) /\ idx \in DOMAIN joiner_tbl
           /\ joiner_tbl[idx].name = NULL /\ joiner_tbl[idx].host \in BOOLEAN
           /\ joiner_tbl[idx].id \in Ids
           /\ \A k \in DOMAIN joiner_tbl : k \in Nat /\ (k >= idx => joiner_tbl[k].name = NULL)
<1>1. joiner_tbl \in Seq(Joiners) /\ pc = "names" /\ idx \in Nat /\ idx # 0
      /\ idx <= Len(joiner_tbl)
  BY DEF AtJoiner, OwnInv, TableType, Loops, CursorInv
<1>2. idx \in DOMAIN joiner_tbl
  BY <1>1, JoinerTypes
<1>3. \A k \in DOMAIN joiner_tbl : k >= idx => joiner_tbl[k].name = NULL
  BY <1>1 DEF OwnInv, Loops
<1> QED
  BY <1>1, <1>2, <1>3, JoinerTypes

\* What the entry becomes.
LEMMA NameJoinerSets ==
    ASSUME OwnInv, AtJoiner, NEW name \in Nat, NEW is_host \in BOOLEAN,
           NameJoiner(name, is_host)
    PROVE  /\ joiner_tbl' = [joiner_tbl EXCEPT ![idx] = [id |-> joiner_tbl[idx].id,
                                                         name |-> name, host |-> is_host]]
           /\ pc = "names" /\ pc' = "names" /\ idx' = idx + 1
           /\ UNCHANGED <<stream, slot_tbl, freed, lost>>
<1>1. [joiner_tbl EXCEPT ![idx].name = name, ![idx].host = is_host]
        = [joiner_tbl EXCEPT ![idx] = [id |-> joiner_tbl[idx].id, name |-> name,
                                       host |-> is_host]]
  <2> DEFINE e == joiner_tbl[idx]
  <2>1. e = [id |-> e.id, name |-> e.name, host |-> e.host]
    BY AtJoinerNameless, JoinerTypes DEF Joiners
  <2>2. [e EXCEPT !.name = name] = [id |-> e.id, name |-> name, host |-> e.host]
    BY <2>1
  <2>3. [e EXCEPT !.name = name, !.host = is_host]
          = [[e EXCEPT !.name = name] EXCEPT !.host = is_host]
    OBVIOUS
  <2>4. [joiner_tbl EXCEPT ![idx].name = name, ![idx].host = is_host]
          = [joiner_tbl EXCEPT ![idx] = [e EXCEPT !.name = name, !.host = is_host]]
    OBVIOUS
  <2> QED
    BY <2>2, <2>3, <2>4
<1> QED
  BY <1>1 DEF NameJoiner, AtJoiner

\* The joiners behind the one that got a name still have none.
LEMMA NextJoiner ==
    ASSUME OwnInv, AtJoiner, CursorInv', NEW name \in Nat, NEW is_host \in BOOLEAN,
           NameJoiner(name, is_host), TableType', Counted'
    PROVE  OwnInv'
<1>1. /\ joiner_tbl' = [joiner_tbl EXCEPT ![idx] = [id |-> joiner_tbl[idx].id,
                                                    name |-> name, host |-> is_host]]
      /\ pc = "names" /\ pc' = "names" /\ idx' = idx + 1 /\ lost' = lost
  BY NameJoinerSets
<1>2. /\ joiner_tbl \in Seq(Joiners) /\ idx \in DOMAIN joiner_tbl
      /\ joiner_tbl[idx].name = NULL /\ idx \in Nat
      /\ \A k \in DOMAIN joiner_tbl : k \in Nat /\ (k >= idx => joiner_tbl[k].name = NULL)
  BY AtJoinerNameless DEF OwnInv, CursorInv
<1>3. /\ DOMAIN joiner_tbl' = DOMAIN joiner_tbl
      /\ \A k \in DOMAIN joiner_tbl : k # idx => joiner_tbl'[k] = joiner_tbl[k]
  BY <1>1, <1>2, JoinerGetsName
<1>4. \A k \in DOMAIN joiner_tbl' : k >= idx' => joiner_tbl'[k].name = NULL
  <2> SUFFICES ASSUME NEW k \in DOMAIN joiner_tbl', k >= idx' PROVE joiner_tbl'[k].name = NULL
    OBVIOUS
  <2>1. k \in DOMAIN joiner_tbl /\ k \in Nat /\ k # idx /\ k >= idx
    BY <1>1, <1>2, <1>3
  <2> QED
    BY <1>2, <1>3, <2>1
<1>5. Loops'
  BY <1>1, <1>2, <1>4 DEF Loops
<1>6. Named'
  BY <1>1 DEF Named, Reading
<1>7. GivenUp'
  BY <1>1, NoneGivenUp DEF OwnInv
<1> QED
  BY <1>5, <1>6, <1>7 DEF OwnInv

LEMMA JoinOwns ==
    OwnInv /\ (JoinGuest \/ JoinHost \/ CompleteJoiner) /\ CursorInv' => OwnInv'
<1> SUFFICES ASSUME OwnInv, JoinGuest \/ JoinHost \/ CompleteJoiner, CursorInv' PROVE OwnInv'
  OBVIOUS
<1>1. AtJoiner /\ TableType /\ Counted
  BY DEF JoinGuest, JoinHost, CompleteJoiner, OwnInv
<1>2. idx \in DOMAIN joiner_tbl /\ joiner_tbl[idx].name = NULL
  BY <1>1, AtJoinerNameless
<1>3. CASE JoinGuest
  <2>1. PICK k \in DOMAIN prsn_tbl :
          /\ NameJoiner(prsn_tbl[k].name, FALSE)
          /\ prsn_tbl' = [prsn_tbl EXCEPT ![k] = Exported(@)]
    BY <1>3 DEF JoinGuest
  <2>2. prsn_tbl[k].name \in Nat
    BY <1>1, PersonTypes DEF TableType
  <2>3. /\ joiner_tbl' = [joiner_tbl EXCEPT ![idx] = [id |-> joiner_tbl[idx].id,
                                                      name |-> prsn_tbl[k].name, host |-> FALSE]]
        /\ UNCHANGED <<host, slot_tbl, names, freed, lost>>
    BY <1>1, <1>3, <2>1, <2>2, NameJoinerSets DEF JoinGuest
  <2>4. TableType' /\ Counted'
    BY <1>1, <1>2, <2>1, <2>3, PersonHandsOver
  <2> QED
    BY <1>1, <2>1, <2>2, <2>4, NextJoiner
<1>4. CASE JoinHost
  <2>1. host.name \in Nat /\ NameJoiner(host.name, TRUE) /\ host' = Exported(host)
    BY <1>1, <1>4 DEF JoinHost, TableType
  <2>2. /\ joiner_tbl' = [joiner_tbl EXCEPT ![idx] = [id |-> joiner_tbl[idx].id,
                                                      name |-> host.name, host |-> TRUE]]
        /\ UNCHANGED <<prsn_tbl, slot_tbl, names, freed, lost>>
    BY <1>1, <1>4, <2>1, NameJoinerSets DEF JoinHost
  <2>3. TableType' /\ Counted'
    BY <1>1, <1>2, <2>1, <2>2, HostHandsOver
  <2> QED
    BY <1>1, <2>1, <2>3, NextJoiner
<1>5. CASE CompleteJoiner
  <2>1. NewName \in Nat /\ NameJoiner(NewName, FALSE) /\ names' = NewName
    <3>1. NewName \in Nat
      BY <1>1 DEF TableType, NewName
    <3> QED
      BY <1>5, <3>1 DEF CompleteJoiner
  <2>2. /\ joiner_tbl' = [joiner_tbl EXCEPT ![idx] = [id |-> joiner_tbl[idx].id,
                                                      name |-> NewName, host |-> FALSE]]
        /\ UNCHANGED <<host, prsn_tbl, slot_tbl, freed, lost>>
    BY <1>1, <1>5, <2>1, NameJoinerSets DEF CompleteJoiner
  <2>3. TableType' /\ Counted'
    BY <1>1, <1>2, <2>1, <2>2, JoinerCompleted
  <2> QED
    BY <1>1, <2>1, <2>3, NextJoiner
<1> QED
  BY <1>3, <1>4, <1>5

LEMMA CompleteFailsOwns == OwnInv /\ CompleteFails /\ CursorInv' => OwnInv'
<1> SUFFICES ASSUME OwnInv, CompleteFails, CursorInv' PROVE OwnInv'
  OBVIOUS
<1>1. /\ AtJoiner /\ pc = "names" /\ pc' = "error"
      /\ UNCHANGED <<host, prsn_tbl, slot_tbl, freed, lost>>
  BY DEF CompleteFails, AtJoiner, Fail
<1>2. CASE UNCHANGED <<joiner_tbl, names>>
  BY <1>1, <1>2, FailOwns DEF tables, memory
<1>3. CASE joiner_tbl' = [joiner_tbl EXCEPT ![idx].name = NewName] /\ names' = NewName
  <2>1. /\ joiner_tbl \in Seq(Joiners) /\ idx \in DOMAIN joiner_tbl
        /\ joiner_tbl[idx].name = NULL /\ joiner_tbl[idx].host \in BOOLEAN
        /\ NewName \in Nat
    BY <1>1, AtJoinerNameless DEF OwnInv, TableType, NewName
  <2>2. [joiner_tbl EXCEPT ![idx].name = NewName]
          = [joiner_tbl EXCEPT ![idx] = [id |-> joiner_tbl[idx].id, name |-> NewName,
                                         host |-> joiner_tbl[idx].host]]
    BY <2>1, JoinerNamed
  <2>3. TableType' /\ Counted'
    BY <1>1, <1>3, <2>1, <2>2, JoinerCompleted DEF OwnInv
  <2>4. GivenUp'
    BY <1>1, NoneGivenUp DEF OwnInv
  <2> QED
    BY <1>1, <2>3, <2>4, AtEnds DEF OwnInv
<1> QED
  BY <1>2, <1>3 DEF CompleteFails

LEMMA FinishOwns == OwnInv /\ Finish /\ CursorInv' => OwnInv'
<1> SUFFICES ASSUME OwnInv, Finish, CursorInv' PROVE OwnInv'
  OBVIOUS
<1>1. pc = "names" /\ pc' \in { "parsed", "error", "wild_read" }
      /\ UNCHANGED <<host, prsn_tbl, slot_tbl, memory>>
  BY DEF Finish
<1>2. CASE SortJoiners
  <2>1. TableType' /\ Counted'
    BY <1>1, <1>2, JoinersSorted DEF OwnInv
  <2>2. GivenUp'
    BY <1>1, NoneGivenUp DEF OwnInv, memory
  <2> QED
    BY <1>1, <2>1, <2>2, AtEnds DEF OwnInv
<1>3. CASE pc' = "wild_read" /\ UNCHANGED joiner_tbl
  BY <1>1, <1>3, FailOwns DEF tables
<1> QED
  BY <1>2, <1>3 DEF Finish

LEMMA FreeingOwns == OwnInv /\ Freeing /\ CursorInv' => OwnInv'
<1> SUFFICES ASSUME OwnInv, Freeing, CursorInv' PROVE OwnInv'
  OBVIOUS
<1>1. CASE Deinit
  <2>1. /\ pc \in { "parsed", "error" } /\ pc' = "deinit" /\ nfo' = nfo
        /\ FreeName(host.name) /\ host' = Exported(host)
        /\ UNCHANGED <<prsn_tbl, slot_tbl, joiner_tbl, names, lost>>
    BY <1>1 DEF Deinit, stream
  <2>2. TableType' /\ Counted' /\ host'.name = NULL
    BY <2>1, HostFreed DEF OwnInv
  <2>3. GivenUp'
    BY <2>1 DEF OwnInv, GivenUp
  <2>4. Named' /\ Loops'
    BY <2>1, <2>2 DEF Named, Loops, Reading
  <2> QED
    BY <2>2, <2>3, <2>4 DEF OwnInv
<1>2. CASE FreePerson \/ FreeJoiner
  <2>1. /\ pc = "deinit" /\ pc' = "deinit" /\ nfo' = nfo /\ lost' = lost /\ host' = host
    BY <1>2 DEF FreePerson, FreeJoiner, stream
  <2>2. TableType' /\ Counted'
    <3>1. CASE FreePerson
      BY <3>1, PersonFreed DEF FreePerson, OwnInv
    <3>2. CASE FreeJoiner
      BY <3>2, JoinerFreed DEF FreeJoiner, OwnInv
    <3> QED
      BY <1>2, <3>1, <3>2
  <2>3. GivenUp'
    BY <2>1 DEF OwnInv, GivenUp
  <2>4. Named' /\ Loops'
    BY <2>1 DEF OwnInv, Named, Loops, Reading
  <2> QED
    BY <2>2, <2>3, <2>4 DEF OwnInv
<1>3. CASE AllFreed
  <2>1. /\ pc = "deinit" /\ pc' = "gone" /\ nfo' = nfo /\ UNCHANGED <<tables, memory>>
        /\ prsn_tbl = <<>> /\ joiner_tbl = <<>>
    BY <1>3 DEF AllFreed, stream
  <2>2. TableType' /\ Counted'
    BY <2>1, QuietlyKept
  <2>3. GivenUp'
    BY <2>1 DEF OwnInv, GivenUp, memory
  <2>4. UNCHANGED <<host, prsn_tbl, joiner_tbl>>
    BY <2>1 DEF tables
  <2>5. Named' /\ Loops'
    BY <2>1, <2>4 DEF OwnInv, Named, Loops, Reading
  <2> QED
    BY <2>2, <2>3, <2>5 DEF OwnInv
<1> QED
  BY <1>1, <1>2, <1>3 DEF Freeing

LEMMA StutterOwns == OwnInv /\ (UNCHANGED others) => OwnInv'
<1> SUFFICES ASSUME OwnInv, UNCHANGED others PROVE OwnInv'
  OBVIOUS
<1>1. UNCHANGED <<pc, build, pos, blk_id, nfo, size, idx>> /\ UNCHANGED <<tables, memory>>
      /\ UNCHANGED <<host, prsn_tbl, slot_tbl, joiner_tbl, lost>>
  BY DEF others, tables, memory
<1>2. TableType' /\ Counted'
  BY <1>1, QuietlyKept
<1>3. CursorInv' /\ GivenUp' /\ Named' /\ Loops'
  BY <1>1 DEF OwnInv, CursorInv, GivenUp, Named, Loops
<1> QED
  BY <1>2, <1>3 DEF OwnInv

LEMMA OwnKeeps == OwnInv /\ [Next]_vars => OwnInv'
<1> SUFFICES ASSUME OwnInv, [Next]_vars PROVE OwnInv'
  OBVIOUS
<1>1. CursorInv'
  BY CursorKeeps DEF OwnInv
<1>2. CASE Begin
  BY <1>1, <1>2, BeginOwns
<1>3. CASE Blocks
  <2>1. CASE NoMoreGuests
    <3>1. /\ UNCHANGED <<tables, memory>> /\ pc = "blocks" /\ pc' = "blocks"
          /\ nfo = 1 /\ nfo' = 2
      BY <2>1 DEF NoMoreGuests, BlkIdIs, NextNfo
    <3>2. TableType' /\ Counted'
      BY <3>1, QuietlyKept
    <3>3. GivenUp'
      BY <3>1, NoneGivenUp DEF OwnInv, memory
    <3>4. UNCHANGED <<host, prsn_tbl, joiner_tbl>>
      BY <3>1 DEF tables
    <3>5. Named' /\ Loops'
      BY <3>1, <3>4 DEF OwnInv, Named, Loops, Reading
    <3> QED
      BY <1>1, <3>2, <3>3, <3>5 DEF OwnInv
  <2>2. CASE CutBlkId \/ OtherBlk
    <3>1. pc = "blocks" /\ pc' = "error" /\ UNCHANGED <<tables, memory>>
      BY <2>2 DEF CutBlkId, OtherBlk, BlkIdIs, Fail
    <3> QED
      BY <1>1, <3>1, FailOwns
  <2> QED
    BY <1>1, <1>3, <2>1, <2>2, HostBlkOwns, GuestBlkOwns, JoinScrnOwns DEF Blocks
<1>4. CASE Joining
  <2>1. CASE NoSlots
    <3>1. pc = "slots" /\ pc' = "error" /\ UNCHANGED <<tables, memory>>
      BY <2>1 DEF NoSlots, Fail
    <3> QED
      BY <1>1, <3>1, FailOwns
  <2> QED
    BY <1>1, <1>4, <2>1, AllocJoinersOwns, AddJoinerOwns, AllAddedOwns, JoinOwns,
       CompleteFailsOwns, FinishOwns DEF Joining
<1>5. CASE Freeing
  BY <1>1, <1>5, FreeingOwns
<1>6. CASE Hosting
  <2>1. CASE HostDone
    <3>1. /\ UNCHANGED <<tables, memory>> /\ pc = "decode" /\ pc' = "blocks"
          /\ nfo = 0 /\ nfo' = 1
      BY <2>1 DEF HostDone, ReadBlk, OwnInv, CursorInv
    <3>2. TableType' /\ Counted'
      BY <3>1, QuietlyKept
    <3>3. GivenUp'
      BY <3>1, NoneGivenUp DEF OwnInv, memory
    <3>4. UNCHANGED <<host, prsn_tbl, joiner_tbl>>
      BY <3>1 DEF tables
    <3>5. Named' /\ Loops'
      BY <3>1, <3>4 DEF OwnInv, Named, Loops, Reading
    <3> QED
      BY <1>1, <3>2, <3>3, <3>5 DEF OwnInv
  <2>2. CASE HostFails \/ HostReadsBehind
    <3>1. pc = "decode" /\ pc' \in { "error", "wild_read" } /\ UNCHANGED <<tables, memory>>
      BY <2>2 DEF HostFails, HostReadsBehind, Fail
    <3> QED
      BY <1>1, <3>1, FailOwns
  <2>3. CASE DecodeStep
    BY <2>3, StutterOwns DEF DecodeStep
  <2> QED
    BY <1>1, <1>6, <2>1, <2>2, <2>3, HostBlkOwns DEF Hosting
<1>7. CASE Ended \/ UNCHANGED vars
  BY <1>7, StutterOwns DEF Ended, vars, others
<1> QED
  BY <1>2, <1>3, <1>4, <1>5, <1>6, <1>7 DEF Next

LEMMA OwnAlways == Spec => []OwnInv
<1>1. Init => OwnInv
  <2> SUFFICES ASSUME Init PROVE OwnInv
    OBVIOUS
  <2>1. CursorInv
    BY Lengths DEF Init, CursorInv, Reading, Unread
  <2>2. /\ host = [id |-> 0, name |-> NULL] /\ prsn_tbl = <<>> /\ slot_tbl = <<>>
        /\ joiner_tbl = <<>> /\ names = 0 /\ freed = <<>> /\ lost = {} /\ pc = "begin"
    BY DEF Init
  <2>3. TableType
    BY <2>2 DEF TableType, NULL
  <2>4. ASSUME NEW name \in Nat \ { NULL } PROVE Owners(name) = 0
    <3>1. { k \in DOMAIN prsn_tbl : prsn_tbl[k].name = name } = {}
          /\ { k \in DOMAIN joiner_tbl : joiner_tbl[k].name = name } = {}
          /\ { k \in DOMAIN freed : freed[k] = name } = {}
      BY <2>2
    <3>2. host.name # name /\ name \notin lost
      BY <2>2
    <3>3. Cardinality({}) = 0
      BY FS_EmptySet
    <3>4. Owners(name) = 0 + 0 + 0 + 0 + 0
      BY <3>1, <3>2, <3>3 DEF Owners
    <3> QED
      BY <3>4
  <2>5. Counted
    BY <2>2, <2>4 DEF Counted, NULL
  <2>6. GivenUp /\ Named /\ Loops
    BY <2>2 DEF GivenUp, Named, Loops, Reading
  <2> QED
    BY <2>1, <2>3, <2>5, <2>6 DEF OwnInv
<1> QED
  BY <1>1, OwnKeeps, PTL DEF Spec

\* Every variable keeps its type, whatever the stream holds and whenever memory fails.
THEOREM TypeCorrect == Spec => []TypeOK
<1>1. OwnInv /\ DecoderInv => TypeOK
  <2> SUFFICES ASSUME OwnInv, DecoderInv PROVE TypeOK
    OBVIOUS
  <2>1. Decoder!TypeOK
    BY DecoderTypes DEF DecoderInv, DP!LayoutInv
  <2>2. CursorInv /\ TableType
    BY DEF OwnInv
  <2>3. joiner_tbl \in Seq([id : Ids, name : Nat, host : BOOLEAN])
    BY <2>2 DEF TableType, Joiners
  <2> HIDE DEF OwnInv, DecoderInv
  <2> QED
    BY <2>1, <2>2, <2>3 DEF CursorInv, TableType, TypeOK
<1> QED
  BY <1>1, OwnAlways, DecoderAlways, PTL

\* A name belongs to the host, to one person, to one joiner or to nobody any more, at
\* every step and after every error; names are given up by bad guest blocks alone
\* (save_guest_blk, export_prsn_to_joiner, complete_joiner).
THEOREM OwnedCorrect == Spec => []OwnedOnce
<1>1. OwnInv => OwnedOnce
  <2> SUFFICES ASSUME OwnInv PROVE OwnedOnce
    OBVIOUS
  <2>1. names \in Nat /\ Counted /\ GivenUp
    BY DEF OwnInv, TableType
  <2>2. \A name \in 1..names : name \in Nat \ { NULL } /\ name <= names
    BY <2>1 DEF NULL
  <2> QED
    BY <2>1, <2>2 DEF Counted, GivenUp, OwnedOnce
<1> QED
  BY <1>1, OwnAlways, PTL

\* bract_wc3_deinit frees every name once, but for the ones that were given up.
THEOREM ReleasedCorrect == Spec => []ReleasedOnce
<1>1. OwnInv => ReleasedOnce
  <2> SUFFICES ASSUME OwnInv, pc = "gone", NEW name \in 1..names, name \notin lost
               PROVE  Occ(freed, name) = 1
    BY DEF ReleasedOnce, Occ
  <2>1. TableType /\ names \in Nat /\ name \in Nat \ { NULL } /\ name <= names
    BY DEF OwnInv, TableType, NULL
  <2>2. prsn_tbl = <<>> /\ joiner_tbl = <<>> /\ host.name = NULL
    BY DEF OwnInv, Named
  <2>3. Owners(name) = 1
    BY <2>1 DEF OwnInv, Counted
  <2>4. Held(prsn_tbl, name) = 0 /\ Held(joiner_tbl, name) = 0
    <3>1. { k \in DOMAIN <<>> : <<>>[k].name = name } = {}
      OBVIOUS
    <3> QED
      BY <2>2, <3>1, FS_EmptySet DEF Held
  <2>5. host.name # name
    BY <2>1, <2>2
  <2> QED
    BY <2>1, <2>3, <2>4, <2>5, OwnersSum
<1> QED
  BY <1>1, OwnAlways, PTL

-----------------------------------------------------------------------------
(***************************************************************************)
(* The joiners and the slots they come from.                               *)
(***************************************************************************)

\* The used slots that have got their joiners.
Added == IF pc = "slots" THEN { k \in UsedIds : k < idx } ELSE UsedIds

AddedWith(id) == { k \in Added : slot_tbl[k].id = id }

JoinersWith(id) == { k \in DOMAIN joiner_tbl : joiner_tbl[k].id = id }

JoinersSoFar ==
    pc \in { "slots", "names", "parsed" } =>
        /\ Len(joiner_tbl) = Cardinality(Added)
        /\ \A id \in Ids : Cardinality(JoinersWith(id)) = Cardinality(AddedWith(id))

\* Somebody before joiner n took the name that goes with this id.
Taken(id, n) ==
    \E j \in DOMAIN joiner_tbl :
        j < n /\ joiner_tbl[j].id = id /\ joiner_tbl[j].name # NULL

\* A name that is missing was taken by a joiner with the same id.
NamedSoFar ==
    pc = "names" =>
        /\ \A k \in DOMAIN joiner_tbl :
            /\ k < idx /\ joiner_tbl[k].name = NULL => Taken(joiner_tbl[k].id, k)
            /\ joiner_tbl[k].host => joiner_tbl[k].id = host.id /\ host.name = NULL
        /\ \A p \in DOMAIN prsn_tbl :
            prsn_tbl[p].name = NULL => Taken(prsn_tbl[p].id, idx)
        /\ host.name = NULL => Taken(host.id, idx)

LEMMA AddedTypes ==
    ASSUME TableType
    PROVE  /\ IsFiniteSet(UsedIds) /\ IsFiniteSet(Added)
           /\ \A id : IsFiniteSet(AddedWith(id))
           /\ \A k \in UsedIds : k \in 1..Len(slot_tbl)
<1>1. DOMAIN slot_tbl = 1..Len(slot_tbl) /\ Len(slot_tbl) \in Nat
  BY LenProperties DEF TableType
<1>2. IsFiniteSet(1..Len(slot_tbl))
  BY <1>1, FS_Interval
<1>3. UsedIds \in SUBSET (1..Len(slot_tbl)) /\ Added \in SUBSET (1..Len(slot_tbl))
  BY <1>1 DEF UsedIds, Added
<1>4. \A id : AddedWith(id) \in SUBSET (1..Len(slot_tbl))
  BY <1>3 DEF AddedWith
<1> QED
  BY <1>2, <1>3, <1>4, FS_Subset

LEMMA JoinersWithTypes ==
    ASSUME TableType
    PROVE  \A id : IsFiniteSet(JoinersWith(id)) /\ Cardinality(JoinersWith(id)) \in Nat
<1> SUFFICES ASSUME NEW id
             PROVE  IsFiniteSet(JoinersWith(id)) /\ Cardinality(JoinersWith(id)) \in Nat
  OBVIOUS
<1>1. IsFiniteSet(DOMAIN joiner_tbl) /\ JoinersWith(id) \in SUBSET DOMAIN joiner_tbl
  BY JoinerTypes DEF TableType, JoinersWith
<1> QED
  BY <1>1, FS_Subset, FS_CardinalityType

LEMMA AllocSoFar == OwnInv /\ AllocJoiners => JoinersSoFar'
<1> SUFFICES ASSUME OwnInv, AllocJoiners, pc' \in { "slots", "names", "parsed" }
             PROVE  JoinersSoFar'
  BY DEF JoinersSoFar
<1>1. pc' = "slots" /\ idx' = 1 /\ UNCHANGED tables /\ pc = "blocks"
  BY DEF AllocJoiners, Fail, Dangling
<1>2. joiner_tbl' = <<>> /\ slot_tbl' = slot_tbl
  BY <1>1 DEF OwnInv, Named, Reading, tables
<1>3. \A k \in UsedIds : k \in 1..Len(slot_tbl)
  BY AddedTypes DEF OwnInv
<1>4. UsedIds' = UsedIds
  BY <1>2 DEF UsedIds
<1>5. Added' = {}
  <2>1. Len(slot_tbl) \in Nat
    BY LenProperties DEF OwnInv, TableType
  <2> QED
    BY <1>1, <1>3, <1>4, <2>1 DEF Added
<1>6. \A id \in Ids : AddedWith(id)' = {} /\ JoinersWith(id)' = {}
  BY <1>2, <1>5 DEF AddedWith, JoinersWith
<1>7. Len(joiner_tbl') = 0
  BY <1>2
<1> QED
  BY <1>5, <1>6, <1>7, FS_EmptySet DEF JoinersSoFar

LEMMA AddSoFar == OwnInv /\ JoinersSoFar /\ AddJoiner => JoinersSoFar'
<1> SUFFICES ASSUME OwnInv, JoinersSoFar, AddJoiner, pc' \in { "slots", "names", "parsed" }
             PROVE  JoinersSoFar'
  BY DEF JoinersSoFar
<1>1. pc = "slots" /\ pc' = "slots" /\ idx' = idx + 1 /\ slot_tbl' = slot_tbl
      /\ idx <= Len(slot_tbl)
  BY DEF AddJoiner, Fail
<1>2. /\ slot_tbl \in Seq(Slots) /\ joiner_tbl \in Seq(Joiners) /\ TableType
      /\ Len(slot_tbl) \in Nat /\ DOMAIN slot_tbl = 1..Len(slot_tbl) /\ idx \in 1..Len(slot_tbl)
  BY <1>1, LenProperties DEF OwnInv, TableType, Loops
<1>3. UsedIds' = UsedIds /\ \A k \in UsedIds : k \in Nat
  BY <1>1, <1>2 DEF UsedIds
<1>4. Added' = { k \in UsedIds : k < idx + 1 } /\ Added = { k \in UsedIds : k < idx }
  BY <1>1, <1>3 DEF Added
<1>5. /\ Len(joiner_tbl) = Cardinality(Added)
      /\ \A id \in Ids : Cardinality(JoinersWith(id)) = Cardinality(AddedWith(id))
  BY <1>1 DEF JoinersSoFar
<1>6. CASE slot_tbl[idx].used
  <2> DEFINE e == [id |-> slot_tbl[idx].id, name |-> NULL, host |-> FALSE]
  <2>1. e \in Joiners /\ e.id = slot_tbl[idx].id /\ joiner_tbl' = Append(joiner_tbl, e)
    <3>1. slot_tbl[idx] \in Slots
      BY <1>2, ElementOfSeq
    <3> QED
      BY <1>1, <1>6, <3>1 DEF AddJoiner, Fail, Joiners, NULL, Slots
  <2> HIDE DEF e
  <2>2. /\ joiner_tbl' \in Seq(Joiners) /\ Len(joiner_tbl') = Len(joiner_tbl) + 1
        /\ joiner_tbl'[Len(joiner_tbl) + 1] = e
        /\ \A k \in 1..Len(joiner_tbl) : joiner_tbl'[k] = joiner_tbl[k]
    BY <1>2, <2>1, AppendProperties
  <2>3. /\ DOMAIN joiner_tbl' = 1..(Len(joiner_tbl) + 1) /\ Len(joiner_tbl) \in Nat
        /\ DOMAIN joiner_tbl = 1..Len(joiner_tbl)
    BY <1>2, <2>2, LenProperties
  <2>4. idx \in UsedIds /\ idx \notin Added /\ Added' = Added \cup { idx }
    <3>1. idx \in UsedIds
      BY <1>2, <1>6 DEF UsedIds
    <3>2. \A k \in UsedIds : k < idx + 1 <=> k < idx \/ k = idx
      BY <1>2, <1>3
    <3>3. idx \notin Added
      BY <1>2, <1>4
    <3>4. Added' = Added \cup { idx }
      BY <1>4, <3>1, <3>2
    <3> QED
      BY <3>1, <3>3, <3>4
  <2>5. Len(joiner_tbl') = Cardinality(Added')
    <3>1. IsFiniteSet(Added)
      BY <1>2, AddedTypes
    <3>2. Cardinality(Added') = Cardinality(Added) + 1
      BY <2>4, <3>1, FS_AddElement
    <3> QED
      BY <1>5, <2>2, <3>2
  <2>6. ASSUME NEW id \in Ids
        PROVE  Cardinality(JoinersWith(id)') = Cardinality(AddedWith(id)')
    <3>1. IsFiniteSet(AddedWith(id)) /\ IsFiniteSet(JoinersWith(id))
      BY <1>2, AddedTypes, JoinersWithTypes
    <3>2. CASE id = e.id
      <4>1. AddedWith(id)' = AddedWith(id) \cup { idx } /\ idx \notin AddedWith(id)
        BY <1>1, <2>1, <2>4, <3>2 DEF AddedWith
      <4>2. JoinersWith(id)' = JoinersWith(id) \cup { Len(joiner_tbl) + 1 }
            /\ Len(joiner_tbl) + 1 \notin JoinersWith(id)
        BY <2>2, <2>3, <3>2 DEF JoinersWith
      <4>3. Cardinality(AddedWith(id)') = Cardinality(AddedWith(id)) + 1
        BY <3>1, <4>1, FS_AddElement
      <4>4. Cardinality(JoinersWith(id)') = Cardinality(JoinersWith(id)) + 1
        BY <3>1, <4>2, FS_AddElement
      <4> QED
        BY <1>5, <4>3, <4>4
    <3>3. CASE id # e.id
      <4>1. AddedWith(id)' = AddedWith(id)
        BY <1>1, <2>1, <2>4, <3>3 DEF AddedWith
      <4>2. JoinersWith(id)' = JoinersWith(id)
        BY <2>2, <2>3, <3>3 DEF JoinersWith
      <4> QED
        BY <1>5, <4>1, <4>2
    <3> QED
      BY <3>2, <3>3
  <2> QED
    BY <2>5, <2>6 DEF JoinersSoFar
<1>7. CASE ~slot_tbl[idx].used
  <2>1. joiner_tbl' = joiner_tbl
    BY <1>7 DEF AddJoiner
  <2>2. idx \notin UsedIds
    BY <1>7 DEF UsedIds
  <2>3. \A k \in UsedIds : k < idx + 1 <=> k < idx
    BY <1>2, <1>3, <2>2
  <2>4. Added' = Added
    BY <1>4, <2>3
  <2>5. \A id \in Ids : AddedWith(id)' = AddedWith(id) /\ JoinersWith(id)' = JoinersWith(id)
    BY <1>1, <2>1, <2>4 DEF AddedWith, JoinersWith
  <2> QED
    BY <1>5, <2>1, <2>4, <2>5 DEF JoinersSoFar
<1> QED
  BY <1>6, <1>7

\* Where slots, ids of the joiners and the loop over the slots stay, so does the count.
LEMMA SameSoFar ==
    ASSUME JoinersSoFar, slot_tbl' = slot_tbl, DOMAIN joiner_tbl' = DOMAIN joiner_tbl,
           Len(joiner_tbl') = Len(joiner_tbl),
           \A k \in DOMAIN joiner_tbl : joiner_tbl'[k].id = joiner_tbl[k].id,
           pc \in { "names", "parsed" }, pc' \in { "names", "parsed" }
    PROVE  JoinersSoFar'
<1>1. Added' = Added
  BY DEF Added, UsedIds
<1>2. \A id \in Ids : AddedWith(id)' = AddedWith(id) /\ JoinersWith(id)' = JoinersWith(id)
  BY <1>1 DEF AddedWith, JoinersWith
<1> QED
  BY <1>1, <1>2 DEF JoinersSoFar

LEMMA AllAddedSoFar == OwnInv /\ JoinersSoFar /\ AllAdded => JoinersSoFar' /\ NamedSoFar'
<1> SUFFICES ASSUME OwnInv, JoinersSoFar, AllAdded PROVE JoinersSoFar' /\ NamedSoFar'
  OBVIOUS
<1>1. /\ pc = "slots" /\ pc' = "names" /\ idx > Len(slot_tbl) /\ idx' = 1
      /\ UNCHANGED <<host, prsn_tbl, slot_tbl, joiner_tbl>>
  BY DEF AllAdded, tables
<1>2. Added' = Added
  <2>1. \A k \in UsedIds : k < idx
    <3>1. Len(slot_tbl) \in Nat /\ idx \in Nat
      BY LenProperties DEF OwnInv, TableType, CursorInv
    <3> QED
      BY <1>1, <3>1, AddedTypes DEF OwnInv
  <2>2. UsedIds' = UsedIds
    BY <1>1 DEF UsedIds
  <2> QED
    BY <1>1, <2>1, <2>2 DEF Added
<1>3. \A id \in Ids : AddedWith(id)' = AddedWith(id) /\ JoinersWith(id)' = JoinersWith(id)
  BY <1>1, <1>2 DEF AddedWith, JoinersWith
<1>4. JoinersSoFar'
  BY <1>1, <1>2, <1>3 DEF JoinersSoFar
<1>5. NamedSoFar'
  <2>1. \A k \in DOMAIN joiner_tbl : k \in Nat /\ ~(k < 1) /\ ~joiner_tbl[k].host
    <3>1. \A k \in DOMAIN joiner_tbl : ~joiner_tbl[k].host
      BY <1>1 DEF OwnInv, Loops
    <3>2. \A k \in DOMAIN joiner_tbl : k \in Nat /\ ~(k < 1)
      BY JoinerTypes DEF OwnInv, TableType
    <3> QED
      BY <3>1, <3>2
  <2>2. host.name # NULL /\ \A p \in DOMAIN prsn_tbl : prsn_tbl[p].name # NULL
    BY <1>1 DEF OwnInv, Named
  <2> QED
    BY <1>1, <2>1, <2>2 DEF NamedSoFar
<1> QED
  BY <1>4, <1>5

\* What is left as it was, and what joiner idx becomes.
LEMMA JoinerStep ==
    ASSUME OwnInv, AtJoiner, NEW name \in Nat, NEW is_host \in BOOLEAN,
           NameJoiner(name, is_host)
    PROVE  /\ pc = "names" /\ pc' = "names" /\ idx' = idx + 1 /\ slot_tbl' = slot_tbl
           /\ idx \in DOMAIN joiner_tbl /\ idx \in Nat
           /\ DOMAIN joiner_tbl' = DOMAIN joiner_tbl /\ Len(joiner_tbl') = Len(joiner_tbl)
           /\ joiner_tbl'[idx] = [id |-> joiner_tbl[idx].id, name |-> name, host |-> is_host]
           /\ \A k \in DOMAIN joiner_tbl :
                k \in Nat /\ (k # idx => joiner_tbl'[k] = joiner_tbl[k])
<1> DEFINE e == [id |-> joiner_tbl[idx].id, name |-> name, host |-> is_host]
<1>1. /\ joiner_tbl' = [joiner_tbl EXCEPT ![idx] = e]
      /\ pc = "names" /\ pc' = "names" /\ idx' = idx + 1 /\ slot_tbl' = slot_tbl
  BY NameJoinerSets
<1>2. /\ joiner_tbl \in Seq(Joiners) /\ idx \in DOMAIN joiner_tbl /\ idx \in Nat
      /\ joiner_tbl[idx].id \in Ids
  BY AtJoinerNameless DEF OwnInv, CursorInv
<1>3. e \in Joiners
  BY <1>2 DEF Joiners
<1> HIDE DEF e
<1>4. idx \in 1..Len(joiner_tbl) /\ DOMAIN joiner_tbl = 1..Len(joiner_tbl)
      /\ Len(joiner_tbl) \in Nat
  BY <1>2, JoinerTypes
<1>5. /\ joiner_tbl' \in Seq(Joiners) /\ Len(joiner_tbl') = Len(joiner_tbl)
      /\ joiner_tbl'[idx] = e
      /\ \A k \in DOMAIN joiner_tbl : k # idx => joiner_tbl'[k] = joiner_tbl[k]
  BY <1>1, <1>2, <1>3, <1>4, ExceptSeq
<1>6. DOMAIN joiner_tbl' = DOMAIN joiner_tbl
  BY <1>4, <1>5, LenProperties
<1> QED
  BY <1>1, <1>2, <1>4, <1>5, <1>6 DEF e

\* The joiner at hand gets a name, or its person has lost it to a joiner before.
LEMMA NameJoinerSoFar ==
    ASSUME OwnInv, JoinersSoFar, NamedSoFar, AtJoiner,
           NEW name \in Nat, NEW is_host \in BOOLEAN, NameJoiner(name, is_host),
           name = NULL => Taken(joiner_tbl[idx].id, idx),
           is_host => joiner_tbl[idx].id = host'.id /\ host'.name = NULL,
           host'.id = host.id, host.name = NULL => host'.name = NULL,
           host'.name = NULL => host.name = NULL \/ joiner_tbl[idx].id = host.id,
           DOMAIN prsn_tbl' = DOMAIN prsn_tbl,
           \A p \in DOMAIN prsn_tbl :
             /\ prsn_tbl'[p].id = prsn_tbl[p].id
             /\ prsn_tbl'[p].name = NULL =>
                  prsn_tbl[p].name = NULL \/ joiner_tbl[idx].id = prsn_tbl[p].id
    PROVE  JoinersSoFar' /\ NamedSoFar'
<1>1. /\ pc = "names" /\ pc' = "names" /\ idx' = idx + 1 /\ slot_tbl' = slot_tbl
      /\ idx \in DOMAIN joiner_tbl /\ idx \in Nat
      /\ DOMAIN joiner_tbl' = DOMAIN joiner_tbl /\ Len(joiner_tbl') = Len(joiner_tbl)
      /\ joiner_tbl'[idx] = [id |-> joiner_tbl[idx].id, name |-> name, host |-> is_host]
      /\ \A k \in DOMAIN joiner_tbl :
           k \in Nat /\ (k # idx => joiner_tbl'[k] = joiner_tbl[k])
  BY JoinerStep
<1>2. \A k \in DOMAIN joiner_tbl : joiner_tbl'[k].id = joiner_tbl[k].id
  BY <1>1
<1>3. JoinersSoFar'
  BY <1>1, <1>2, SameSoFar
<1>4. Taken(joiner_tbl[idx].id, idx) \/ name # NULL
  OBVIOUS
<1>5. \A id : id = joiner_tbl[idx].id \/ Taken(id, idx) =>
        \E j \in DOMAIN joiner_tbl' :
          j < idx' /\ joiner_tbl'[j].id = id /\ joiner_tbl'[j].name # NULL
  <2> SUFFICES ASSUME NEW id, id = joiner_tbl[idx].id \/ Taken(id, idx)
               PROVE  \E j \in DOMAIN joiner_tbl' :
                        j < idx' /\ joiner_tbl'[j].id = id /\ joiner_tbl'[j].name # NULL
    OBVIOUS
  <2>1. CASE Taken(id, idx)
    <3>1. PICK j \in DOMAIN joiner_tbl :
            j < idx /\ joiner_tbl[j].id = id /\ joiner_tbl[j].name # NULL
      BY <2>1 DEF Taken
    <3>2. j \in Nat /\ j # idx /\ j < idx'
      BY <1>1, <3>1
    <3> QED
      BY <1>1, <3>1, <3>2
  <2>2. CASE id = joiner_tbl[idx].id /\ name # NULL
    <3>1. idx < idx' /\ joiner_tbl'[idx].id = id /\ joiner_tbl'[idx].name # NULL
      BY <1>1, <2>2
    <3> QED
      BY <1>1, <3>1
  <2> QED
    BY <1>4, <2>1, <2>2
<1>6. /\ \A k \in DOMAIN joiner_tbl :
           /\ k < idx /\ joiner_tbl[k].name = NULL => Taken(joiner_tbl[k].id, k)
           /\ joiner_tbl[k].host => joiner_tbl[k].id = host.id /\ host.name = NULL
      /\ \A p \in DOMAIN prsn_tbl : prsn_tbl[p].name = NULL => Taken(prsn_tbl[p].id, idx)
      /\ host.name = NULL => Taken(host.id, idx)
  BY <1>1 DEF NamedSoFar
<1>7. ASSUME NEW k \in DOMAIN joiner_tbl'
      PROVE  /\ k < idx' /\ joiner_tbl'[k].name = NULL =>
                  \E j \in DOMAIN joiner_tbl' :
                    j < k /\ joiner_tbl'[j].id = joiner_tbl'[k].id /\ joiner_tbl'[j].name # NULL
             /\ joiner_tbl'[k].host => joiner_tbl'[k].id = host'.id /\ host'.name = NULL
  <2>1. CASE k = idx
    <3>1. joiner_tbl'[k].host => joiner_tbl'[k].id = host'.id /\ host'.name = NULL
      BY <1>1, <2>1
    <3>2. ASSUME joiner_tbl'[k].name = NULL
          PROVE  \E j \in DOMAIN joiner_tbl' :
                   j < k /\ joiner_tbl'[j].id = joiner_tbl'[k].id /\ joiner_tbl'[j].name # NULL
      <4>1. Taken(joiner_tbl[idx].id, idx)
        BY <1>1, <2>1, <3>2
      <4>2. PICK j \in DOMAIN joiner_tbl :
              j < idx /\ joiner_tbl[j].id = joiner_tbl[idx].id /\ joiner_tbl[j].name # NULL
        BY <4>1 DEF Taken
      <4>3. j \in Nat /\ j # idx
        BY <1>1, <4>2
      <4> QED
        BY <1>1, <2>1, <4>2, <4>3
    <3> QED
      BY <3>1, <3>2
  <2>2. CASE k # idx
    <3>1. k \in DOMAIN joiner_tbl /\ k \in Nat /\ joiner_tbl'[k] = joiner_tbl[k]
      BY <1>1, <2>2
    <3>2. joiner_tbl'[k].host => joiner_tbl'[k].id = host'.id /\ host'.name = NULL
      BY <1>6, <3>1
    <3>3. ASSUME k < idx', joiner_tbl'[k].name = NULL
          PROVE  \E j \in DOMAIN joiner_tbl' :
                   j < k /\ joiner_tbl'[j].id = joiner_tbl'[k].id /\ joiner_tbl'[j].name # NULL
      <4>1. k < idx
        BY <1>1, <2>2, <3>1, <3>3
      <4>2. Taken(joiner_tbl[k].id, k)
        BY <1>6, <3>1, <3>3, <4>1
      <4>3. PICK j \in DOMAIN joiner_tbl :
              j < k /\ joiner_tbl[j].id = joiner_tbl[k].id /\ joiner_tbl[j].name # NULL
        BY <4>2 DEF Taken
      <4>4. j \in Nat /\ j # idx
        BY <1>1, <3>1, <4>1, <4>3
      <4> QED
        BY <1>1, <3>1, <4>3, <4>4
    <3> QED
      BY <3>2, <3>3
  <2> QED
    BY <2>1, <2>2
<1>8. ASSUME NEW p \in DOMAIN prsn_tbl', prsn_tbl'[p].name = NULL
       PROVE  \E j \in DOMAIN joiner_tbl' :
                j < idx' /\ joiner_tbl'[j].id = prsn_tbl'[p].id /\ joiner_tbl'[j].name # NULL
  <2>1. prsn_tbl'[p].id = joiner_tbl[idx].id \/ Taken(prsn_tbl'[p].id, idx)
    BY <1>6, <1>8
  <2> QED
    BY <1>5, <2>1
<1>9. ASSUME host'.name = NULL
       PROVE  \E j \in DOMAIN joiner_tbl' :
                j < idx' /\ joiner_tbl'[j].id = host'.id /\ joiner_tbl'[j].name # NULL
  <2>1. host'.id = joiner_tbl[idx].id \/ Taken(host'.id, idx)
    BY <1>6, <1>9
  <2> QED
    BY <1>5, <2>1
<1>10. NamedSoFar'
  BY <1>7, <1>8, <1>9 DEF NamedSoFar, Taken
<1> QED
  BY <1>3, <1>10

LEMMA JoinGuestSoFar ==
    OwnInv /\ JoinersSoFar /\ NamedSoFar /\ JoinGuest => JoinersSoFar' /\ NamedSoFar'
<1> SUFFICES ASSUME OwnInv, JoinersSoFar, NamedSoFar, JoinGuest
             PROVE  JoinersSoFar' /\ NamedSoFar'
  OBVIOUS
<1>1. AtJoiner /\ host' = host /\ prsn_tbl \in Seq(Persons) /\ pc = "names"
  BY DEF JoinGuest, AtJoiner, OwnInv, TableType
<1>2. PICK k \in DOMAIN prsn_tbl :
        /\ Found(k) /\ NameJoiner(prsn_tbl[k].name, FALSE)
        /\ prsn_tbl' = [prsn_tbl EXCEPT ![k] = Exported(@)]
  BY DEF JoinGuest
<1>3. /\ prsn_tbl[k].name \in Nat /\ prsn_tbl[k] \in Persons
      /\ prsn_tbl[k].id = joiner_tbl[idx].id
  BY <1>1, <1>2, PersonTypes DEF Found
<1>4. Exported(prsn_tbl[k]).id = prsn_tbl[k].id
  BY <1>3 DEF Exported, Persons
<1>5. /\ DOMAIN prsn_tbl' = DOMAIN prsn_tbl
      /\ \A p \in DOMAIN prsn_tbl :
           prsn_tbl'[p] = IF p = k THEN Exported(prsn_tbl[k]) ELSE prsn_tbl[p]
  BY <1>1, <1>2
<1>6. \A p \in DOMAIN prsn_tbl :
        /\ prsn_tbl'[p].id = prsn_tbl[p].id
        /\ prsn_tbl'[p].name = NULL =>
             prsn_tbl[p].name = NULL \/ joiner_tbl[idx].id = prsn_tbl[p].id
  BY <1>3, <1>4, <1>5
<1>7. prsn_tbl[k].name = NULL => Taken(joiner_tbl[idx].id, idx)
  BY <1>1, <1>3 DEF NamedSoFar
<1>8. NameJoiner(prsn_tbl[k].name, FALSE) /\ DOMAIN prsn_tbl' = DOMAIN prsn_tbl
      /\ host'.id = host.id /\ host'.name = host.name
  BY <1>1, <1>2, <1>5
<1> QED
  BY <1>1, <1>3, <1>6, <1>7, <1>8, NameJoinerSoFar

LEMMA JoinHostSoFar ==
    OwnInv /\ JoinersSoFar /\ NamedSoFar /\ JoinHost => JoinersSoFar' /\ NamedSoFar'
<1> SUFFICES ASSUME OwnInv, JoinersSoFar, NamedSoFar, JoinHost
             PROVE  JoinersSoFar' /\ NamedSoFar'
  OBVIOUS
<1>1. /\ AtJoiner /\ pc = "names" /\ host.id = joiner_tbl[idx].id /\ host.name \in Nat
      /\ NameJoiner(host.name, TRUE) /\ prsn_tbl' = prsn_tbl
  BY DEF JoinHost, AtJoiner, OwnInv, TableType
<1>2. host'.id = host.id /\ host'.name = NULL
  BY DEF JoinHost, Exported, OwnInv, TableType
<1>3. host.name = NULL => Taken(joiner_tbl[idx].id, idx)
  BY <1>1 DEF NamedSoFar
<1> QED
  BY <1>1, <1>2, <1>3, NameJoinerSoFar

LEMMA CompleteSoFar ==
    OwnInv /\ JoinersSoFar /\ NamedSoFar /\ CompleteJoiner => JoinersSoFar' /\ NamedSoFar'
<1> SUFFICES ASSUME OwnInv, JoinersSoFar, NamedSoFar, CompleteJoiner
             PROVE  JoinersSoFar' /\ NamedSoFar'
  OBVIOUS
<1>1. /\ AtJoiner /\ NameJoiner(NewName, FALSE) /\ prsn_tbl' = prsn_tbl /\ host' = host
  BY DEF CompleteJoiner
<1>2. NewName \in Nat /\ NewName # NULL
  BY DEF OwnInv, TableType, NewName, NULL
<1> QED
  BY <1>1, <1>2, NameJoinerSoFar

\* The sorted table has the joiners, their ids and their names as they were given.
LEMMA FinishMatches ==
    OwnInv /\ JoinersSoFar /\ NamedSoFar /\ Finish => JoinersSoFar' /\ JoinersMatchSlots'
<1> SUFFICES ASSUME OwnInv, JoinersSoFar, NamedSoFar, Finish
             PROVE  JoinersSoFar' /\ JoinersMatchSlots'
  OBVIOUS
<1>1. /\ pc = "names" /\ pc' \notin { "slots", "names" } /\ idx > Len(joiner_tbl)
      /\ host' = host /\ slot_tbl' = slot_tbl
      /\ pc' = "parsed" => SortJoiners
  BY DEF Finish
<1>2. SUFFICES ASSUME pc' = "parsed" PROVE JoinersSoFar' /\ JoinersMatchSlots'
  BY <1>1 DEF JoinersSoFar, JoinersMatchSlots
<1>3. SortJoiners /\ joiner_tbl \in Seq(Joiners)
  BY <1>1, <1>2 DEF OwnInv, TableType
<1> DEFINE D == DOMAIN joiner_tbl
<1>4. /\ DOMAIN joiner_tbl' = D /\ Len(joiner_tbl') = Len(joiner_tbl)
      /\ \A k \in D : Rank(k) \in D /\ joiner_tbl'[Rank(k)] = joiner_tbl[k]
      /\ \A i \in D : \E k \in D : i = Rank(k)
      /\ joiner_tbl' \in Seq(Joiners)
  BY <1>3, Sorted
<1>5. \A k \in D : k \in Nat /\ k < idx /\ joiner_tbl[k].id \in Nat
  <2>1. idx \in Nat
    BY DEF OwnInv, CursorInv
  <2> QED
    BY <1>1, <1>3, <2>1, JoinerTypes
<1>6. Added' = UsedIds /\ Added = UsedIds /\ UsedIds' = UsedIds
  BY <1>1, <1>2 DEF Added, UsedIds
<1>7. Len(joiner_tbl') = Cardinality(UsedIds)
  BY <1>1, <1>4, <1>6 DEF JoinersSoFar
<1>8. ASSUME NEW id \in Ids
      PROVE  Cardinality(JoinersWith(id)') = Cardinality({ k \in UsedIds : slot_tbl[k].id = id })
  <2> DEFINE P == { e \in Joiners : e.id = id }
  <2>1. Cardinality({ i \in DOMAIN joiner_tbl' : joiner_tbl'[i] \in P })
          = Cardinality({ k \in DOMAIN joiner_tbl : joiner_tbl[k] \in P })
    BY <1>3, SortedCount
  <2>2. /\ \A k \in DOMAIN joiner_tbl : joiner_tbl[k] \in Joiners
        /\ \A i \in DOMAIN joiner_tbl' : joiner_tbl'[i] \in Joiners
    BY <1>3, <1>4, JoinerTypes
  <2>3. { i \in DOMAIN joiner_tbl' : joiner_tbl'[i] \in P } = JoinersWith(id)'
        /\ { k \in DOMAIN joiner_tbl : joiner_tbl[k] \in P } = JoinersWith(id)
    BY <2>2 DEF JoinersWith
  <2>4. Cardinality(JoinersWith(id)) = Cardinality(AddedWith(id))
    BY <1>1 DEF JoinersSoFar
  <2> QED
    BY <1>6, <2>1, <2>3, <2>4 DEF AddedWith
<1>9. JoinersSoFar'
  <2>1. \A id \in Ids : AddedWith(id)' = { k \in UsedIds : slot_tbl[k].id = id }
    BY <1>1, <1>6 DEF AddedWith
  <2> QED
    BY <1>6, <1>7, <1>8, <2>1 DEF JoinersSoFar
<1>10. ASSUME NEW i \in D, NEW j \in D, i < j
       PROVE  joiner_tbl'[i].id <= joiner_tbl'[j].id
  <2>1. PICK a \in D : i = Rank(a)
    BY <1>4
  <2>2. PICK b \in D : j = Rank(b)
    BY <1>4
  <2>3. ~Precedes(b, a) /\ a # b
    <3>1. Precedes(b, a) => j < i
      BY <1>3, <2>1, <2>2, RankGrows
    <3>2. i \in Nat /\ j \in Nat
      BY <1>5
    <3> QED
      BY <1>10, <2>1, <2>2, <3>1, <3>2
  <2>4. Precedes(a, b)
    BY <1>3, <2>3, PrecedesOrder
  <2>5. joiner_tbl[a].id <= joiner_tbl[b].id
    BY <1>5, <2>4 DEF Precedes
  <2> QED
    BY <1>4, <2>1, <2>2, <2>5
<1>11. ASSUME NEW i \in D
       PROVE  /\ joiner_tbl'[i].name = NULL =>
                   \E j \in 1..(i - 1) :
                     joiner_tbl'[j].id = joiner_tbl'[i].id /\ joiner_tbl'[j].name # NULL
              /\ joiner_tbl'[i].host => joiner_tbl'[i].id = host.id /\ host.name = NULL
  <2>1. PICK k \in D : i = Rank(k)
    BY <1>4
  <2>2. joiner_tbl'[i] = joiner_tbl[k]
    BY <1>4, <2>1
  <2>3. joiner_tbl[k].host => joiner_tbl[k].id = host.id /\ host.name = NULL
    BY <1>1 DEF NamedSoFar
  <2>4. ASSUME joiner_tbl[k].name = NULL
        PROVE  \E j \in 1..(i - 1) :
                 joiner_tbl'[j].id = joiner_tbl'[i].id /\ joiner_tbl'[j].name # NULL
    <3>1. Taken(joiner_tbl[k].id, k)
      BY <1>1, <1>5, <2>4 DEF NamedSoFar
    <3>2. PICK m \in D : m < k /\ joiner_tbl[m].id = joiner_tbl[k].id /\ joiner_tbl[m].name # NULL
      BY <3>1 DEF Taken
    <3>3. Precedes(m, k)
      BY <3>2 DEF Precedes
    <3>4. Rank(m) < i /\ Rank(m) \in D
      BY <1>3, <2>1, <3>3, RankGrows
    <3>5. Rank(m) \in 1..(i - 1)
      <4>1. D = 1..Len(joiner_tbl) /\ Len(joiner_tbl) \in Nat
        BY <1>3, JoinerTypes
      <4> HIDE DEF D
      <4> QED
        BY <3>4, <4>1
    <3>6. joiner_tbl'[Rank(m)] = joiner_tbl[m]
      BY <1>4
    <3> QED
      BY <2>2, <3>2, <3>5, <3>6
  <2> QED
    BY <2>2, <2>3, <2>4
<1>12. JoinersMatchSlots'
  <2>1. UsedIds' = UsedIds /\ host' = host /\ slot_tbl' = slot_tbl
    BY <1>1, <1>6
  <2> QED
    BY <1>4, <1>7, <1>8, <1>10, <1>11, <2>1 DEF JoinersMatchSlots, JoinersWith
<1> QED
  BY <1>9, <1>12

MatchInv == OwnInv /\ JoinersSoFar /\ NamedSoFar /\ JoinersMatchSlots

LEMMA MatchKeeps == MatchInv /\ [Next]_vars => MatchInv'
<1> SUFFICES ASSUME MatchInv, [Next]_vars PROVE MatchInv'
  OBVIOUS
<1>1. OwnInv' /\ OwnInv /\ JoinersSoFar /\ NamedSoFar /\ JoinersMatchSlots
  BY OwnKeeps DEF MatchInv
<1>2. CASE pc' \notin { "slots", "names", "parsed" }
  BY <1>1, <1>2 DEF MatchInv, JoinersSoFar, NamedSoFar, JoinersMatchSlots
<1>3. CASE UNCHANGED others
  BY <1>1, <1>3 DEF others, MatchInv, JoinersSoFar, Added, UsedIds, AddedWith, JoinersWith,
                    NamedSoFar, Taken, JoinersMatchSlots
<1>4. CASE AllocJoiners
  <2>1. pc' \notin { "names", "parsed" }
    BY <1>4 DEF AllocJoiners, Fail, Dangling
  <2> QED
    BY <1>1, <1>4, <2>1, AllocSoFar DEF MatchInv, NamedSoFar, JoinersMatchSlots
<1>5. CASE AddJoiner
  <2>1. pc' \notin { "names", "parsed" }
    BY <1>5 DEF AddJoiner, Fail
  <2> QED
    BY <1>1, <1>5, <2>1, AddSoFar DEF MatchInv, NamedSoFar, JoinersMatchSlots
<1>6. CASE AllAdded
  <2>1. pc' = "names"
    BY <1>6 DEF AllAdded
  <2> QED
    BY <1>1, <1>6, <2>1, AllAddedSoFar DEF MatchInv, JoinersMatchSlots
<1>7. CASE JoinGuest \/ JoinHost \/ CompleteJoiner
  <2>1. pc' = "names"
    BY <1>7 DEF JoinGuest, JoinHost, CompleteJoiner, NameJoiner, AtJoiner
  <2>2. JoinersSoFar' /\ NamedSoFar'
    BY <1>1, <1>7, JoinGuestSoFar, JoinHostSoFar, CompleteSoFar
  <2> QED
    BY <1>1, <2>1, <2>2 DEF MatchInv, JoinersMatchSlots
<1>8. CASE Finish
  <2>1. pc' # "names"
    BY <1>8 DEF Finish
  <2> QED
    BY <1>1, <1>8, <2>1, FinishMatches DEF MatchInv, NamedSoFar
<1>9. CASE Begin \/ Blocks \/ Freeing
  <2>1. pc' \notin { "slots", "names", "parsed" }
    BY <1>9 DEF Begin, Fail, Dangling, Freeing, Deinit, FreePerson, FreeJoiner, AllFreed,
                Blocks, CutBlkId, OtherBlk, NoMoreGuests, BadHostBlk, GuestBlk, BadGuestBlk,
                CutGuestBlk, JoinScrnBlk, BadJoinScrnBlk, BlkIdIs, ReadBlk
  <2> QED
    BY <1>2, <2>1
<1>10. CASE NoSlots \/ CompleteFails
  <2>1. pc' = "error"
    BY <1>10 DEF NoSlots, CompleteFails, Fail
  <2> QED
    BY <1>2, <2>1
<1>11. CASE Hosting
  <2>1. DecodeStep \/ pc' \notin { "slots", "names", "parsed" }
    BY <1>11 DEF Hosting, HostBlk, HostDone, HostFails, HostReadsBehind, ReadBlk, Fail
  <2> QED
    BY <1>2, <1>3, <2>1 DEF DecodeStep
<1>12. CASE Ended \/ UNCHANGED vars
  BY <1>3, <1>12 DEF Ended, vars, others
<1> QED
  BY <1>4, <1>5, <1>6, <1>7, <1>8, <1>9, <1>10, <1>11, <1>12 DEF Next, Joining

\* Where process_stream gets to the end of the static part, there is a joiner for every
\* used slot, by id; one without a name has the id of a joiner before it that took the
\* name, and one that is marked as the host has the host's (form_joiner_tbl).
THEOREM JoinersCorrect == Spec => []JoinersMatchSlots
<1>1. OwnInv /\ Init => MatchInv
  BY DEF Init, MatchInv, JoinersSoFar, NamedSoFar, JoinersMatchSlots
<1>2. MatchInv => JoinersMatchSlots
  BY DEF MatchInv
<1> QED
  BY <1>1, <1>2, OwnAlways, MatchKeeps, PTL DEF Spec

-----------------------------------------------------------------------------
(***************************************************************************)
(* Progress.  What a step does to the rank is shown for each of them; that *)
(* steps are taken as long as one is possible is not for these proofs.     *)
(***************************************************************************)
Later == Stage' > Stage
OneTurnLess == pc' = pc /\ TurnsLeft' \in Nat /\ TurnsLeft' < TurnsLeft

LEMMA StageIs ==
    /\ pc = "begin" => Stage = 0
    /\ pc = "blocks" => Stage = IF nfo = 0 THEN 1 ELSE 3
    /\ pc = "decode" => Stage = 2
    /\ pc = "slots" => Stage = 4
    /\ pc = "names" => Stage = 5
    /\ pc \in { "parsed", "error" } => Stage = 6
    /\ pc = "deinit" => Stage = 7
  BY DEF Stage

LEMMA StageWillBe ==
    /\ pc' = "blocks" => Stage' = IF nfo' = 0 THEN 1 ELSE 3
    /\ pc' = "decode" => Stage' = 2
    /\ pc' = "slots" => Stage' = 4
    /\ pc' = "names" => Stage' = 5
    /\ pc' \in { "parsed", "error" } => Stage' = 6
    /\ pc' = "deinit" => Stage' = 7
    /\ pc' \in { "dangling", "wild_read", "gone" } => Stage' = 8
  BY DEF Stage

\* Every error, whatever it leaves behind.
LEMMA FailIsLater ==
    ASSUME pc \in Reading \cup { "slots", "names" },
           pc' \in { "error", "dangling", "wild_read" }
    PROVE  Later
<1>1. Stage \in { 0, 1, 2, 3, 4, 5 }
  BY StageIs DEF Reading
<1>2. Stage' \in { 6, 8 }
  BY StageWillBe
<1> QED
  BY <1>1, <1>2 DEF Later

\* What a byte read costs: the cursor moves on, and the description is not a former one.
LEMMA BlkIsTurn ==
    ASSUME CursorInv, nfo \in { 1, 2 }, pc = "blocks", NEW n \in Nat, n > 0, ReadBlk(n)
    PROVE  OneTurnLess
<1>1. pos \in Nat /\ Lim \in Nat /\ pos' = pos + n /\ pos + n <= Lim /\ pc' = "blocks"
  BY Lengths DEF CursorInv, ReadBlk, InStream
<1>2. PICK next \in { nfo, nfo + 1 } : next = nfo'
  BY DEF ReadBlk
<1>3. TurnsLeft = (Lim - pos) + (3 - nfo) /\ TurnsLeft' = (Lim - (pos + n)) + (3 - next)
  BY <1>1, <1>2 DEF TurnsLeft
<1>4. next \in Nat /\ nfo <= next /\ next <= 3
  BY <1>2
<1>5. (Lim - (pos + n)) + (3 - next) \in Nat
      /\ (Lim - (pos + n)) + (3 - next) < (Lim - pos) + (3 - nfo)
  BY <1>1, <1>4
<1> QED
  BY <1>1, <1>3, <1>5 DEF OneTurnLess

LEMMA BlocksAdvance == CursorInv /\ (Begin \/ Blocks) => Later \/ OneTurnLess
<1> SUFFICES ASSUME CursorInv, Begin \/ Blocks PROVE Later \/ OneTurnLess
  OBVIOUS
<1>1. CASE Begin
  <2>1. pc = "begin" /\ nfo = 0 /\ pc' \in { "blocks", "error", "dangling" } /\ nfo' = nfo
    BY <1>1 DEF CursorInv, Begin, Fail, Dangling
  <2>2. Stage = 0 /\ Stage' \in { 1, 6, 8 }
    BY <2>1, StageIs, StageWillBe
  <2> QED
    BY <2>2 DEF Later
<1>2. CASE CutBlkId \/ OtherBlk \/ BadHostBlk \/ BadGuestBlk \/ CutGuestBlk \/ BadJoinScrnBlk
  <2>1. pc = "blocks" /\ pc' = "error"
    BY <1>2 DEF CutBlkId, OtherBlk, BadHostBlk, BadGuestBlk, CutGuestBlk, BadJoinScrnBlk,
                BlkIdIs, Fail
  <2> QED
    BY <2>1, FailIsLater DEF Reading
<1>3. CASE NoMoreGuests
  <2>1. /\ pc = "blocks" /\ pc' = "blocks" /\ nfo = 1 /\ nfo' = 2 /\ pos' = pos
        /\ pos \in 0..Lim /\ Lim \in Nat
    BY <1>3, Lengths DEF NoMoreGuests, BlkIdIs, PutBack, NextNfo, CursorInv
  <2>2. TurnsLeft = (Lim - pos) + 2 /\ TurnsLeft' = (Lim - pos) + 1
    BY <2>1 DEF TurnsLeft
  <2> QED
    BY <2>1, <2>2 DEF OneTurnLess
<1>4. CASE GuestBlk
  <2>1. PICK n \in PrsnRecLens : ReadBlk(1 + n + 4)
    BY <1>4 DEF GuestBlk
  <2>2. n \in Nat /\ 1 + n + 4 \in Nat /\ 1 + n + 4 > 0
    BY Lengths
  <2>3. nfo = 1 /\ pc = "blocks"
    BY <1>4 DEF GuestBlk, BlkIdIs
  <2> QED
    BY <2>1, <2>2, <2>3, BlkIsTurn
<1>5. CASE JoinScrnBlk
  <2>1. PICK n \in SlotCnts : ReadBlk(1 + 3 + n * SlotLen + 6)
    BY <1>5 DEF JoinScrnBlk
  <2>2. n * SlotLen \in Nat
    BY Lengths
  <2>3. 1 + 3 + n * SlotLen + 6 \in Nat /\ 1 + 3 + n * SlotLen + 6 > 0
    BY <2>2
  <2>4. nfo = 2 /\ pc = "blocks"
    BY <1>5 DEF JoinScrnBlk, BlkIdIs
  <2> QED
    BY <2>1, <2>3, <2>4, BlkIsTurn
<1> QED
  BY <1>1, <1>2, <1>3, <1>4, <1>5 DEF Blocks

\* The decoder goes through the string once, and then through the buffer once.
LEMMA DecoderAdvances == DecoderInv /\ DecodeStep => OneTurnLess
<1> SUFFICES ASSUME DecoderInv, DecodeStep PROVE OneTurnLess
  OBVIOUS
<1>1. pc = "decode" /\ pc' = "decode" /\ Decoder!Decoding
  BY DEF DecodeStep, others
<1>2. /\ Len(ecd) \in Nat /\ ecd_pos \in Nat /\ ecd_pos <= Len(ecd) + 1 /\ dcd_pos \in Nat
      /\ dcd_pos <= (Len(ecd) + 1) + 13
  <2>1. ecd \in Seq(1..255) /\ ecd_pos \in 0..(Len(ecd) + 1) /\ dcd_pos \in Nat
    BY DEF DecoderInv, DP!ReadInv, DP!TypeOK, DP!EcdStr
  <2>2. Len(ecd) \in Nat
    BY <2>1, LenProperties
  <2>3. dcd_pos # 0 => dcd_pos <= Len(ecd) + 1 \/ dcd_pos = 13
    BY DEF DecoderInv, DP!ReadInv, DP!BufLen, DP!OptsLen
  <2> QED
    BY <2>1, <2>2, <2>3
<1>3. \/ ecd' = ecd /\ ecd_pos' = ecd_pos + 1 /\ ecd_pos <= Len(ecd) /\ dcd_pos' = dcd_pos
      \/ ecd' = ecd /\ ecd_pos' = ecd_pos /\ dcd_pos = 0 /\ dcd_pos' = 13
      \/ ecd' = ecd /\ ecd_pos' = ecd_pos /\ dcd_pos' = dcd_pos + 1
         /\ dcd_pos + 1 <= Len(ecd) + 1
  <2>1. CASE Decoder!KeyByte \/ Decoder!DataByte \/ Decoder!Terminate
    <3>1. ecd' = ecd /\ ecd_pos' = ecd_pos + 1 /\ dcd_pos' = dcd_pos
      BY <2>1 DEF Decoder!KeyByte, Decoder!DataByte, Decoder!Terminate, Decoder!reader
    <3>2. ecd_pos <= Len(ecd)
      BY <1>2, <2>1 DEF Decoder!KeyByte, Decoder!DataByte, Decoder!Terminate, Decoder!AtChar
    <3> QED
      BY <3>1, <3>2
  <2>2. CASE Decoder!SkipOpts
    BY <2>2 DEF Decoder!SkipOpts, Decoder!OptsLen
  <2>3. CASE Decoder!NextCell \/ Decoder!EndOfStr
    BY <2>3 DEF Decoder!NextCell, Decoder!EndOfStr, Decoder!AtEnd, Decoder!InBuf,
                Decoder!BufLen
  <2> QED
    BY <1>1, <2>1, <2>2, <2>3 DEF Decoder!Decoding
<1>4. TurnsLeft = ((Len(ecd) + 1) - ecd_pos) + ((Len(ecd) + 1) + (13 - dcd_pos))
  <2>1. TurnsLeft = (Decoder!BufLen - ecd_pos) + (Decoder!BufLen + Decoder!OptsLen - dcd_pos)
    BY <1>1 DEF TurnsLeft
  <2>2. Decoder!BufLen = Len(ecd) + 1 /\ Decoder!OptsLen = 13
    BY DEF Decoder!BufLen, Decoder!OptsLen
  <2> QED
    BY <2>1, <2>2
<1>5. TurnsLeft' = ((Len(ecd') + 1) - ecd_pos') + ((Len(ecd') + 1) + (13 - dcd_pos'))
  <2>1. TurnsLeft' = (Decoder!BufLen' - ecd_pos')
                       + (Decoder!BufLen' + Decoder!OptsLen' - dcd_pos')
    BY <1>1 DEF TurnsLeft
  <2>2. Decoder!BufLen' = Len(ecd') + 1 /\ Decoder!OptsLen' = 13
    BY DEF Decoder!BufLen, Decoder!OptsLen
  <2> QED
    BY <2>1, <2>2
<1>6. TurnsLeft' \in Nat /\ TurnsLeft' < TurnsLeft
  <2>1. PICK n \in Nat : n = Len(ecd)
    BY <1>2
  <2>2. CASE ecd' = ecd /\ ecd_pos' = ecd_pos + 1 /\ ecd_pos <= n /\ dcd_pos' = dcd_pos
    <3>1. /\ TurnsLeft = ((n + 1) - ecd_pos) + ((n + 1) + (13 - dcd_pos))
          /\ TurnsLeft' = ((n + 1) - (ecd_pos + 1)) + ((n + 1) + (13 - dcd_pos))
      BY <1>4, <1>5, <2>1, <2>2
    <3> QED
      BY <1>2, <2>1, <2>2, <3>1
  <2>3. CASE ecd' = ecd /\ ecd_pos' = ecd_pos /\ dcd_pos = 0 /\ dcd_pos' = 13
    <3>1. /\ TurnsLeft = ((n + 1) - ecd_pos) + ((n + 1) + (13 - 0))
          /\ TurnsLeft' = ((n + 1) - ecd_pos) + ((n + 1) + (13 - 13))
      BY <1>4, <1>5, <2>1, <2>3
    <3> QED
      BY <1>2, <2>1, <3>1
  <2>4. CASE ecd' = ecd /\ ecd_pos' = ecd_pos /\ dcd_pos' = dcd_pos + 1
             /\ dcd_pos + 1 <= n + 1
    <3>1. /\ TurnsLeft = ((n + 1) - ecd_pos) + ((n + 1) + (13 - dcd_pos))
          /\ TurnsLeft' = ((n + 1) - ecd_pos) + ((n + 1) + (13 - (dcd_pos + 1)))
      BY <1>4, <1>5, <2>1, <2>4
    <3> QED
      BY <1>2, <2>1, <2>4, <3>1
  <2> QED
    BY <1>3, <2>1, <2>2, <2>3, <2>4
<1> QED
  BY <1>1, <1>6 DEF OneTurnLess

LEMMA HostingAdvances == CursorInv /\ DecoderInv /\ Hosting => Later \/ OneTurnLess
<1> SUFFICES ASSUME CursorInv, DecoderInv, Hosting PROVE Later \/ OneTurnLess
  OBVIOUS
<1>1. CASE HostBlk
  <2>1. pc = "blocks" /\ nfo = 0 /\ pc' = "decode"
    BY <1>1 DEF HostBlk, BlkIdIs
  <2>2. Stage = 1 /\ Stage' = 2
    BY <2>1, StageIs, StageWillBe
  <2> QED
    BY <2>2 DEF Later
<1>2. CASE HostDone
  <2>1. pc = "decode" /\ nfo = 0 /\ pc' = "blocks" /\ nfo' = 1
    BY <1>2 DEF HostDone, ReadBlk, CursorInv
  <2>2. Stage = 2 /\ Stage' = 3
    BY <2>1, StageIs, StageWillBe
  <2> QED
    BY <2>2 DEF Later
<1>3. CASE HostFails \/ HostReadsBehind
  <2>1. pc = "decode" /\ pc' \in { "error", "wild_read" }
    BY <1>3 DEF HostFails, HostReadsBehind, Fail
  <2> QED
    BY <2>1, FailIsLater DEF Reading
<1> QED
  BY <1>1, <1>2, <1>3, DecoderAdvances DEF Hosting

LEMMA ButLastShorter ==
    ASSUME NEW S, NEW s \in Seq(S), s # <<>>
    PROVE  Len(s) # 0 /\ Len(ButLast(s)) = Len(s) - 1
<1>1. Len(s) \in Nat /\ DOMAIN s = 1..Len(s) /\ Len(s) # 0
  BY LenProperties, EmptySeq
<1> QED
  BY <1>1, SubSeqProperties, ElementOfSeq DEF ButLast

\* A joiner that gets its name stays where it is in the table.
LEMMA JoinersAsMany ==
    ASSUME TableType, TableType', JoinGuest \/ JoinHost \/ CompleteJoiner
    PROVE  Len(joiner_tbl') = Len(joiner_tbl)
<1>2. DOMAIN joiner_tbl' = DOMAIN joiner_tbl
  BY DEF JoinGuest, JoinHost, CompleteJoiner, NameJoiner
<1>3. joiner_tbl \in Seq(Joiners) /\ joiner_tbl' \in Seq(Joiners)
  BY DEF TableType, Joiners
<1>4. DOMAIN joiner_tbl = 1..Len(joiner_tbl) /\ Len(joiner_tbl) \in Nat
      /\ DOMAIN joiner_tbl' = 1..Len(joiner_tbl') /\ Len(joiner_tbl') \in Nat
  BY <1>3, LenProperties
<1> QED
  BY <1>2, <1>4

LEMMA JoiningAdvances == OwnInv /\ OwnInv' /\ Joining => Later \/ OneTurnLess
<1> SUFFICES ASSUME OwnInv, OwnInv', Joining PROVE Later \/ OneTurnLess
  OBVIOUS
<1>1. idx \in Nat /\ Len(slot_tbl) \in Nat /\ Len(joiner_tbl) \in Nat
  BY LenProperties DEF OwnInv, CursorInv, TableType
<1>2. CASE AllocJoiners
  <2>1. pc = "blocks" /\ nfo = 3 /\ pc' \in { "slots", "error", "dangling" }
    BY <1>2 DEF AllocJoiners, Fail, Dangling
  <2>2. Stage = 3 /\ Stage' \in { 4, 6, 8 }
    BY <2>1, StageIs, StageWillBe
  <2> QED
    BY <2>2 DEF Later
<1>3. CASE NoSlots \/ CompleteFails
  <2>1. pc \in { "slots", "names" } /\ pc' = "error"
    BY <1>3 DEF NoSlots, CompleteFails, AtJoiner, Fail
  <2> QED
    BY <2>1, FailIsLater
<1>4. CASE AddJoiner
  <2>1. /\ pc = "slots" /\ idx <= Len(slot_tbl) /\ slot_tbl' = slot_tbl
        /\ pc' = "error" \/ (pc' = "slots" /\ idx' = idx + 1)
    BY <1>4 DEF AddJoiner, Fail
  <2>2. CASE pc' = "error"
    BY <2>1, <2>2, FailIsLater
  <2>3. CASE pc' = "slots" /\ idx' = idx + 1
    <3>1. TurnsLeft = Len(slot_tbl) + 1 - idx /\ TurnsLeft' = Len(slot_tbl) + 1 - (idx + 1)
      BY <2>1, <2>3 DEF TurnsLeft
    <3> QED
      BY <1>1, <2>1, <2>3, <3>1 DEF OneTurnLess
  <2> QED
    BY <2>1, <2>2, <2>3
<1>5. CASE AllAdded
  <2>1. pc = "slots" /\ pc' = "names"
    BY <1>5 DEF AllAdded
  <2>2. Stage = 4 /\ Stage' = 5
    BY <2>1, StageIs, StageWillBe
  <2> QED
    BY <2>2 DEF Later
<1>6. CASE JoinGuest \/ JoinHost \/ CompleteJoiner
  <2>1. AtJoiner /\ pc' = pc /\ idx' = idx + 1 /\ DOMAIN joiner_tbl' = DOMAIN joiner_tbl
    BY <1>6 DEF JoinGuest, JoinHost, CompleteJoiner, NameJoiner
  <2>2. Len(joiner_tbl') = Len(joiner_tbl)
    BY <1>6, JoinersAsMany DEF OwnInv
  <2>3. pc = "names" /\ pc' = "names" /\ idx <= Len(joiner_tbl)
    BY <2>1 DEF AtJoiner
  <2>4. TurnsLeft = Len(joiner_tbl) + 1 - idx /\ TurnsLeft' = Len(joiner_tbl) + 1 - (idx + 1)
    BY <2>1, <2>2, <2>3 DEF TurnsLeft
  <2> QED
    BY <1>1, <2>3, <2>4 DEF OneTurnLess
<1>7. CASE Finish
  <2>1. pc = "names" /\ pc' \in { "parsed", "error", "wild_read" }
    BY <1>7 DEF Finish
  <2>2. Stage = 5 /\ Stage' \in { 6, 8 }
    BY <2>1, StageIs, StageWillBe
  <2> QED
    BY <2>2 DEF Later
<1> QED
  BY <1>2, <1>3, <1>4, <1>5, <1>6, <1>7 DEF Joining

\* deinit frees each person and each joiner once, and the last of them last.
LEMMA FreeingAdvances == OwnInv /\ Freeing => Later \/ OneTurnLess
<1> SUFFICES ASSUME OwnInv, Freeing PROVE Later \/ OneTurnLess
  OBVIOUS
<1>1. prsn_tbl \in Seq(Persons) /\ joiner_tbl \in Seq(Joiners)
  BY DEF OwnInv, TableType
<1>2. Len(prsn_tbl) \in Nat /\ Len(joiner_tbl) \in Nat
  BY <1>1, LenProperties
<1>3. CASE Deinit
  <2>1. pc \in { "parsed", "error" } /\ pc' = "deinit"
    BY <1>3 DEF Deinit
  <2>2. Stage = 6 /\ Stage' = 7
    BY <2>1, StageIs, StageWillBe
  <2> QED
    BY <2>2 DEF Later
<1>4. CASE AllFreed
  <2>1. pc = "deinit" /\ pc' = "gone"
    BY <1>4 DEF AllFreed
  <2>2. Stage = 7 /\ Stage' = 8
    BY <2>1, StageIs, StageWillBe
  <2> QED
    BY <2>2 DEF Later
<1>5. CASE FreePerson
  <2>1. /\ pc = "deinit" /\ pc' = "deinit" /\ joiner_tbl' = joiner_tbl
        /\ prsn_tbl # <<>> /\ prsn_tbl' = ButLast(prsn_tbl)
    BY <1>5 DEF FreePerson
  <2>2. Len(prsn_tbl) # 0 /\ Len(ButLast(prsn_tbl)) = Len(prsn_tbl) - 1
    BY <1>1, <2>1, ButLastShorter
  <2>3. /\ TurnsLeft = Len(prsn_tbl) + Len(joiner_tbl)
        /\ TurnsLeft' = (Len(prsn_tbl) - 1) + Len(joiner_tbl)
    BY <2>1, <2>2 DEF TurnsLeft
  <2> QED
    BY <1>2, <2>1, <2>2, <2>3 DEF OneTurnLess
<1>6. CASE FreeJoiner
  <2>1. /\ pc = "deinit" /\ pc' = "deinit" /\ prsn_tbl' = prsn_tbl
        /\ joiner_tbl # <<>> /\ joiner_tbl' = ButLast(joiner_tbl)
    BY <1>6 DEF FreeJoiner
  <2>2. Len(joiner_tbl) # 0 /\ Len(ButLast(joiner_tbl)) = Len(joiner_tbl) - 1
    BY <1>1, <2>1, ButLastShorter
  <2>3. /\ TurnsLeft = Len(prsn_tbl) + Len(joiner_tbl)
        /\ TurnsLeft' = Len(prsn_tbl) + (Len(joiner_tbl) - 1)
    BY <2>1, <2>2 DEF TurnsLeft
  <2> QED
    BY <1>2, <2>1, <2>2, <2>3 DEF OneTurnLess
<1> QED
  BY <1>3, <1>4, <1>5, <1>6 DEF Freeing

\* process_stream and deinit get on with every step, whatever the stream holds: no id is
\* put back twice, no cell looked at twice, and no joiner or name left out or taken twice.
THEOREM AdvancesCorrect == Spec => Advances
<1>1. OwnInv /\ DecoderInv /\ [Next]_vars
        => [ \/ Stage' > Stage
             \/ pc' = pc /\ TurnsLeft' \in Nat /\ TurnsLeft' < TurnsLeft ]_vars
  <2> SUFFICES ASSUME OwnInv, DecoderInv, [Next]_vars
               PROVE  Later \/ OneTurnLess \/ UNCHANGED vars
    BY DEF Later, OneTurnLess
  <2>1. CursorInv /\ OwnInv'
    BY OwnKeeps DEF OwnInv
  <2> QED
    BY <2>1, BlocksAdvance, HostingAdvances, JoiningAdvances, FreeingAdvances
    DEF Next, Ended
<1> QED
  BY <1>1, OwnAlways, DecoderAlways, PTL DEF Spec, Advances
=============================================================================
