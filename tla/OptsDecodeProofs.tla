-------------------------- MODULE OptsDecodeProofs --------------------------
(***************************************************************************)
(* Proofs that the decoder of OptsDecode writes, at every turn of its loop *)
(* and for every encoded string, what the layout of that string says, that *)
(* it stays in its buffer, and how far what reads the options gets.        *)
(*                                                                         *)
(* The inductive invariant says where the loop stands in the layout: bit   *)
(* and key are those of the group of eight that ecd_pos is in.             *)
(***************************************************************************)
EXTENDS OptsDecode, TLAPS

\* The bit of a position in its group of eight; the key has none.
BitAt(n) == IF n % 8 = 0 THEN 0 ELSE BitOf[n % 8]

\* The decoder stands in the layout where ecd_pos says.
InLayout ==
    /\ ~Decoded =>
        /\ Len(dcd) = CharsIn(ecd_pos) /\ bit = BitAt(ecd_pos)
        /\ ecd_pos % 8 # 0 => key = ecd[8 * (ecd_pos \div 8) + 1]
    /\ Decoded => Len(dcd) = CharsIn(Len(ecd)) + 1 /\ dcd[Len(dcd)] = 0

CharsRight ==
    \A j \in 1..(IF Decoded THEN Len(dcd) - 1 ELSE Len(dcd)) : dcd[j] = Plain(j)

LayoutInv == TypeOK /\ InLayout /\ CharsRight

-----------------------------------------------------------------------------
(***************************************************************************)
(* Arithmetic of the groups.                                               *)
(***************************************************************************)

\* Every position is a group and a place in it.
LEMMA GroupOf ==
    ASSUME NEW n \in Nat
    PROVE  \E g \in Nat, r \in 0..7 : n = 8 * g + r /\ n \div 8 = g /\ n % 8 = r
<1>1. n \div 8 \in Nat /\ n % 8 \in 0..7 /\ n = 8 * (n \div 8) + (n % 8)
  OBVIOUS
<1> QED
  BY <1>1

\* A key adds no character.
LEMMA CharsOfKey ==
    ASSUME NEW n \in Nat, n % 8 = 0
    PROVE  CharsIn(n + 1) = CharsIn(n) /\ BitAt(n + 1) = 2
<1>1. PICK g \in Nat : n = 8 * g
  BY GroupOf
<1>2. (n + 7) \div 8 = g /\ (n + 1 + 7) \div 8 = g + 1 /\ (n + 1) % 8 = 1
  BY <1>1
<1> QED
  BY <1>2 DEF CharsIn, BitAt, BitOf

\* Any other byte adds one, and that is the character its place in the layout says.
LEMMA CharsOfData ==
    ASSUME NEW n \in Nat, n % 8 # 0
    PROVE  /\ CharsIn(n) \in Nat /\ CharsIn(n + 1) = CharsIn(n) + 1
           /\ CharsIn(n) \div 7 = n \div 8
           /\ (CharsIn(n) % 7) + 1 = n % 8
           /\ 8 * (n \div 8) + (n % 8) + 1 = n + 1
           /\ BitAt(n + 1) = Shifted(BitAt(n))
<1>1. PICK g \in Nat, r \in 1..7 : n = 8 * g + r /\ n \div 8 = g /\ n % 8 = r
  BY GroupOf
<1>2. (n + 7) \div 8 = g + 1 /\ (n + 8) \div 8 = g + 1
  BY <1>1
<1>3. CharsIn(n) = 7 * g + (r - 1) /\ CharsIn(n + 1) = 7 * g + r
  BY <1>1, <1>2 DEF CharsIn
<1>4. CharsIn(n) \div 7 = g /\ CharsIn(n) % 7 = r - 1
  BY <1>1, <1>3
<1>5. BitAt(n + 1) = Shifted(BitAt(n))
  <2>1. CASE r = 7
    <3>1. (n + 1) % 8 = 0
      BY <1>1, <2>1
    <3> QED
      BY <1>1, <2>1, <3>1 DEF BitAt, BitOf, Shifted
  <2>2. CASE r # 7
    <3>1. (n + 1) % 8 = r + 1
      BY <1>1, <2>2
    <3> QED
      BY <1>1, <2>2, <3>1 DEF BitAt, BitOf, Shifted
  <2> QED
    BY <2>1, <2>2
<1> QED
  BY <1>1, <1>3, <1>4, <1>5

LEMMA CharsBound ==
    ASSUME NEW n \in Nat
    PROVE  CharsIn(n) \in Nat /\ CharsIn(n) <= n
<1>1. PICK g \in Nat, r \in 0..7 : n = 8 * g + r
  BY GroupOf
<1>2. (n + 7) \div 8 \in Nat /\ (n + 7) \div 8 <= n
  BY <1>1
<1> QED
  BY <1>2 DEF CharsIn
-----------------------------------------------------------------------------
(***************************************************************************)
(* The decoder.                                                            *)
(***************************************************************************)

LEMMA LayoutInit == Init => LayoutInv
<1> SUFFICES ASSUME Init PROVE LayoutInv
  OBVIOUS
<1>1. PICK e \in EcdStr : Start(e)
  BY DEF Init
<1>2. ecd \in EcdStr /\ Len(ecd) \in Nat /\ dcd = <<>> /\ ~Decoded
  BY <1>1 DEF Start, EcdStr, Decoded
<1>3. <<>> \in Seq(0..255) /\ Len(<<>>) = 0
  OBVIOUS
<1>4. TypeOK
  BY <1>1, <1>2, <1>3 DEF Start, TypeOK
<1>5. CharsIn(0) = 0 /\ BitAt(0) = 0
  BY DEF CharsIn, BitAt
<1> QED
  BY <1>1, <1>2, <1>3, <1>4, <1>5 DEF Start, LayoutInv, InLayout, CharsRight

LEMMA CellOf ==
    ASSUME NEW S, NEW s \in Seq(S), NEW k \in 1..Len(s)
    PROVE  s[k] \in S
  OBVIOUS

LEMMA KeyByteKeeps == LayoutInv /\ KeyByte => LayoutInv'
<1> SUFFICES ASSUME LayoutInv, KeyByte PROVE LayoutInv'
  OBVIOUS
<1>1. /\ ecd' = ecd /\ dcd' = dcd /\ dcd_pos' = dcd_pos /\ strs' = strs
      /\ bit = 0 /\ key' = Char /\ bit' = 2 /\ ecd_pos' = ecd_pos + 1
  BY DEF KeyByte, reader
<1>2. /\ ecd_pos \in Nat /\ Len(ecd) \in Nat /\ ecd_pos < Len(ecd) /\ Char \in 1..255
      /\ ecd \in Seq(1..255)
  <2>1. ecd \in Seq(1..255) /\ ecd_pos \in Nat /\ Len(ecd) \in Nat /\ ecd_pos < Len(ecd)
    BY DEF KeyByte, AtChar, LayoutInv, TypeOK, EcdStr
  <2>2. ecd_pos + 1 \in 1..Len(ecd)
    BY <2>1
  <2>3. ecd[ecd_pos + 1] \in 1..255
    BY <2>1, <2>2, CellOf
  <2> QED
    BY <2>1, <2>3 DEF Char
<1>3. ~Decoded /\ ~Decoded'
  BY <1>1, <1>2 DEF Decoded
<1>4. ecd_pos % 8 = 0
  <2>1. ecd_pos % 8 \in 0..7 /\ bit = BitAt(ecd_pos)
    BY <1>2, <1>3 DEF LayoutInv, InLayout
  <2> QED
    BY <1>1, <2>1 DEF BitAt, BitOf
<1>5. CharsIn(ecd_pos + 1) = CharsIn(ecd_pos) /\ BitAt(ecd_pos + 1) = 2
  BY <1>2, <1>4, CharsOfKey
<1>6. TypeOK'
  BY <1>1, <1>2 DEF LayoutInv, TypeOK
<1>7. ecd[8 * ((ecd_pos + 1) \div 8) + 1] = Char
  <2>1. PICK g \in Nat : ecd_pos = 8 * g
    BY <1>2, <1>4, GroupOf
  <2>2. (ecd_pos + 1) \div 8 = g
    BY <2>1
  <2> QED
    BY <2>1, <2>2 DEF Char
<1>8. InLayout'
  BY <1>1, <1>3, <1>5, <1>7 DEF LayoutInv, InLayout
<1>9. CharsRight'
  BY <1>1, <1>3 DEF LayoutInv, CharsRight, Plain
<1> QED
  BY <1>6, <1>8, <1>9 DEF LayoutInv

\* The character that DataByte writes.
LEMMA CharFits ==
    ASSUME NEW c \in 1..255
    PROVE  Decremented(c) = c - 1 /\ c \in 0..255 /\ c - 1 \in 0..255
  BY DEF Decremented

LEMMA ShiftedFits ==
    ASSUME NEW b \in { 0, 2, 4, 8, 16, 32, 64, 128 }
    PROVE  Shifted(b) \in { 0, 2, 4, 8, 16, 32, 64, 128 }
<1>1. Shifted(0) = 0 /\ Shifted(2) = 4 /\ Shifted(4) = 8 /\ Shifted(8) = 16
  BY DEF Shifted
<1>2. Shifted(16) = 32 /\ Shifted(32) = 64 /\ Shifted(64) = 128 /\ Shifted(128) = 0
  BY DEF Shifted
<1> QED
  BY <1>1, <1>2

LEMMA DataByteKeeps == LayoutInv /\ DataByte => LayoutInv'
<1> SUFFICES ASSUME LayoutInv, DataByte PROVE LayoutInv'
  OBVIOUS
<1>1. /\ ecd' = ecd /\ key' = key /\ dcd_pos' = dcd_pos /\ strs' = strs
      /\ dcd' = Append(dcd, IF InKey THEN Char ELSE Decremented(Char))
      /\ bit # 0 /\ bit' = Shifted(bit) /\ ecd_pos' = ecd_pos + 1
  BY DEF DataByte, reader
<1>2. /\ ecd_pos \in Nat /\ Len(ecd) \in Nat /\ ecd_pos < Len(ecd) /\ Char \in 1..255
      /\ ecd \in Seq(1..255)
  <2>1. ecd \in Seq(1..255) /\ ecd_pos \in Nat /\ Len(ecd) \in Nat /\ ecd_pos < Len(ecd)
    BY DEF DataByte, AtChar, LayoutInv, TypeOK, EcdStr
  <2>2. ecd_pos + 1 \in 1..Len(ecd)
    BY <2>1
  <2>3. ecd[ecd_pos + 1] \in 1..255
    BY <2>1, <2>2, CellOf
  <2> QED
    BY <2>1, <2>3 DEF Char
<1> DEFINE c == IF InKey THEN Char ELSE Decremented(Char)
<1>3. ~Decoded /\ ~Decoded'
  BY <1>1, <1>2 DEF Decoded
<1>4. /\ Len(dcd) = CharsIn(ecd_pos) /\ bit = BitAt(ecd_pos)
      /\ ecd_pos % 8 # 0 => key = ecd[8 * (ecd_pos \div 8) + 1]
  BY <1>3 DEF LayoutInv, InLayout
<1>5. ecd_pos % 8 # 0
  BY <1>1, <1>4 DEF BitAt
<1> DEFINE n == CharsIn(ecd_pos)
<1>6. /\ n \in Nat /\ CharsIn(ecd_pos + 1) = n + 1
      /\ n \div 7 = ecd_pos \div 8 /\ (n % 7) + 1 = ecd_pos % 8
      /\ 8 * (ecd_pos \div 8) + (ecd_pos % 8) + 1 = ecd_pos + 1
      /\ BitAt(ecd_pos + 1) = Shifted(bit)
  BY <1>2, <1>4, <1>5, CharsOfData
<1>7. c \in 0..255 /\ Decremented(Char) = Char - 1
  <2>1. Decremented(Char) = Char - 1 /\ Char \in 0..255 /\ Char - 1 \in 0..255
    BY <1>2, CharFits
  <2>2. InKey \/ ~InKey
    OBVIOUS
  <2> QED
    BY <2>1
<1>8. dcd \in Seq(0..255) /\ dcd' \in Seq(0..255) /\ Len(dcd') = n + 1
  BY <1>1, <1>4, <1>7 DEF LayoutInv, TypeOK
<1>9. TypeOK'
  <2>1. bit' \in { 0, 2, 4, 8, 16, 32, 64, 128 }
    BY <1>1, ShiftedFits DEF LayoutInv, TypeOK
  <2> QED
    BY <1>1, <1>2, <1>8, <2>1 DEF LayoutInv, TypeOK
<1>10. InLayout'
  <2>1. (ecd_pos + 1) % 8 # 0 => (ecd_pos + 1) \div 8 = ecd_pos \div 8
    <3>1. PICK g \in Nat, r \in 0..7 : ecd_pos = 8 * g + r /\ ecd_pos \div 8 = g
      BY <1>2, GroupOf
    <3> QED
      BY <3>1
  <2> QED
    BY <1>1, <1>3, <1>4, <1>5, <1>6, <1>8, <2>1 DEF InLayout
<1>11. Plain(n + 1) = c
  <2>1. (n + 1) - 1 = n
    BY <1>6
  <2>2. /\ (((n + 1) - 1) \div 7) = ecd_pos \div 8
        /\ ((((n + 1) - 1) % 7) + 1) = ecd_pos % 8
    BY <1>6, <2>1
  <2>3. bit = BitOf[ecd_pos % 8]
    BY <1>4, <1>5 DEF BitAt
  <2>4. ecd[8 * (ecd_pos \div 8) + (ecd_pos % 8) + 1] = Char
    BY <1>6 DEF Char
  <2>5. Plain(n + 1) = IF (key \div bit) % 2 = 1 THEN Char ELSE Char - 1
    BY <1>4, <1>5, <2>2, <2>3, <2>4 DEF Plain
  <2> QED
    BY <1>7, <2>5 DEF InKey
<1>12. CharsRight'
  <2>1. \A j \in 1..n : dcd[j] = Plain(j)
    BY <1>3, <1>4 DEF LayoutInv, CharsRight
  <2>2. \A j : Plain(j)' = Plain(j)
    BY <1>1 DEF Plain
  <2>3. \A j \in 1..(n + 1) : dcd'[j] = Plain(j)
    <3> TAKE j \in 1..(n + 1)
    <3>1. CASE j = n + 1
      BY <1>1, <1>4, <1>6, <1>7, <1>8, <1>11, <3>1
    <3>2. CASE j # n + 1
      <4>1. j \in 1..n
        BY <1>6, <3>2
      <4> QED
        BY <1>1, <1>4, <1>7, <1>8, <2>1, <4>1
    <3> QED
      BY <3>1, <3>2
  <2> QED
    BY <1>3, <1>8, <2>2, <2>3 DEF CharsRight
<1> QED
  BY <1>9, <1>10, <1>12 DEF LayoutInv

LEMMA TerminateKeeps == LayoutInv /\ Terminate => LayoutInv'
<1> SUFFICES ASSUME LayoutInv, Terminate PROVE LayoutInv'
  OBVIOUS
<1>1. /\ ecd' = ecd /\ key' = key /\ bit' = bit /\ dcd_pos' = dcd_pos /\ strs' = strs
      /\ dcd' = Append(dcd, 0) /\ ecd_pos = Len(ecd) /\ ecd_pos' = ecd_pos + 1
  BY DEF Terminate, reader
<1>2. ecd_pos \in Nat /\ ~Decoded /\ Decoded'
  BY <1>1 DEF Decoded, LayoutInv, TypeOK
<1>3. dcd \in Seq(0..255) /\ dcd' \in Seq(0..255) /\ Len(dcd') = Len(dcd) + 1 /\ 0 \in 0..255
  BY <1>1 DEF LayoutInv, TypeOK
<1>4. TypeOK'
  BY <1>1, <1>2, <1>3 DEF LayoutInv, TypeOK
<1>5. InLayout'
  BY <1>1, <1>2, <1>3 DEF LayoutInv, InLayout
<1>6. CharsRight'
  <2>1. \A j : Plain(j)' = Plain(j)
    BY <1>1 DEF Plain
  <2>2. \A j \in 1..Len(dcd) : dcd'[j] = dcd[j] /\ dcd[j] = Plain(j)
    BY <1>1, <1>2, <1>3 DEF LayoutInv, CharsRight
  <2> QED
    BY <1>2, <1>3, <2>1, <2>2 DEF CharsRight
<1> QED
  BY <1>4, <1>5, <1>6 DEF LayoutInv

\* What reads the decoded string leaves it as it is.
LEMMA ReaderKeeps ==
    ASSUME LayoutInv, UNCHANGED <<ecd, ecd_pos, key, bit, dcd>>, dcd_pos' \in Nat, strs' \in 0..2
    PROVE  LayoutInv'
<1>1. TypeOK'
  BY DEF LayoutInv, TypeOK
<1>2. InLayout'
  BY DEF LayoutInv, InLayout, Decoded
<1>3. CharsRight'
  BY DEF LayoutInv, CharsRight, Decoded, Plain
<1> QED
  BY <1>1, <1>2, <1>3 DEF LayoutInv

LEMMA LayoutStep == LayoutInv /\ [Next]_vars => LayoutInv'
<1> SUFFICES ASSUME LayoutInv, [Next]_vars PROVE LayoutInv'
  OBVIOUS
<1>1. dcd_pos \in Nat /\ strs \in 0..2
  BY DEF LayoutInv, TypeOK
<1>2. CASE SkipOpts
  BY <1>1, <1>2, ReaderKeeps DEF SkipOpts, OptsLen
<1>3. CASE NextCell
  BY <1>1, <1>3, ReaderKeeps DEF NextCell
<1>4. CASE EndOfStr
  BY <1>1, <1>4, ReaderKeeps DEF EndOfStr, AtEnd, Scanning
<1>5. CASE UNCHANGED vars
  BY <1>1, <1>5, ReaderKeeps DEF vars
<1> QED
  BY <1>2, <1>3, <1>4, <1>5, KeyByteKeeps, DataByteKeeps, TerminateKeeps
  DEF Next, Decoding, Stop

LEMMA LayoutAlways == Spec => []LayoutInv
<1> QED
  BY LayoutInit, LayoutStep, PTL DEF Spec

-----------------------------------------------------------------------------

\* Every variable keeps its type, for every encoded string.
THEOREM TypeCorrect == Spec => []TypeOK
<1>1. LayoutInv => TypeOK
  BY DEF LayoutInv
<1> QED
  BY <1>1, LayoutAlways, PTL

LEMMA LayoutDecoded == LayoutInv => DecodedSoFar
<1> SUFFICES ASSUME LayoutInv PROVE DecodedSoFar
  OBVIOUS
<1>1. ecd_pos \in 0..(Len(ecd) + 1) /\ Len(ecd) \in Nat /\ Len(dcd) \in Nat
  BY DEF LayoutInv, TypeOK, EcdStr
<1>2. CharsIn(Len(ecd)) \in Nat /\ CharsIn(Len(ecd)) <= Len(ecd)
  BY <1>1, CharsBound
<1>3. CASE Decoded
  <2>1. Len(dcd) = CharsIn(Len(ecd)) + 1 /\ dcd[Len(dcd)] = 0
    BY <1>3 DEF LayoutInv, InLayout
  <2>2. Len(dcd) - 1 = CharsIn(Len(ecd)) /\ Len(dcd) <= BufLen
    BY <1>1, <1>2, <2>1 DEF BufLen
  <2> QED
    BY <1>3, <2>1, <2>2 DEF LayoutInv, CharsRight, DecodedSoFar
<1>4. CASE ~Decoded
  <2>1. Len(dcd) = CharsIn(ecd_pos)
    BY <1>4 DEF LayoutInv, InLayout
  <2>2. CharsIn(ecd_pos) <= ecd_pos /\ ecd_pos <= Len(ecd)
    BY <1>1, <1>4, CharsBound DEF Decoded
  <2>3. Len(dcd) <= BufLen
    BY <1>1, <2>1, <2>2 DEF BufLen
  <2> QED
    BY <1>4, <2>1, <2>3 DEF LayoutInv, CharsRight, DecodedSoFar
<1> QED
  BY <1>3, <1>4

\* decode_opts_map_creator_str writes what the layout of the encoded string says, one
\* character after the other, and stays in a buffer of that string's size.
THEOREM DecodedCorrect == Spec => []DecodedSoFar
<1> QED
  BY LayoutDecoded, LayoutAlways, PTL

-----------------------------------------------------------------------------
(***************************************************************************)
(* What reads the options and the strings behind them.                     *)
(***************************************************************************)

\* The ends of strings that the cursor has still before it.
EndsAhead ==
    (\E j, k \in StrEnds : j < k) /\ dcd_pos # 0 =>
        /\ strs = 0 => \E j, k \in StrEnds : dcd_pos < j /\ j < k
        /\ strs = 1 => \E k \in StrEnds : dcd_pos < k
        /\ dcd_pos <= Len(dcd)

ReadInv ==
    /\ TypeOK /\ EndsAhead
    /\ dcd_pos # 0 => Decoded /\ (dcd_pos <= BufLen \/ (dcd_pos = OptsLen /\ strs = 0))
    /\ dcd_pos = 0 => strs = 0

LEMMA ReadInit == Init => ReadInv
<1> SUFFICES ASSUME Init PROVE ReadInv
  OBVIOUS
<1>1. TypeOK
  BY LayoutInit DEF LayoutInv
<1>2. dcd_pos = 0 /\ strs = 0
  BY DEF Init, Start
<1> QED
  BY <1>1, <1>2 DEF ReadInv, EndsAhead

LEMMA SkipOptsReads == ReadInv /\ SkipOpts /\ TypeOK' => ReadInv'
<1> SUFFICES ASSUME ReadInv, SkipOpts, TypeOK' PROVE ReadInv'
  OBVIOUS
<1>1. dcd_pos = 0 /\ dcd_pos' = 13 /\ strs = 0 /\ Decoded
      /\ UNCHANGED <<ecd, ecd_pos, key, bit, dcd, strs>>
  BY DEF ReadInv, SkipOpts, OptsLen
<1>2. StrEnds' = StrEnds /\ \A j \in StrEnds : j \in Nat /\ 13 < j /\ j <= Len(dcd)
  BY <1>1 DEF StrEnds, OptsLen, ReadInv, TypeOK
<1>3. Len(dcd) \in Nat
  BY DEF ReadInv, TypeOK
<1>4. EndsAhead'
  BY <1>1, <1>2, <1>3 DEF EndsAhead
<1> QED
  BY <1>1, <1>4 DEF ReadInv, OptsLen, Decoded

LEMMA NextCellReads == ReadInv /\ NextCell /\ TypeOK' => ReadInv'
<1> SUFFICES ASSUME ReadInv, NextCell, TypeOK' PROVE ReadInv'
  OBVIOUS
<1>1. /\ UNCHANGED <<ecd, ecd_pos, key, bit, dcd, strs>> /\ dcd_pos' = dcd_pos + 1
      /\ dcd_pos \in Nat /\ dcd_pos >= 13 /\ strs \in { 0, 1 } /\ Len(dcd) \in Nat
      /\ dcd_pos + 1 <= BufLen /\ (dcd_pos < Len(dcd) => dcd[dcd_pos + 1] # 0)
  BY DEF NextCell, Scanning, InBuf, MayBeChar, OptsLen, ReadInv, TypeOK
<1>2. /\ StrEnds' = StrEnds
      /\ \A j \in StrEnds : j \in Nat /\ j <= Len(dcd) /\ dcd[j] = 0
  BY <1>1 DEF StrEnds, OptsLen
<1>3. \A j \in StrEnds : dcd_pos < j => dcd_pos + 1 < j
  BY <1>1, <1>2
<1>4. EndsAhead'
  BY <1>1, <1>2, <1>3 DEF EndsAhead, ReadInv
<1> QED
  BY <1>1, <1>4 DEF ReadInv, Decoded, BufLen

LEMMA EndOfStrReads == ReadInv /\ EndOfStr /\ TypeOK' => ReadInv'
<1> SUFFICES ASSUME ReadInv, EndOfStr, TypeOK' PROVE ReadInv'
  OBVIOUS
<1>1. /\ UNCHANGED <<ecd, ecd_pos, key, bit, dcd>> /\ dcd_pos' = dcd_pos + 1
      /\ strs' = strs + 1
      /\ dcd_pos \in Nat /\ dcd_pos >= 13 /\ strs \in { 0, 1 } /\ Len(dcd) \in Nat
      /\ dcd_pos + 1 <= BufLen
  BY DEF EndOfStr, AtEnd, Scanning, InBuf, OptsLen, ReadInv, TypeOK
<1>2. StrEnds' = StrEnds /\ \A j \in StrEnds : j \in Nat /\ j <= Len(dcd)
  BY <1>1 DEF StrEnds, OptsLen
<1>3. EndsAhead'
  BY <1>1, <1>2 DEF EndsAhead, ReadInv
<1> QED
  BY <1>1, <1>3 DEF ReadInv, Decoded, BufLen

\* While the decoder works nothing was read.
LEMMA DecoderReads ==
    ASSUME ReadInv, KeyByte \/ DataByte \/ Terminate, TypeOK'
    PROVE  ReadInv'
<1>1. ~Decoded
  BY DEF KeyByte, DataByte, Terminate, AtChar, Decoded, ReadInv, TypeOK, EcdStr
<1>2. dcd_pos = 0 /\ strs = 0 /\ dcd_pos' = dcd_pos /\ strs' = strs
  BY <1>1 DEF ReadInv, KeyByte, DataByte, Terminate, reader
<1> QED
  BY <1>2 DEF ReadInv, EndsAhead

LEMMA ReadStep == ReadInv /\ TypeOK' /\ [Next]_vars => ReadInv'
<1> SUFFICES ASSUME ReadInv, TypeOK', [Next]_vars PROVE ReadInv'
  OBVIOUS
<1>1. CASE UNCHANGED vars
  BY <1>1 DEF vars, ReadInv, EndsAhead, StrEnds, Decoded, BufLen
<1> QED
  BY <1>1, SkipOptsReads, NextCellReads, EndOfStrReads, DecoderReads
  DEF Next, Decoding, Stop

\* Whatever the string, the cursor leaves the buffer only by the step over the options,
\* and where the decoder wrote the ends of both strings it reads nothing else.
THEOREM ReadCorrect == Spec => []OptsInBuffer
<1>1. ReadInv => OptsInBuffer
  BY DEF ReadInv, EndsAhead, OptsInBuffer
<1> QED
  BY <1>1, TypeCorrect, ReadInit, ReadStep, PTL DEF Spec
=============================================================================
