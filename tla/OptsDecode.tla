----------------------------- MODULE OptsDecode -----------------------------
(***************************************************************************)
(* decode_opts_map_creator_str of decode.c: the decoder of the string that *)
(* holds the game's options, the path of the map and the name of its       *)
(* creator.  A key byte comes before every seven characters; a character   *)
(* whose bit in the key is 0 was stored plus one, so that no 0 occurs.     *)
(*                                                                         *)
(* Then what save_host_blk of stream.c reads from the decoded string: the  *)
(* options, which save_game_opts steps over without a look at the end of   *)
(* the buffer, and two strings, for which safe_str_len looks for '\0'.     *)
(*                                                                         *)
(* One step per turn of each loop.  The encoded string is the sequence of  *)
(* its bytes without the final '\0'; the buffer has its size and one more. *)
(***************************************************************************)
EXTENDS Integers, Sequences

\* Any string: no character is '\0'.
EcdStr == Seq(1..255)

VARIABLES
    ecd,        \* the encoded string
    ecd_pos,    \* the characters of it that were read
    key, bit,
    dcd,        \* what was written to the buffer for the decoded string
    dcd_pos,    \* the cell of the buffer that is read next
    strs        \* the strings that were found behind the options

reader  == <<dcd_pos, strs>>
vars    == <<ecd, ecd_pos, key, bit, dcd, dcd_pos, strs>>

\* ecd_str_pos and dcd_str_pos stand at the beginning of e and of the buffer; key has
\* no value yet, which 0 stands for.
Load(e) ==
    /\ ecd' = e /\ ecd_pos' = 0 /\ key' = 0 /\ bit' = 0 /\ dcd' = <<>>
    /\ dcd_pos' = 0 /\ strs' = 0

Start(e) ==
    /\ ecd = e /\ ecd_pos = 0 /\ key = 0 /\ bit = 0 /\ dcd = <<>>
    /\ dcd_pos = 0 /\ strs = 0

Init == \E e \in EcdStr : Start(e)

-----------------------------------------------------------------------------
(***************************************************************************)
(* decode_opts_map_creator_str                                             *)
(***************************************************************************)

AtChar == ecd_pos < Len(ecd)

Char == ecd[ecd_pos + 1]

\* A mistake to check against: the bit is left in the key too long.
ShiftedTo9(b) == (2 * b) % 512

\* bit <<= 1 of an unsigned char.
Shifted(b) == (2 * b) % 256

InKey == (key \div bit) % 2 = 1

\* --*dcd_str_pos.
Decremented(char) == (char + 255) % 256

KeyByte ==
    /\ AtChar /\ bit = 0
    /\ key' = Char /\ bit' = 2 /\ ecd_pos' = ecd_pos + 1
    /\ UNCHANGED <<ecd, dcd, reader>>

DataByte ==
    /\ AtChar /\ bit # 0
    /\ dcd' = Append(dcd, IF InKey THEN Char ELSE Decremented(Char))
    /\ bit' = Shifted(bit) /\ ecd_pos' = ecd_pos + 1
    /\ UNCHANGED <<ecd, key, reader>>

\* '\0' is found, and written.
Terminate ==
    /\ ecd_pos = Len(ecd)
    /\ dcd' = Append(dcd, 0) /\ ecd_pos' = ecd_pos + 1
    /\ UNCHANGED <<ecd, key, bit, reader>>

Decoded == ecd_pos > Len(ecd)

-----------------------------------------------------------------------------
(***************************************************************************)
(* save_host_blk behind the decoder                                        *)
(***************************************************************************)
BufLen == Len(ecd) + 1

OptsLen == 13

\* The options are taken from the first four cells.
OptsRead == 4

SkipOpts ==
    /\ Decoded /\ dcd_pos = 0 /\ dcd_pos' = OptsLen
    /\ UNCHANGED <<ecd, ecd_pos, key, bit, dcd, strs>>

Scanning == dcd_pos >= OptsLen /\ strs < 2

\* A mistake to check against: the cell behind the buffer is looked at.
InBufOrBehind(cell) == cell <= BufLen

\* The test of safe_str_len, before it looks at a cell.
InBuf(cell) == cell + 1 <= BufLen

\* A cell that was never written may hold anything.
MayBeEnd  == dcd_pos < Len(dcd) => dcd[dcd_pos + 1] = 0
MayBeChar == dcd_pos < Len(dcd) => dcd[dcd_pos + 1] # 0

NextCell ==
    /\ Scanning /\ InBuf(dcd_pos) /\ MayBeChar
    /\ dcd_pos' = dcd_pos + 1
    /\ UNCHANGED <<ecd, ecd_pos, key, bit, dcd, strs>>

AtEnd == Scanning /\ InBuf(dcd_pos) /\ MayBeEnd

EndOfStr ==
    /\ AtEnd
    /\ dcd_pos' = dcd_pos + 1 /\ strs' = strs + 1
    /\ UNCHANGED <<ecd, ecd_pos, key, bit, dcd>>

\* safe_str_len gets to the end of the buffer, or was behind it from the beginning.
CutStr == Scanning /\ ~InBuf(dcd_pos)

Decoding == KeyByte \/ DataByte \/ Terminate \/ SkipOpts \/ NextCell \/ EndOfStr

Stop == (CutStr \/ strs = 2) /\ UNCHANGED vars

Next == Decoding \/ Stop

Spec == Init /\ [][Next]_vars

-----------------------------------------------------------------------------
(***************************************************************************)
(* Properties.                                                             *)
(***************************************************************************)

\* Every variable has its type; as a key is never 0, key = 0 is "no key yet".
TypeOK ==
    /\ ecd \in EcdStr /\ ecd_pos \in 0..(Len(ecd) + 1)
    /\ key \in 0..255 /\ bit \in { 0, 2, 4, 8, 16, 32, 64, 128 }
    /\ dcd \in Seq(0..255) /\ dcd_pos \in Nat /\ strs \in 0..2

\* The value of each bit of a key but the lowest, by its number.
BitOf == <<2, 4, 8, 16, 32, 64, 128>>

\* Character j of the decoded string, from the layout of the encoded one: groups
\* of eight bytes, a key and seven characters.
Plain(j) ==
    LET group == (j - 1) \div 7
        inner == ((j - 1) % 7) + 1
        char  == ecd[8 * group + inner + 1]
    IN  IF (ecd[8 * group + 1] \div BitOf[inner]) % 2 = 1 THEN char ELSE char - 1

\* The characters among the first n bytes of an encoded string.
CharsIn(n) == n - (n + 7) \div 8

\* What was written so far is what the layout says, at every turn of the loop, and
\* lies with its '\0' in a buffer of the encoded string's size (save_host_blk).
DecodedSoFar ==
    LET end == IF Decoded THEN Len(dcd) - 1 ELSE Len(dcd)
    IN  /\ end = CharsIn(IF Decoded THEN Len(ecd) ELSE ecd_pos)
        /\ \A j \in 1..end : dcd[j] = Plain(j)
        /\ Decoded => dcd[Len(dcd)] = 0
        /\ Len(dcd) <= BufLen

StrEnds == { j \in (OptsLen + 1)..Len(dcd) : dcd[j] = 0 }

\* The cursor leaves the buffer only by the step over the options, and from there
\* nothing is read.  Where the decoded string holds the ends of both strings, no
\* cell that the decoder did not write is read (save_game_opts, safe_str_len).
OptsInBuffer ==
    dcd_pos # 0 =>
        /\ dcd_pos <= BufLen \/ (dcd_pos = OptsLen /\ strs = 0)
        /\ (\E j, k \in StrEnds : j < k) => dcd_pos <= Len(dcd)
=============================================================================
