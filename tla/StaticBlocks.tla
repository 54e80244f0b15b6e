---------------------------- MODULE StaticBlocks ----------------------------
(***************************************************************************)
(* The static part of a replay stream: process_stream of stream.c up to    *)
(* save_dyn_blk_seq, that is the host block, the guest blocks and the join *)
(* screen block in this order, then the table of joiners that is formed    *)
(* from persons and slots; and what bract_wc3_deinit frees of it.          *)
(*                                                                         *)
(* As in DynStream a value is chosen when it is read.  One byte may be     *)
(* read twice: the id behind the last guest block, which is put back and   *)
(* kept in blk_id until then.  A cursor that is left behind by an error is *)
(* not looked at again and stays where the block began.                    *)
(*                                                                         *)
(* The strings that matter are the names of persons: each is known by the  *)
(* number of its allocation, and 0 is the null pointer.  The encoded       *)
(* string of the host block is handed to OptsDecode, whose steps are steps *)
(* of this module while pc is "decode".                                    *)
(***************************************************************************)
EXTENDS Integers, Sequences, FiniteSets

CONSTANTS
    Lim,            \* bytes of the stream
    Builds,         \* the game builds the sub-header may name
    Ids,            \* the ids of persons and slots (one byte)
    StrLens,        \* the string lengths, '\0' not counted
    EcdStrs,        \* the encoded strings of the host block
    SlotCnts,       \* the numbers of slots (one byte)
    MallocResults   \* the answers of malloc, FALSE when it fails

ASSUME StaticAssumption ==
    /\ Lim \in Nat /\ Builds \subseteq Nat /\ StrLens \subseteq Nat
    /\ \A n \in Ids \cup SlotCnts : n \in Nat /\ n < 256
    /\ MallocResults \subseteq BOOLEAN /\ EcdStrs \subseteq Seq(1..255)

NULL == 0

VARIABLES
    pc,         \* where process_stream stands
    build,
    pos,        \* strm->pos
    blk_id,     \* the id at the cursor if it was read before, or Unread
    nfo,        \* which of the three descriptions blk_nfo points to
    host,       \* host_blk->prsn
    prsn_tbl, slot_tbl, joiner_tbl,
    idx,        \* where the loops of form_joiner_tbl stand
    names,      \* number of names that were allocated
    freed,      \* the names that deinit freed, in order
    lost,       \* history: the names that nothing points to any more
    size,       \* history: the bytes of all blocks that were read
    ecd, ecd_pos, key, bit, dcd, dcd_pos, strs  \* see OptsDecode

Decoder == INSTANCE OptsDecode

decoder == <<ecd, ecd_pos, key, bit, dcd, dcd_pos, strs>>
tables  == <<host, prsn_tbl, slot_tbl, joiner_tbl>>
memory  == <<names, freed, lost>>
stream  == <<build, pos, blk_id, nfo, size>>
others  == <<pc, build, pos, blk_id, nfo, host, prsn_tbl, slot_tbl, joiner_tbl, idx,
             names, freed, lost, size>>
vars    == <<pc, build, pos, blk_id, nfo, host, prsn_tbl, slot_tbl, joiner_tbl, idx,
             names, freed, lost, size, ecd, ecd_pos, key, bit, dcd, dcd_pos, strs>>

Unread == 256

Persons == [id : Ids, name : Nat]

Reading == { "begin", "blocks", "decode" }

\* Ends of process_stream: the dynamic part is next, an error code is returned, or
\* the behaviour is undefined.
Results == { "parsed", "error", "dangling", "wild_read" }

-----------------------------------------------------------------------------
Init ==
    /\ pc = "begin" /\ build \in Builds /\ pos = 0 /\ blk_id = Unread /\ nfo = 0
    /\ host = [id |-> 0, name |-> NULL]
    /\ prsn_tbl = <<>> /\ slot_tbl = <<>> /\ joiner_tbl = <<>> /\ idx = 0
    /\ names = 0 /\ freed = <<>> /\ lost = {} /\ size = 0
    /\ Decoder!Start(<<>>)

Fail == pc' = "error" /\ UNCHANGED <<build, pos, blk_id, nfo, size, idx>>

\* tbl_alloc that gets no memory for the array: a pointer that was freed.
Dangling == pc' = "dangling" /\ UNCHANGED <<build, pos, blk_id, nfo, size, idx>>

\* Four bytes, the table of persons and the join screen block.
Begin ==
    /\ pc = "begin"
    /\ \/ /\ 4 <= Lim /\ TRUE \in MallocResults
          /\ pc' = "blocks" /\ pos' = 4 /\ size' = 4
          /\ UNCHANGED <<build, blk_id, nfo, idx>>
       \/ Fail /\ (4 > Lim \/ FALSE \in MallocResults)
       \/ Dangling /\ 4 <= Lim /\ FALSE \in MallocResults
    /\ UNCHANGED <<tables, memory>>

-----------------------------------------------------------------------------
(***************************************************************************)
(* save_static_blk_seq                                                     *)
(***************************************************************************)
HostId == 0
GuestId == 22
JoinScrnId == 25

\* The id of each description, and one that no block has.
IdOf == <<HostId, GuestId, JoinScrnId>>
NoId == 255

\* get_blk_id yields id.
BlkIdIs(id) ==
    /\ pc = "blocks" /\ nfo < 3 /\ pos + 1 <= Lim
    /\ blk_id \in { Unread, id }

CutBlkId ==
    /\ pc = "blocks" /\ nfo < 3 /\ pos + 1 > Lim
    /\ Fail /\ UNCHANGED <<tables, memory>>

\* A mistake to check against: one byte behind the stream is read.
InStreamOrBehind(end) == end <= Lim + 1

\* safe_mem_read and safe_pos_fw up to here.
InStream(end) == end <= Lim

\* A mistake to check against: the description is not left.
SameNfo == nfo

NextNfo == nfo + 1

\* The expected block was read, n bytes of it with its id.
ReadBlk(n) ==
    /\ InStream(pos + n) /\ pos' = pos + n /\ size' = size + n
    /\ pc' = "blocks" /\ blk_id' = Unread
    /\ nfo' = IF nfo = 1 THEN nfo ELSE nfo + 1
    /\ UNCHANGED <<build, idx>>

\* A mandatory block does not come.
OtherBlk ==
    /\ nfo \in { 0, 2 }
    /\ \E id \in { HostId, GuestId, JoinScrnId, NoId } \ { IdOf[nfo + 1] } : BlkIdIs(id)
    /\ Fail /\ UNCHANGED <<tables, memory>>

\* A mistake to check against: the id is not put back.
KeepId(id) == pos' = pos + 1 /\ blk_id' = Unread

\* unsafe_pos_bw.
PutBack(id) == pos' = pos /\ blk_id' = id

\* No further guest block: the id is for the next description.
NoMoreGuests ==
    /\ nfo = 1
    /\ \E id \in { HostId, JoinScrnId, NoId } : BlkIdIs(id) /\ PutBack(id)
    /\ nfo' = NextNfo
    /\ UNCHANGED <<pc, build, size, idx, tables, memory>>

\* Bytes of save_prsn_rec: an id, the name, the size of the rest, and the rest.
PrsnRecLens == { 1 + l + 1 + 1 + rest : l \in StrLens, rest \in { 1, 8 } }

\* The name was stored before the record turns out to be cut or invalid.
NameFits == \E l \in StrLens : pos + 1 + 1 + l + 1 <= Lim

NewName == names + 1

\* save_host_blk behind the person: the name of the game, a byte, the encoded string,
HostMidLens(e) == { g + 1 + 1 + Len(e) + 1 : g \in StrLens }

\* and behind that string the number of players and eight bytes.
HostEnd == 4 + 8

\* The host, the name of the game and the encoded string, with memory for both strings.
HostBlk ==
    /\ nfo = 0 /\ BlkIdIs(HostId) /\ TRUE \in MallocResults
    /\ \E e \in EcdStrs :
        /\ \E n \in PrsnRecLens, m \in HostMidLens(e) :
            /\ InStream(pos + 1 + n + m)
            /\ pos' = pos + 1 + n + m /\ size' = size + 1 + n + m
        /\ Decoder!Load(e)
    /\ pc' = "decode" /\ blk_id' = Unread
    /\ \E id \in Ids : host' = [id |-> id, name |-> NewName]
    /\ names' = NewName
    /\ UNCHANGED <<build, nfo, idx, prsn_tbl, slot_tbl, joiner_tbl, freed, lost>>

\* Cut, invalid or without memory anywhere, before its name is stored or behind it.
BadHostBlk ==
    /\ nfo = 0 /\ BlkIdIs(HostId) /\ Fail
    /\ \/ UNCHANGED <<host, names>>
       \/ /\ NameFits /\ TRUE \in MallocResults
          /\ \E id \in Ids : host' = [id |-> id, name |-> NewName]
          /\ names' = NewName
    /\ UNCHANGED <<prsn_tbl, slot_tbl, joiner_tbl, freed, lost>>

\* One step of the decoder, or of the search for the strings, which are copied.
DecodeStep ==
    /\ pc = "decode" /\ Decoder!Decoding
    /\ strs' # strs => TRUE \in MallocResults
    /\ UNCHANGED others

\* The strings were found, and the rest of the block is there.
HostDone ==
    /\ pc = "decode" /\ strs = 2 /\ ReadBlk(HostEnd) /\ Decoder!Load(<<>>)
    /\ UNCHANGED <<tables, memory>>

\* A string is cut, or there is no memory for it, or the rest is missing.
HostFails ==
    /\ pc = "decode"
    /\ \/ Decoder!CutStr
       \/ Decoder!AtEnd /\ FALSE \in MallocResults
       \/ strs = 2 /\ ~InStream(pos + HostEnd)
    /\ Fail /\ Decoder!Load(<<>>)
    /\ UNCHANGED <<tables, memory>>

\* The options are read from a buffer that is too small for them.
HostReadsBehind ==
    /\ pc = "decode" /\ Decoder!SkipOpts /\ Decoder!BufLen < Decoder!OptsRead
    /\ pc' = "wild_read"
    /\ UNCHANGED <<build, pos, blk_id, nfo, size, idx, tables, memory>>

Hosting == HostBlk \/ DecodeStep \/ HostDone \/ HostFails \/ HostReadsBehind

\* save_guest_blk, and four bytes behind it.
GuestBlk ==
    /\ nfo = 1 /\ BlkIdIs(GuestId) /\ TRUE \in MallocResults
    /\ \E n \in PrsnRecLens : ReadBlk(1 + n + 4)
    /\ \E id \in Ids : prsn_tbl' = Append(prsn_tbl, [id |-> id, name |-> NewName])
    /\ names' = NewName
    /\ UNCHANGED <<host, slot_tbl, joiner_tbl, freed, lost>>

\* The same as for the host, but here the person is freed, and not its name.
BadGuestBlk ==
    /\ nfo = 1 /\ BlkIdIs(GuestId) /\ Fail
    /\ \/ UNCHANGED <<names, lost>>
       \/ /\ NameFits /\ TRUE \in MallocResults
          /\ names' = NewName /\ lost' = lost \cup { NewName }
    /\ UNCHANGED <<tables, freed>>

\* The person is in the table already when the four bytes are missing.
CutGuestBlk ==
    /\ nfo = 1 /\ BlkIdIs(GuestId) /\ TRUE \in MallocResults
    /\ \E n \in PrsnRecLens : pos + 1 + n <= Lim /\ pos + 1 + n + 4 > Lim
    /\ Fail
    /\ \E id \in Ids : prsn_tbl' = Append(prsn_tbl, [id |-> id, name |-> NewName])
    /\ names' = NewName
    /\ UNCHANGED <<host, slot_tbl, joiner_tbl, freed, lost>>

Slots == [id : Ids, used : BOOLEAN]

\* Bytes of a slot record, which depend on the build (save_slot_seq).
SlotLen == IF build < 4572 THEN 7 ELSE IF build < 6031 THEN 8 ELSE 9

JoinScrnBlk ==
    /\ nfo = 2 /\ BlkIdIs(JoinScrnId)
    /\ \E n \in SlotCnts :
        /\ n > 0 => TRUE \in MallocResults
        /\ ReadBlk(1 + 3 + n * SlotLen + 6)
        /\ slot_tbl' \in [1..n -> Slots]
    /\ UNCHANGED <<host, prsn_tbl, joiner_tbl, memory>>

\* Cut or without memory: some of the slots may be in the table.
BadJoinScrnBlk ==
    /\ nfo = 2 /\ BlkIdIs(JoinScrnId) /\ Fail
    /\ \E n \in SlotCnts \cup { 0 } :
        /\ n > 0 => TRUE \in MallocResults /\ pos + 1 + 3 + n * SlotLen <= Lim
        /\ slot_tbl' \in [1..n -> Slots]
    /\ UNCHANGED <<host, prsn_tbl, joiner_tbl, memory>>

Blocks ==
    \/ CutBlkId \/ OtherBlk \/ NoMoreGuests \/ BadHostBlk
    \/ GuestBlk \/ BadGuestBlk \/ CutGuestBlk \/ JoinScrnBlk \/ BadJoinScrnBlk

-----------------------------------------------------------------------------
(***************************************************************************)
(* form_joiner_tbl, one slot and then one joiner at a time.                *)
(***************************************************************************)

\* All blocks were read; tbl_alloc of the joiners.
AllocJoiners ==
    /\ pc = "blocks" /\ nfo = 3
    /\ \/ /\ TRUE \in MallocResults /\ pc' = "slots" /\ idx' = 1
          /\ UNCHANGED stream
       \/ FALSE \in MallocResults /\ (Fail \/ Dangling)
    /\ UNCHANGED <<tables, memory>>

\* No slot: BRACT_E_OFC_REP.
NoSlots == pc = "slots" /\ slot_tbl = <<>> /\ Fail /\ UNCHANGED <<tables, memory>>

AddJoiner ==
    /\ pc = "slots" /\ idx <= Len(slot_tbl)
    /\ LET slot == slot_tbl[idx]
       IN  IF slot.used
           THEN \/ /\ TRUE \in MallocResults
                   /\ joiner_tbl' = Append(joiner_tbl,
                                           [id |-> slot.id, name |-> NULL, host |-> FALSE])
                   /\ pc' = pc /\ idx' = idx + 1 /\ UNCHANGED stream
                \/ FALSE \in MallocResults /\ Fail /\ UNCHANGED joiner_tbl
           ELSE pc' = pc /\ idx' = idx + 1 /\ UNCHANGED <<stream, joiner_tbl>>
    /\ UNCHANGED <<host, prsn_tbl, slot_tbl, memory>>

AllAdded ==
    /\ pc = "slots" /\ slot_tbl # <<>> /\ idx > Len(slot_tbl)
    /\ pc' = "names" /\ idx' = 1
    /\ UNCHANGED <<stream, tables, memory>>

\* seek_prsn finds person k of the table.
Found(k) ==
    /\ k \in DOMAIN prsn_tbl /\ prsn_tbl[k].id = joiner_tbl[idx].id
    /\ \A m \in 1..(k - 1) : prsn_tbl[m].id # joiner_tbl[idx].id

NotFound == \A k \in DOMAIN prsn_tbl : prsn_tbl[k].id # joiner_tbl[idx].id

\* A mistake to check against: the person keeps its name.
Shared(prsn) == prsn

\* What export_prsn_to_joiner leaves of a person.
Exported(prsn) == [prsn EXCEPT !.name = NULL]

AtJoiner == pc = "names" /\ idx <= Len(joiner_tbl)

NameJoiner(name, is_host) ==
    /\ joiner_tbl' = [joiner_tbl EXCEPT ![idx].name = name, ![idx].host = is_host]
    /\ idx' = idx + 1
    /\ UNCHANGED <<pc, stream, slot_tbl, freed, lost>>

JoinGuest ==
    /\ AtJoiner
    /\ \E k \in DOMAIN prsn_tbl :
        /\ Found(k) /\ NameJoiner(prsn_tbl[k].name, FALSE)
        /\ prsn_tbl' = [prsn_tbl EXCEPT ![k] = Exported(@)]
    /\ UNCHANGED <<host, names>>

JoinHost ==
    /\ AtJoiner /\ NotFound /\ host.id = joiner_tbl[idx].id
    /\ NameJoiner(host.name, TRUE)
    /\ host' = Exported(host)
    /\ UNCHANGED <<prsn_tbl, names>>

\* "unknown_??" has room for two digits.
LongId == joiner_tbl[idx].id > 99

\* complete_joiner makes a name up.
CompleteJoiner ==
    /\ AtJoiner /\ NotFound /\ host.id # joiner_tbl[idx].id
    /\ ~LongId /\ TRUE \in MallocResults
    /\ NameJoiner(NewName, FALSE) /\ names' = NewName
    /\ UNCHANGED <<host, prsn_tbl>>

\* No memory for the name, or no room in it: in that case the name is kept.
CompleteFails ==
    /\ AtJoiner /\ NotFound /\ host.id # joiner_tbl[idx].id
    /\ Fail
    /\ \/ FALSE \in MallocResults /\ UNCHANGED <<joiner_tbl, names>>
       \/ /\ LongId /\ TRUE \in MallocResults
          /\ joiner_tbl' = [joiner_tbl EXCEPT ![idx].name = NewName]
          /\ names' = NewName
    /\ UNCHANGED <<host, prsn_tbl, slot_tbl, freed, lost>>

\* A mistake to check against: the comparison the wrong way round.
Follows(j, k) ==
    \/ joiner_tbl[j].id > joiner_tbl[k].id
    \/ joiner_tbl[j].id = joiner_tbl[k].id /\ j < k

\* Joiner j comes before joiner k when the table is sorted by id.
Precedes(j, k) ==
    \/ joiner_tbl[j].id < joiner_tbl[k].id
    \/ joiner_tbl[j].id = joiner_tbl[k].id /\ j < k

\* Module Table shows that tbl_sort does this, where it returns; and that it reads
\* before the array when an id is smaller than all that precede it.
SortJoiners ==
    /\ joiner_tbl' \in [DOMAIN joiner_tbl -> { joiner_tbl[k] : k \in DOMAIN joiner_tbl }]
    /\ \A k \in DOMAIN joiner_tbl :
        joiner_tbl'[1 + Cardinality({ j \in DOMAIN joiner_tbl : Precedes(j, k) })]
            = joiner_tbl[k]

ReadsBefore ==
    \E k \in DOMAIN joiner_tbl :
        k > 1 /\ \A j \in 1..(k - 1) : joiner_tbl[k].id < joiner_tbl[j].id

\* All joiners have their names: the table is sorted and the lists are allocated.
Finish ==
    /\ pc = "names" /\ idx > Len(joiner_tbl)
    /\ \/ /\ SortJoiners
          /\ \/ TRUE \in MallocResults /\ pc' = "parsed"
             \/ FALSE \in MallocResults /\ pc' = "error"
       \/ ReadsBefore /\ pc' = "wild_read" /\ UNCHANGED joiner_tbl
    /\ UNCHANGED <<stream, idx, host, prsn_tbl, slot_tbl, memory>>

Joining ==
    \/ AllocJoiners \/ NoSlots \/ AddJoiner \/ AllAdded
    \/ JoinGuest \/ JoinHost \/ CompleteJoiner \/ CompleteFails \/ Finish

-----------------------------------------------------------------------------
(***************************************************************************)
(* bract_wc3_deinit: the host, the persons and the joiners are freed with  *)
(* their names; one step frees one of them, the last of its table.         *)
(***************************************************************************)
ButLast(tbl) == SubSeq(tbl, 1, Len(tbl) - 1)

\* free(NULL) does nothing.
FreeName(name) == freed' = IF name = NULL THEN freed ELSE Append(freed, name)

\* host_blk_dealloc.
Deinit ==
    /\ pc \in { "parsed", "error" }
    /\ FreeName(host.name) /\ host' = Exported(host)
    /\ pc' = "deinit"
    /\ UNCHANGED <<stream, idx, prsn_tbl, slot_tbl, joiner_tbl, names, lost>>

FreePerson ==
    /\ pc = "deinit" /\ prsn_tbl # <<>>
    /\ FreeName(prsn_tbl[Len(prsn_tbl)].name) /\ prsn_tbl' = ButLast(prsn_tbl)
    /\ UNCHANGED <<pc, stream, idx, host, slot_tbl, joiner_tbl, names, lost>>

FreeJoiner ==
    /\ pc = "deinit" /\ prsn_tbl = <<>> /\ joiner_tbl # <<>>
    /\ FreeName(joiner_tbl[Len(joiner_tbl)].name) /\ joiner_tbl' = ButLast(joiner_tbl)
    /\ UNCHANGED <<pc, stream, idx, host, prsn_tbl, slot_tbl, names, lost>>

AllFreed ==
    /\ pc = "deinit" /\ prsn_tbl = <<>> /\ joiner_tbl = <<>>
    /\ pc' = "gone"
    /\ UNCHANGED <<stream, idx, tables, memory>>

Freeing == Deinit \/ FreePerson \/ FreeJoiner \/ AllFreed

Ended == pc \in { "gone", "dangling", "wild_read" } /\ UNCHANGED vars

Next ==
    \/ (Begin \/ Blocks \/ Joining \/ Freeing) /\ UNCHANGED decoder
    \/ Hosting
    \/ Ended

Spec == Init /\ [][Next]_vars

\* One thread, and nothing that blocks.
FairSpec == Spec /\ WF_vars(Next)

-----------------------------------------------------------------------------
(***************************************************************************)
(* Properties.                                                             *)
(***************************************************************************)

\* Every variable has its type, and the cursor stays in the stream.
TypeOK ==
    /\ pc \in Reading \cup Results \cup { "slots", "names", "deinit", "gone" }
    /\ build \in Builds /\ pos \in 0..Lim /\ blk_id \in 0..Unread /\ nfo \in 0..3
    /\ host \in [id : Ids \cup { 0 }, name : Nat]
    /\ prsn_tbl \in Seq(Persons) /\ slot_tbl \in Seq(Slots)
    /\ joiner_tbl \in Seq([id : Ids, name : Nat, host : BOOLEAN])
    /\ idx \in Nat /\ names \in Nat /\ freed \in Seq(1..names)
    /\ lost \subseteq 1..names /\ size \in Nat
    /\ pc = "decode" => Decoder!TypeOK

\* Blocks lie one behind the other from the beginning of the stream to the cursor:
\* nothing is skipped and nothing is read as part of two blocks, although an id
\* is read twice (save_static_blk_seq, unsafe_pos_bw).
Contiguous == pos = size

Owners(name) ==
    Cardinality({ k \in DOMAIN prsn_tbl : prsn_tbl[k].name = name })
    + Cardinality({ k \in DOMAIN joiner_tbl : joiner_tbl[k].name = name })
    + Cardinality({ k \in DOMAIN freed : freed[k] = name })
    + (IF host.name = name THEN 1 ELSE 0)
    + (IF name \in lost THEN 1 ELSE 0)

\* A name that was allocated belongs to the host, to one person or to one joiner, at
\* every step of forming the joiners and whatever fails, until it is freed; one that
\* belongs to nobody was given up with a bad guest block (export_prsn_to_joiner).
OwnedOnce ==
    /\ \A name \in 1..names : Owners(name) = 1
    /\ lost # {} => pc \in { "error", "deinit", "gone" } /\ nfo = 1

\* And so every name is freed once, also after an error in the middle.
ReleasedOnce ==
    pc = "gone" =>
        \A name \in 1..names \ lost :
            Cardinality({ k \in DOMAIN freed : freed[k] = name }) = 1

UsedIds == { k \in DOMAIN slot_tbl : slot_tbl[k].used }

\* The option string of the host block is decoded as its layout says and read within
\* its buffer, while persons and names come and go around it (module OptsDecode).
DecodedSoFar == Decoder!DecodedSoFar
OptsInBuffer == Decoder!OptsInBuffer

\* In the end there is a joiner for each used slot, by id.  A joiner without a name
\* has the id of a person that a joiner before it took the name of, and one that is
\* marked as the host has the host's id and took the host's name (form_joiner_tbl,
\* tbl_sort).
JoinersMatchSlots ==
    pc = "parsed" =>
        /\ Len(joiner_tbl) = Cardinality(UsedIds)
        /\ \A id \in Ids :
            Cardinality({ k \in DOMAIN joiner_tbl : joiner_tbl[k].id = id })
                = Cardinality({ k \in UsedIds : slot_tbl[k].id = id })
        /\ \A j, k \in DOMAIN joiner_tbl : j < k => joiner_tbl[j].id <= joiner_tbl[k].id
        /\ \A k \in DOMAIN joiner_tbl :
            /\ joiner_tbl[k].name = NULL =>
                \E j \in 1..(k - 1) :
                    joiner_tbl[j].id = joiner_tbl[k].id /\ joiner_tbl[j].name # NULL
            /\ joiner_tbl[k].host => joiner_tbl[k].id = host.id /\ host.name = NULL

\* How far process_stream has come, with the blocks behind the host by themselves.
Stage ==
    CASE pc = "begin"                -> 0
      [] pc = "blocks" /\ nfo = 0    -> 1
      [] pc = "decode"               -> 2
      [] pc = "blocks" /\ nfo # 0    -> 3
      [] pc = "slots"                -> 4
      [] pc = "names"                -> 5
      [] pc \in { "parsed", "error" } -> 6
      [] pc = "deinit"               -> 7
      [] OTHER                       -> 8

\* What the loop there has before it: bytes and descriptions, bytes of the option string
\* and cells of its buffer, slots, joiners, items to free.
TurnsLeft ==
    CASE pc = "blocks" -> (Lim - pos) + (3 - nfo)
      [] pc = "decode" -> (Decoder!BufLen - ecd_pos)
                          + (Decoder!BufLen + Decoder!OptsLen - dcd_pos)
      [] pc = "slots"  -> Len(slot_tbl) + 1 - idx
      [] pc = "names"  -> Len(joiner_tbl) + 1 - idx
      [] pc = "deinit" -> Len(prsn_tbl) + Len(joiner_tbl)
      [] OTHER         -> 0

\* No loop turns without getting on, neither where an id is put back and read again nor
\* where the options lie behind the end of their buffer: each step leads to a later stage,
\* or leaves its loop fewer turns (process_stream with all it calls, and deinit).
Advances ==
    [][ \/ Stage' > Stage
        \/ pc' = pc /\ TurnsLeft' \in Nat /\ TurnsLeft' < TurnsLeft ]_vars

\* Whatever the stream says, process_stream gets to its end.
Termination == <>(pc \in Results)
=============================================================================
