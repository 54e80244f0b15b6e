------------------------------ MODULE DynStream ------------------------------
(***************************************************************************)
(* The dynamic part of a replay stream: save_dyn_blk_seq of stream.c with  *)
(* everything it calls (the block readers, save_time_blk,                  *)
(* process_action_field and the handlers of actions.c), then eval_apm.     *)
(*                                                                         *)
(* The bytes of the stream are not kept.  The parser never reads a byte    *)
(* twice, so every value it reads is chosen when it is read; what is kept  *)
(* is the cursor, and the cursor decides which reads fit.  A malloc        *)
(* answers from MallocResults, where FALSE means that it fails.            *)
(***************************************************************************)
EXTENDS ActionTable, Integers, Sequences, FiniteSets

CONSTANTS
    Lim,            \* bytes of the stream behind the static blocks
    UINT,           \* 2^w: the unsigned counters wrap here
    Joiners,        \* the joiners an id read from the stream can name
    Observers,      \* the joiners of team 12
    NULL,           \* no joiner
    Builds,         \* the game builds the sub-header may name
    RestSizes,      \* the sizes a time block may declare (two bytes)
    TimeIncs,       \* the time increments a time block may carry (two bytes)
    FieldLens,      \* the lengths an action field may declare (two bytes)
    ItemCnts,       \* the item counts of a selection record (two bytes)
    StrLens,        \* the string lengths, '\0' not counted
    MallocResults   \* the answers of malloc

\* What two bytes of the stream count.
UShort == 65536

ASSUME SizesAssumption ==
    /\ Lim \in Nat
    /\ UINT \in Nat /\ UINT > 2 * Lim + UShort + 2
    /\ Builds \subseteq Nat
    /\ \A n \in RestSizes \cup TimeIncs \cup FieldLens \cup ItemCnts :
            n \in Nat /\ n < UShort
    /\ StrLens \subseteq Nat
    /\ MallocResults \subseteq BOOLEAN

ASSUME JoinersAssumption ==
    Observers \subseteq Joiners /\ NULL \notin Joiners

VARIABLES
    pc,         \* where the parser stands
    build,      \* sub_hdr.build
    pos,        \* strm->pos; Lim stands for strm->lim
    mmt,        \* mmt.total_ms
    paused,     \* state.paused
    deselect,   \* state.deselect
    rest_size,  \* save_time_blk's rest_size
    flen,       \* save_time_blk's len
    cur,        \* the joiner of the action field
    len,        \* process_action_field's len
    action_ls,  \* what was appended to the action list
    chat_ls,    \* what was appended to the chat list
    apm,        \* joiner->apm: number of actions, in the end actions per minute
    leave_mmt,  \* joiner->leave_mmt
    saver,      \* the joiners marked as saver
    last        \* the last leaver

\* History variables: the program does not have them.
VARIABLES
    blk_end,    \* where the open time block ends in the stream, by its head
    fld_end,    \* where the open action field ends in the stream, by its head
    blk_bad,    \* selection records of a bad mode that the open block contains
    fld_bad,    \* and those of them in the open field
    oom         \* some action was counted and could not be logged

cursor   == <<pc, pos>>
block    == <<rest_size, blk_end, blk_bad>>
field    == <<flen, cur, fld_end, fld_bad>>
clock    == <<mmt, paused>>
tally    == <<action_ls, apm, oom>>
leavers  == <<leave_mmt, saver, last>>
vars     == <<pc, build, pos, mmt, paused, deselect, rest_size, flen, cur, len,
              action_ls, chat_ls, apm, leave_mmt, saver, last,
              blk_end, fld_end, blk_bad, fld_bad, oom>>

\* The parser is still in save_dyn_blk_seq.
Parsing == { "alloc", "block", "field", "action" }

\* It ended: with a result, with an error code, or in undefined behaviour (a
\* call through a table cell nobody wrote, a conversion of a non-number).
Ended == { "returned", "error", "wild_call", "wild_apm" }

\* A mistake to check against: a counter that sticks at 0.
MinusSticks(a, b) == IF a >= b THEN a - b ELSE 0

\* a - b in an unsigned int.
Minus(a, b) == IF a >= b THEN a - b ELSE a - b + UINT

\* Reading items that end cuts bytes further stops behind the last that fits.
StopsIn(cuts, from) ==
    \E c \in cuts :
        /\ from + c <= Lim
        /\ \A d \in cuts : d > c => from + d > Lim
        /\ pos' = from + c

\* The action table as prep_action_ptrs leaves it: the handlers that an id read
\* from the stream can select, and the ids whose cell stays unwritten.
Handlers  == [b \in Builds |-> Registered(b)]
UnusedIds == [b \in Builds |-> 1..(TableLen - 1) \ UsedIds(b)]

\* A mistake to check against: the test that lets the parser go on and on.
AtLimOrBefore(p) == p <= Lim

\* pos_eq_lim.
AtLim(p) == p = Lim

-----------------------------------------------------------------------------
Init ==
    /\ pc = "alloc" /\ build \in Builds /\ pos = 0
    /\ mmt = 0 /\ paused = FALSE /\ deselect = FALSE
    /\ rest_size = 0 /\ flen = 0 /\ cur = NULL /\ len = 0
    /\ action_ls = <<>> /\ chat_ls = <<>>
    /\ apm = [j \in Joiners |-> 0] /\ leave_mmt = [j \in Joiners |-> 0]
    /\ saver = {} /\ last = NULL
    /\ blk_end = 0 /\ fld_end = 0 /\ blk_bad = 0 /\ fld_bad = 0 /\ oom = FALSE

\* arr_alloc of the action table.
AllocTable ==
    /\ pc = "alloc"
    /\ \E ok \in MallocResults : pc' = IF ok THEN "block" ELSE "error"
    /\ UNCHANGED <<build, pos, clock, deselect, block, field, len, tally, chat_ls,
                   leavers>>

-----------------------------------------------------------------------------
(***************************************************************************)
(* Blocks.                                                                 *)
(***************************************************************************)

\* A mistake to check against: asking for an id again when there is none.
EndOfStreamRetried == pc = "block" /\ pos + 1 > Lim /\ UNCHANGED vars

\* get_blk_id finds no byte.
EndOfStream ==
    /\ pc = "block" /\ pos + 1 > Lim
    /\ pc' = "error"
    /\ UNCHANGED <<build, pos, clock, deselect, block, field, len, tally, chat_ls,
                   leavers>>

AtBlockId == pc = "block" /\ pos + 1 <= Lim

\* An id that save_dyn_blk_seq has no branch for.  The branches that refuse a
\* block the build does not know leave the same way.
UnknownBlk ==
    /\ AtBlockId
    /\ pc' = "error" /\ pos' = pos + 1
    /\ UNCHANGED <<build, clock, deselect, block, field, len, tally, chat_ls, leavers>>

\* The blocks that are skipped: 0x1A, 0x1B, 0x1C, 0x22, 0x23 and the countdown.
SkipSizes == { 4, 5, 10 } \cup (IF build < 6031 THEN {} ELSE { 8 })

SkipBlk ==
    /\ AtBlockId
    /\ \E n \in SkipSizes :
        /\ pos' = pos + 1 + n
        /\ pc' = IF pos' > Lim THEN "error" ELSE "block"
    /\ UNCHANGED <<build, clock, deselect, block, field, len, tally, chat_ls, leavers>>

\* save_leave_blk: 4 bytes skipped, an id read, 8 bytes skipped; behind the last
\* byte of the stream the leaver is the one who saved the replay.
LeaveBlk ==
    /\ AtBlockId
    /\ IF pos + 6 > Lim
       THEN pos' = pos + 5 /\ pc' = "error" /\ UNCHANGED leavers
       ELSE /\ pos' = pos + 14
            /\ \E joiner \in Joiners \cup { NULL } :
                IF pos' > Lim \/ joiner = NULL
                THEN pc' = "error" /\ UNCHANGED leavers
                ELSE /\ leave_mmt' = [leave_mmt EXCEPT ![joiner] = mmt]
                     /\ last' = joiner
                     /\ IF AtLim(pos')
                        THEN saver' = saver \cup { joiner } /\ pc' = "parsed"
                        ELSE saver' = saver /\ pc' = "block"
    /\ UNCHANGED <<build, clock, deselect, block, field, len, tally, chat_ls>>

\* save_chatmsg_blk read to its end: 1 + 2 + 1 + 4 bytes and a string.
ChatBlk ==
    /\ AtBlockId /\ build >= 6031
    /\ \E l \in StrLens, ok \in MallocResults :
        /\ pos' = pos + 1 + 8 + l + 1 /\ pos' <= Lim
        /\ IF ok THEN /\ chat_ls' = Append(chat_ls, [mmt |-> mmt, no |-> Len(chat_ls)])
                      /\ pc' = "block"
                 ELSE pc' = "error" /\ UNCHANGED chat_ls
    /\ UNCHANGED <<build, clock, deselect, block, field, len, tally, leavers>>

\* A chat block that does not fit, has no '\0' or gets no memory for its string:
\* save_chatmsg_blk returns 0 with the cursor inside the block.
CutChatBlk ==
    /\ AtBlockId /\ build >= 6031
    /\ StopsIn({ 0, 1, 3, 4, 8 }, pos + 1)
    /\ UNCHANGED <<pc, build, clock, deselect, block, field, len, tally, chat_ls,
                   leavers>>

\* No memory for the message itself.
ChatBlkNoMemory ==
    /\ AtBlockId /\ build >= 6031 /\ FALSE \in MallocResults
    /\ pos' = pos + 1 /\ pc' = "error"
    /\ UNCHANGED <<build, clock, deselect, block, field, len, tally, chat_ls, leavers>>

-----------------------------------------------------------------------------
(***************************************************************************)
(* save_time_blk: the head of a time block, and the loop over its fields.  *)
(***************************************************************************)

\* A mistake to check against: the clock shows the length of the last block.
ClockSet(inc) == IF paused THEN mmt ELSE inc

\* moment_inc, unless the game is paused.
ClockAfter(inc) == IF paused THEN mmt ELSE mmt + inc

TimeBlk ==
    /\ AtBlockId /\ pos + 5 <= Lim
    /\ pos' = pos + 5 /\ pc' = "field"
    /\ \E size \in RestSizes, inc \in TimeIncs :
        /\ mmt' = ClockAfter(inc)
        /\ rest_size' = Minus(size, 2)
        /\ blk_end' = pos' + size - 2 /\ blk_bad' = 0
    /\ UNCHANGED <<build, paused, deselect, field, len, tally, chat_ls, leavers>>

CutTimeBlk ==
    /\ AtBlockId /\ pos + 5 > Lim
    /\ StopsIn({ 0, 2 }, pos + 1) /\ pc' = "error"
    /\ UNCHANGED <<build, clock, deselect, block, field, len, tally, chat_ls, leavers>>

\* A mistake to check against: leaving the block when no field fits any more.
NoFieldFits == rest_size <= 3

BlkDone == rest_size = 0

EndTimeBlk ==
    /\ pc = "field" /\ BlkDone
    /\ pc' = "block" /\ blk_end' = 0 /\ blk_bad' = 0
    /\ UNCHANGED <<build, pos, clock, deselect, rest_size, field, len, tally, chat_ls,
                   leavers>>

OpenField ==
    /\ pc = "field" /\ ~BlkDone /\ pos + 3 <= Lim
    /\ pos' = pos + 3
    /\ \E l \in FieldLens, joiner \in Joiners \cup { NULL } :
        IF joiner = NULL
        THEN pc' = "error" /\ UNCHANGED <<field, len>>
        ELSE /\ pc' = "action" /\ cur' = joiner
             /\ flen' = l /\ len' = l /\ fld_end' = pos' + l /\ fld_bad' = 0
    /\ UNCHANGED <<build, clock, deselect, block, tally, chat_ls, leavers>>

CutField ==
    /\ pc = "field" /\ ~BlkDone /\ pos + 3 > Lim
    /\ StopsIn({ 0, 1 }, pos) /\ pc' = "error"
    /\ UNCHANGED <<build, clock, deselect, block, field, len, tally, chat_ls, leavers>>

FieldSize == flen + 3

CloseField ==
    /\ pc = "action" /\ len = 0
    /\ rest_size' = Minus(rest_size, FieldSize)
    /\ pc' = "field" /\ cur' = NULL /\ flen' = 0 /\ fld_end' = 0 /\ fld_bad' = 0
    /\ UNCHANGED <<build, pos, clock, deselect, len, tally, chat_ls, leavers,
                   blk_end, blk_bad>>

-----------------------------------------------------------------------------
(***************************************************************************)
(* process_action_field: one turn of its loop is one action id, the call   *)
(* of its handler, and the charge of the bytes the handler reports.        *)
(***************************************************************************)
AtActionId == pc = "action" /\ len > 0 /\ pos + 1 <= Lim

CutActionId ==
    /\ pc = "action" /\ len > 0 /\ pos + 1 > Lim
    /\ pc' = "error"
    /\ UNCHANGED <<build, pos, clock, deselect, block, field, len, tally, chat_ls,
                   leavers>>

\* An id outside 1 .. TableLen - 1.
BadActionId ==
    /\ AtActionId
    /\ pos' = pos + 1 /\ pc' = "error"
    /\ UNCHANGED <<build, clock, deselect, block, field, len, tally, chat_ls, leavers>>

\* An id inside the table that no arr_add wrote: the cell has whatever malloc
\* left there.  NULL is refused, anything else but a handler is called.
UnusedActionId ==
    /\ AtActionId
    /\ UnusedIds[build] # {}
    /\ pos' = pos + 1
    /\ \/ pc' = "error" /\ UNCHANGED deselect
       \/ pc' = "wild_call" /\ deselect' = FALSE
    /\ UNCHANGED <<build, clock, block, field, len, tally, chat_ls, leavers>>

\* The handler reports that it used n bytes and the field goes on.
Charge(n) == pc' = "action" /\ len' = Minus(len, 1 + n)

\* The handler reports -1.
GiveUp == pc' = "error" /\ UNCHANGED len

\* A mistake to check against: the cursor goes back to the action id.
SkipBack(n) == pos' = pos /\ Charge(n)

\* A mistake to check against: the cursor may run out of the stream.
SkipUnchecked(n) == pos' = pos + 1 + n /\ Charge(n)

\* safe_pos_fw over the n bytes behind the action id.
Skip(n) ==
    /\ pos' = pos + 1 + n
    /\ IF pos' > Lim THEN GiveUp ELSE Charge(n)

\* add_action, where ok says whether there was memory for the entry.
AddAction(ls, ok) ==
    IF ok THEN Append(ls, [joiner |-> cur, mmt |-> mmt]) ELSE ls

\* A mistake to check against: logged and not counted.
CountNothing == apm' = apm

CountAction == apm' = [apm EXCEPT ![cur] = @ + 1]

CountAndLog(ok) ==
    CountAction /\ action_ls' = AddAction(action_ls, ok) /\ oom' = (oom \/ ~ok)

\* A handler of fixed size that counts no action.
UncountedAction ==
    /\ AtActionId
    /\ \E handler \in Handlers[build] \ (CountedFirst \cup CountedAfter \cup Special) :
        /\ Skip(Size(handler))
        /\ paused' = CASE handler = "pause"  -> TRUE
                       [] handler = "resume" -> FALSE
                       [] OTHER -> paused
    /\ deselect' = FALSE
    /\ UNCHANGED <<build, mmt, block, field, tally, chat_ls, leavers>>

\* Counted and logged first, whether or not the record is complete.
CountedFirstAction ==
    /\ AtActionId
    /\ \E handler \in Handlers[build] \cap CountedFirst, ok \in MallocResults :
        /\ CountAndLog(ok)
        /\ IF handler \in NeedsMemory /\ ~ok
           THEN pos' = pos + 1 /\ GiveUp
           ELSE Skip(Size(handler))
    /\ deselect' = FALSE
    /\ UNCHANGED <<build, clock, block, field, chat_ls, leavers>>

\* action_ability_1_ge_113 counts the action once and logs it twice.
Ability1Action ==
    /\ AtActionId
    /\ "ability_1_ge_113" \in Handlers[build]
    /\ \E ok1, ok2 \in MallocResults :
        /\ CountAction
        /\ action_ls' = AddAction(AddAction(action_ls, ok1), ok2)
        /\ oom' = (oom \/ ~ok1 \/ ~ok2)
        /\ IF ok2 THEN Skip(Size("ability_1_ge_113"))
                  ELSE pos' = pos + 1 /\ GiveUp
    /\ deselect' = FALSE
    /\ UNCHANGED <<build, clock, block, field, chat_ls, leavers>>

\* Counted only if the record is complete.
CountedAfterAction ==
    /\ AtActionId
    /\ \E handler \in Handlers[build] \cap CountedAfter, ok \in MallocResults :
        /\ Skip(Size(handler))
        /\ IF pos' > Lim THEN UNCHANGED tally ELSE CountAndLog(ok)
    /\ deselect' = FALSE
    /\ UNCHANGED <<build, clock, block, field, chat_ls, leavers>>

\* The bytes of a string action before its string.
StringHead(handler) == IF handler = "save" THEN 0 ELSE 8

\* The head is skipped, and a string behind it is read, which may have no '\0' in
\* the stream or get no memory.
ReadString(head) ==
    \/ \E l \in StrLens :
        /\ pos' = pos + 1 + head + l + 1 /\ pos' <= Lim
        /\ Charge(head + l + 1)
    \/ pos' = pos + 1 + head /\ GiveUp

\* action_save and action_map_trigger_chat_command.
StringAction ==
    /\ AtActionId
    /\ \E handler \in Handlers[build] \cap { "save", "map_trigger_chat_command" } :
        ReadString(StringHead(handler))
    /\ deselect' = FALSE
    /\ UNCHANGED <<build, clock, block, field, tally, chat_ls, leavers>>

\* action_select_subgroup_lt_114b: subgroups 0x00 and 0xFF are not counted.
SubgroupAction ==
    /\ AtActionId
    /\ "select_subgroup_lt_114b" \in Handlers[build]
    /\ IF pos + 2 > Lim
       THEN pos' = pos + 1 /\ GiveUp /\ UNCHANGED tally
       ELSE /\ pos' = pos + 2 /\ Charge(1)
            /\ \/ UNCHANGED tally
               \/ \E ok \in MallocResults : CountAndLog(ok)
    /\ deselect' = FALSE
    /\ UNCHANGED <<build, clock, block, field, chat_ls, leavers>>

\* A record whose head, a byte and a two-byte count, is not in the stream.
CutItemsAction ==
    /\ AtActionId /\ pos + 4 > Lim
    /\ StopsIn({ 0, 1 }, pos + 1) /\ GiveUp
    /\ deselect' \in { deselect, FALSE }
    /\ UNCHANGED <<build, clock, block, field, tally, chat_ls, leavers>>

AssignGroupHotkeyAction ==
    /\ AtActionId /\ pos + 4 <= Lim
    /\ \E cnt \in ItemCnts, ok \in MallocResults :
        /\ Skip(3 + cnt * 8)
        /\ IF pos' > Lim THEN UNCHANGED tally ELSE CountAndLog(ok)
    /\ deselect' = FALSE
    /\ UNCHANGED <<build, clock, block, field, chat_ls, leavers>>

\* action_change_selection, mode 1: not counted right behind a deselect.
SelectAction ==
    /\ AtActionId /\ pos + 4 <= Lim
    /\ \E cnt \in ItemCnts : Skip(3 + cnt * 8)
    /\ IF deselect THEN UNCHANGED tally
                   ELSE \E ok \in MallocResults : CountAndLog(ok)
    /\ deselect' = FALSE
    /\ UNCHANGED <<build, clock, block, field, chat_ls, leavers>>

\* action_change_selection, mode 2.
DeselectAction ==
    /\ AtActionId /\ pos + 4 <= Lim
    /\ \E cnt \in ItemCnts : Skip(3 + cnt * 8)
    /\ \E ok \in MallocResults : CountAndLog(ok)
    /\ deselect' = TRUE
    /\ UNCHANGED <<build, clock, block, field, chat_ls, leavers>>

\* action_change_selection, any other mode: the handler has read three bytes and
\* returns BRACT_E_RANGE, 5, which process_action_field takes for a size.
BadModeAction ==
    /\ AtActionId /\ pos + 4 <= Lim
    /\ pos' = pos + 4 /\ Charge(5)
    /\ blk_bad' = blk_bad + 1 /\ fld_bad' = fld_bad + 1
    /\ UNCHANGED <<build, clock, deselect, rest_size, blk_end, flen, cur, fld_end, tally,
                   chat_ls, leavers>>

-----------------------------------------------------------------------------
(***************************************************************************)
(* Behind the parser: bract_wc3_operate evaluates the APM if it is asked.  *)
(***************************************************************************)
SkipApm ==
    /\ pc = "parsed" /\ pc' = "returned"
    /\ UNCHANGED <<build, pos, clock, deselect, block, field, len, tally, chat_ls,
                   leavers>>

MsInMinute == 60000

\* The quotient of a joiner who left at 0 ms is an infinity or a NaN, which has
\* no value as an unsigned long.
EvalApm ==
    /\ pc = "parsed"
    /\ IF \E j \in Joiners \ Observers : leave_mmt[j] = 0
       THEN pc' = "wild_apm" /\ UNCHANGED apm
       ELSE /\ pc' = "returned"
            /\ apm' = [j \in Joiners |->
                         IF j \in Observers THEN apm[j]
                         ELSE (apm[j] * MsInMinute) \div leave_mmt[j]]
    /\ UNCHANGED <<build, pos, clock, deselect, block, field, len, action_ls, oom,
                   chat_ls, leavers>>

Terminated == pc \in Ended /\ UNCHANGED vars

Blocks ==
    \/ AllocTable \/ EndOfStream \/ UnknownBlk \/ SkipBlk \/ LeaveBlk
    \/ ChatBlk \/ CutChatBlk \/ ChatBlkNoMemory

Fields ==
    \/ TimeBlk \/ CutTimeBlk \/ EndTimeBlk \/ OpenField \/ CutField \/ CloseField

Actions ==
    \/ CutActionId \/ BadActionId \/ UnusedActionId
    \/ UncountedAction \/ CountedFirstAction \/ Ability1Action \/ CountedAfterAction
    \/ StringAction \/ SubgroupAction \/ CutItemsAction \/ AssignGroupHotkeyAction
    \/ SelectAction \/ DeselectAction \/ BadModeAction

Next == Blocks \/ Fields \/ Actions \/ SkipApm \/ EvalApm \/ Terminated

Spec == Init /\ [][Next]_vars

\* One thread runs the parser and nothing it waits for can block it.
FairSpec == Spec /\ WF_vars(Next)

-----------------------------------------------------------------------------
(***************************************************************************)
(* Properties.                                                             *)
(***************************************************************************)

\* A selection record of a bad mode is charged two bytes more than it read.
Overcharge == 2

\* Where the counters of the open field and block take the cursor to be.
FldCharged == pos + Overcharge * fld_bad
BlkCharged == pos + Overcharge * blk_bad

\* Every value has the type the code declares for it, and while the parser runs
\* its cursor is inside the stream (safe_pos_fw, safe_mem_read).
TypeOK ==
    /\ pc \in Parsing \cup Ended \cup { "parsed" }
    /\ build \in Builds
    /\ pos \in Nat /\ (pc \in Parsing => pos <= Lim)
    /\ mmt \in Nat /\ paused \in BOOLEAN /\ deselect \in BOOLEAN
    /\ rest_size \in Nat /\ rest_size < UINT /\ len \in Nat /\ len < UINT
    /\ flen \in Nat /\ flen < UShort
    /\ cur \in Joiners \cup { NULL } /\ (pc = "action" => cur \in Joiners)
    /\ action_ls \in Seq([joiner : Joiners, mmt : Nat])
    /\ chat_ls \in Seq([mmt : Nat, no : Nat])
    /\ apm \in [Joiners -> Nat] /\ leave_mmt \in [Joiners -> Nat]
    /\ saver \subseteq Joiners /\ last \in Joiners \cup { NULL }
    /\ blk_end \in Nat /\ fld_end \in Nat /\ oom \in BOOLEAN
    /\ blk_bad \in Nat /\ fld_bad \in Nat

\* rest_size and len are what is left to the declared end of the block or field, or
\* that difference wrapped around once, when the contents ran over the end.  What is
\* left is measured in bytes charged, not in bytes read: the two differ behind a
\* selection record of a bad mode (save_time_blk, process_action_field).
Accounting ==
    /\ pc \in Parsing => 4 * blk_bad <= pos
    /\ pc = "field" => BlkCharged + rest_size - blk_end \in { 0, UINT }
    /\ pc = "action" =>
        /\ fld_bad <= blk_bad
        /\ FldCharged + len - fld_end \in { 0, UINT }
        /\ (fld_end - flen - 3) + Overcharge * (blk_bad - fld_bad) + rest_size - blk_end
                \in { 0, UINT }

\* A field is left with the cursor two bytes before the end its head declared for each
\* selection record of a bad mode in it, hence exactly at that end if it has none, and
\* so is a time block: contents that run over the end never get back into step,
\* whatever they declare (save_time_blk, process_action_field and their two asserts).
ClosesShort ==
    [][ /\ pc = "action" /\ pc' = "field" => pos = fld_end - Overcharge * fld_bad
        /\ pc = "field" /\ pc' = "block" => pos = blk_end - Overcharge * blk_bad ]_vars

\* When save_time_blk and process_action_field leave their loops, the field or block has
\* been read to the end that its head declared and not beyond it: what the asserts behind
\* the loops, "assert(0 == len)" and "assert(0 == rest_size)", are there for (stream.c).
ClosesAtDeclaredEnd ==
    [][ /\ pc = "action" /\ pc' = "field" => pos = fld_end
        /\ pc = "field" /\ pc' = "block" => pos = blk_end ]_vars

\* save_dyn_blk_seq succeeds only behind a leave block that ends with the stream,
\* and then that leaver, and no other, is the saver and left at the final time.
SuccessAtEnd ==
    IF pc \in { "parsed", "returned", "wild_apm" }
    THEN pos = Lim /\ last \in Joiners /\ saver = { last } /\ leave_mmt[last] = mmt
    ELSE saver = {}

Logged(joiner) == Cardinality({ i \in DOMAIN action_ls : action_ls[i].joiner = joiner })

\* The log of actions and the counters of the joiners tell the same story as long
\* as memory lasts: up to 1.12 one entry for each action counted, and later up to
\* two (the handlers of actions.c, which count and log in either order).
LogMatchesApm ==
    (~oom /\ pc # "returned") =>
        \A j \in Joiners :
            /\ Logged(j) >= apm[j]
            /\ Logged(j) <= (IF build < 6037 THEN apm[j] ELSE 2 * apm[j])

\* A list in the order of the game clock, with nothing later than now.
InOrder(ls, now) ==
    /\ \A i, j \in DOMAIN ls : i <= j => ls[i].mmt <= ls[j].mmt
    /\ \A i \in DOMAIN ls : ls[i].mmt <= now

\* Actions and messages are listed in the order of the game clock, messages are
\* numbered without a gap, and nobody leaves in the future.
Chronological ==
    /\ InOrder(action_ls, mmt) /\ InOrder(chat_ls, mmt)
    /\ \A i \in DOMAIN chat_ls : chat_ls[i].no = i - 1
    /\ \A j \in Joiners : leave_mmt[j] <= mmt

\* arr_get answers "NULL if idx is unused" (arr.c), so an action id without a
\* handler is refused and never called.
UnusedIdRefused == pc # "wild_call"

\* The APM of every player is a number (README: "actions per minute of all
\* players"; eval_apm).
ApmDefined == pc # "wild_apm"

\* How deep in the loops the parser is, and the bytes behind the cursor.
Depth == [alloc |-> 1, block |-> 0, field |-> 1, action |-> 2]

StepsLeft ==
    IF pc \in Parsing THEN (Lim - pos) + Depth[pc] + 2
    ELSE IF pc = "parsed" THEN 1 ELSE 0

\* Every turn of the three nested loops reads a byte or leaves a loop, also where a
\* counter has wrapped around, a handler reports an error code as a size, or a chat
\* block is left in the middle: the parser is done after Lim + 4 steps at the most
\* (save_dyn_blk_seq, save_time_blk, process_action_field).
LinearTime == [][StepsLeft' \in Nat /\ StepsLeft' < StepsLeft]_vars

\* Whatever the stream says, the parser comes to an end.
Termination == <>(pc \in Ended)

\* Seen from outside, the dynamic part is a sequence of blocks, each left where its
\* head says, but for two bytes per selection record of a bad mode.
BlockGrammar == INSTANCE BlockGrammar WITH
    bad <- blk_bad,
    where <- IF pc \in { "alloc", "block" } THEN "between"
             ELSE IF pc \in { "field", "action" } THEN "inside"
             ELSE IF pc \in { "error", "wild_call" } THEN "rejected"
             ELSE "accepted"

Grammar == BlockGrammar!Spec
=============================================================================
