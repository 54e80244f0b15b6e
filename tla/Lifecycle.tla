------------------------------ MODULE Lifecycle ------------------------------
(***************************************************************************)
(* A context of the library from bract_wc3_init over bract_wc3_operate to  *)
(* bract_wc3_deinit (init_deinit.c, bract.c, read.c, decode.c): which      *)
(* resources exist, which pointers say so, what is left behind by an       *)
(* operate that fails at any of its steps, and what deinit makes of it.    *)
(*                                                                         *)
(* A context is operated at most once, as bractio does it.                 *)
(*                                                                         *)
(* The contents of the file are chosen when they are read.  What the parts *)
(* of process_stream do is the subject of StaticBlocks and DynStream; here *)
(* they succeed, fail, or end the program.                                 *)
(***************************************************************************)
EXTENDS Headers, Sequences, FiniteSets

CONSTANTS
    Tasks,          \* the task words that clients pass
    FileMainHdrs, FileSubHdrs,  \* the headers that files may have
    DcdSizes,       \* decoded sizes of segments (two bytes)
    MallocResults   \* the answers of malloc, FALSE when it fails

ASSUME LifecycleAssumption ==
    /\ Tasks \subseteq Nat /\ DcdSizes \subseteq Nat
    /\ FileMainHdrs \subseteq MainHdrs /\ FileSubHdrs \subseteq SubHdrs
    /\ MallocResults \subseteq BOOLEAN

\* What a pointer of the context or of a structure in it refers to, with the
\* structure that holds this pointer.
Container ==
    [bract |-> "bract", buff |-> "bract", fp |-> "bract",
     body |-> "bract", sgmt_tbl |-> "body", strm |-> "body",
     rfnd |-> "bract", host_blk |-> "rfnd", join_scrn_blk |-> "rfnd",
     slot_tbl |-> "join_scrn_blk", prsn_tbl |-> "rfnd", joiner_tbl |-> "rfnd",
     chat_ls |-> "rfnd", action_ls |-> "rfnd"]

Held == DOMAIN Container

\* Segments and their data are held by the segment table.
Resources == Held \cup { "sgmt", "ecd_data" }

VARIABLES
    pc,         \* where the call of the library stands
    ret,        \* what operate returned
    task,       \* core.task, 0 until operate sets it
    main_hdr,
    written,    \* the fields of the sub-header that were written
    live,       \* history: how many there are of each resource
    ptr,        \* the pointers that are not NULL
    sgmts,      \* decoded sizes of the segments in the segment table
    done,       \* how many of them are decoded
    strm,       \* len, cnt and lim of the stream
    at          \* how far deinit has got

heap == <<live, ptr>>
hdrs == <<task, main_hdr, written>>
data == <<sgmts, done, strm>>
vars == <<pc, ret, task, main_hdr, written, live, ptr, sgmts, done, strm, at>>

NoHdr ==
    [magic_id |-> "other", strm_offset |-> 0, sub_hdr_ver |-> 0,
     dcd_data_size |-> 0, ecd_sgmt_cnt |-> 0]

NoStrm == [len |-> 0, cnt |-> 0, lim |-> 0]

Init ==
    /\ pc = "init" /\ ret = "none" /\ task = 0 /\ main_hdr = NoHdr /\ written = {}
    /\ live = [r \in Resources |-> 0] /\ ptr = {}
    /\ sgmts = <<>> /\ done = 0 /\ strm = NoStrm /\ at = 0

\* Ends of the program in the middle: a null pointer is written to or read, an assert
\* fails, a pointer to memory that was freed is used, or memory of somebody else.
Crashes == { "null_write", "null_read", "abort", "dangling", "wild" }

Acquire(rs) ==
    /\ live' = [r \in Resources |-> IF r \in rs THEN live[r] + 1 ELSE live[r]]
    /\ ptr' = ptr \cup rs

\* A mistake to check against: the pointer is not reset.
FreeOnly(r) == live' = [live EXCEPT ![r] = @ - 1] /\ ptr' = ptr

Release(r) == live' = [live EXCEPT ![r] = @ - 1] /\ ptr' = ptr \ { r }

\* tbl_dealloc of the segment table, with all its segments (sgmt_free_fn).
FreeSgmtTbl ==
    /\ live' = [live EXCEPT !.sgmt_tbl = @ - 1, !.sgmt = @ - Len(sgmts),
                            !.ecd_data = @ - Len(sgmts)]
    /\ ptr' = ptr \ { "sgmt_tbl" }

GoOn(to) == pc' = to /\ ret' = ret

\* Operate returns; whoever called it goes on.
Return(code) == pc' = "returned" /\ ret' = code

Malloc == TRUE \in MallocResults
NoMemory == FALSE \in MallocResults

-----------------------------------------------------------------------------
(***************************************************************************)
(* bract_wc3_init                                                          *)
(***************************************************************************)
bract_wc3_init ==
    /\ pc = "init" /\ Malloc
    /\ GoOn("ready") /\ Acquire({ "bract", "buff" })
    /\ UNCHANGED <<hdrs, data, at>>

\* No memory for the context, or none for its buffer: nothing is left, NULL is returned.
InitFails ==
    /\ pc = "init" /\ NoMemory
    /\ GoOn("no_context") /\ UNCHANGED <<hdrs, heap, data, at>>

-----------------------------------------------------------------------------
(***************************************************************************)
(* bract_wc3_operate: the file                                             *)
(***************************************************************************)

\* One operate per context.  The function does not check that: a client that calls it
\* again would have it overwrite the pointers that the first call left, and is not
\* modelled.
bract_wc3_operate(t) ==
    /\ pc = "ready"
    /\ IF check_task(t)
       THEN GoOn("open") /\ task' = t
       ELSE Return("task") /\ task' = task
    /\ UNCHANGED <<main_hdr, written, heap, data, at>>

OpenFile ==
    /\ pc = "open"
    /\ \/ GoOn("main_hdr") /\ Acquire({ "fp" })
       \/ Return("file_opening") /\ UNCHANGED heap
    /\ UNCHANGED <<hdrs, data, at>>

CutFile ==
    /\ pc \in { "main_hdr", "sub_hdr" } /\ Return("file_reading")
    /\ UNCHANGED <<hdrs, heap, data, at>>

read_rep_main_hdr ==
    /\ pc = "main_hdr"
    /\ main_hdr' \in FileMainHdrs
    /\ IF check_rep_main_hdr(main_hdr') THEN GoOn("sub_hdr") ELSE Return("range")
    /\ UNCHANGED <<task, written, heap, data, at>>

\* read_rep_sub_hdr_v0 or read_rep_sub_hdr_v1.
read_rep_sub_hdr ==
    /\ pc = "sub_hdr"
    /\ \E hdr \in FileSubHdrs :
        /\ HasVersion(hdr, main_hdr.sub_hdr_ver)
        /\ \/ ~check_rep_sub_hdr(hdr) /\ Return("range")
           \/ check_rep_sub_hdr(hdr) /\ GoOn(IF Asks(task, ADDTL) THEN "body" ELSE "apm")
    /\ written' = Written(main_hdr.sub_hdr_ver)
    /\ UNCHANGED <<task, main_hdr, heap, data, at>>

\* The result of body_alloc is not looked at.
AllocBody ==
    /\ pc = "body"
    /\ \/ Malloc /\ GoOn("sgmt_tbl") /\ Acquire({ "body" })
       \/ NoMemory /\ GoOn("null_write") /\ UNCHANGED heap
    /\ UNCHANGED <<hdrs, data, at>>

\* For no segment at all the assert of read_rep_body fails.
AllocSgmtTbl ==
    /\ pc = "sgmt_tbl"
    /\ \/ /\ Malloc /\ Acquire({ "sgmt_tbl" })
          /\ GoOn(IF main_hdr.ecd_sgmt_cnt = 0 THEN "abort" ELSE "sgmt")
       \/ NoMemory /\ Return("other") /\ UNCHANGED heap
       \/ NoMemory /\ main_hdr.ecd_sgmt_cnt > 0 /\ GoOn("dangling") /\ UNCHANGED heap
    /\ UNCHANGED <<hdrs, data, at>>

\* One turn of read_rep_body; the table has room for all.
ReadSgmt ==
    /\ pc = "sgmt" /\ Len(sgmts) < main_hdr.ecd_sgmt_cnt /\ Malloc
    /\ \E size \in DcdSizes : sgmts' = Append(sgmts, size)
    /\ live' = [live EXCEPT !.sgmt = @ + 1, !.ecd_data = @ + 1]
    /\ UNCHANGED <<pc, ret, ptr, hdrs, done, strm, at>>

\* No memory, or the header is cut, or there is no memory for the data: what there is
\* of the segment is freed.
SgmtFails ==
    /\ pc = "sgmt" /\ Len(sgmts) < main_hdr.ecd_sgmt_cnt
    /\ \/ NoMemory /\ Return("no_mem")
       \/ Malloc /\ Return("other")
    /\ UNCHANGED <<hdrs, heap, data, at>>

\* The data are cut: the segment is freed, and they are not.
SgmtBodyFails ==
    /\ pc = "sgmt" /\ Len(sgmts) < main_hdr.ecd_sgmt_cnt /\ Malloc
    /\ Return("file_reading")
    /\ live' = [live EXCEPT !.ecd_data = @ + 1]
    /\ UNCHANGED <<ptr, hdrs, data, at>>

CloseFile ==
    /\ pc = "sgmt" /\ Len(sgmts) = main_hdr.ecd_sgmt_cnt
    /\ GoOn("strm") /\ Release("fp")
    /\ UNCHANGED <<hdrs, data, at>>

-----------------------------------------------------------------------------
(***************************************************************************)
(* bract_wc3_operate: the stream                                           *)
(***************************************************************************)

\* One turn of strm_len, with the sum so far in len.
strm_len ==
    /\ pc = "strm" /\ done < Len(sgmts)
    /\ strm' = [strm EXCEPT !.len = @ + sgmts[done + 1]] /\ done' = done + 1
    /\ UNCHANGED <<pc, ret, hdrs, heap, sgmts, at>>

\* The end of strm_len, and strm_prep.
PrepStrm ==
    /\ pc = "strm" /\ done = Len(sgmts)
    /\ \/ /\ Malloc /\ GoOn("decode") /\ Acquire({ "strm" })
          /\ strm' = [strm EXCEPT !.lim = strm.len]
       \/ NoMemory /\ Return("other") /\ UNCHANGED heap /\ strm' = NoStrm
    /\ done' = 0
    /\ UNCHANGED <<hdrs, sgmts, at>>

\* A mistake to check against: the next segment is decoded to the same place.
Rewound(n) == n - n

Filled(n) == n

\* zlib fills the place of the segment and has not come to its end.
DecodeSgmt ==
    /\ pc = "decode" /\ done < Len(sgmts)
    /\ strm' = [strm EXCEPT !.cnt = Filled(@ + sgmts[done + 1])]
    /\ done' = done + 1
    /\ UNCHANGED <<pc, ret, hdrs, heap, sgmts, at>>

\* inflateInit fails, or inflate fails when the place is full; where it is not full, as
\* with most segments that are corrupt, or the zlib stream ends, an assert fails.
DecodeFails ==
    /\ pc = "decode" /\ done < Len(sgmts)
    /\ Return("other") \/ GoOn("abort")
    /\ done' = 0
    /\ UNCHANGED <<hdrs, heap, sgmts, strm, at>>

\* The segment table goes; lim is what the main header says.
Decoded ==
    /\ pc = "decode" /\ done = Len(sgmts)
    /\ GoOn("rfnd") /\ FreeSgmtTbl
    /\ sgmts' = <<>> /\ done' = 0
    /\ strm' = [strm EXCEPT !.lim = main_hdr.dcd_data_size]
    /\ UNCHANGED <<hdrs, at>>

\* rfnd_alloc; the result of host_blk_alloc in it is not looked at.
AllocRfnd ==
    /\ pc = "rfnd"
    /\ \/ Malloc /\ GoOn("prsn_tbl") /\ Acquire({ "rfnd", "host_blk" })
       \/ Malloc /\ NoMemory /\ GoOn("prsn_tbl") /\ Acquire({ "rfnd" })
       \/ NoMemory /\ Return("other") /\ UNCHANGED heap
    /\ UNCHANGED <<hdrs, data, at>>

-----------------------------------------------------------------------------
(***************************************************************************)
(* process_stream.  Every part that reads may find the stream cut or       *)
(* wrong; every table whose array is refused is a dangling pointer.        *)
(***************************************************************************)
Parsing == { "prsn_tbl", "join_scrn_blk", "static", "joiner_tbl", "joiners",
             "chat_ls", "action_ls", "dynamic" }

AllocPrsnTbl ==
    /\ pc = "prsn_tbl"
    /\ \/ Malloc /\ GoOn("join_scrn_blk") /\ Acquire({ "prsn_tbl" })
       \/ NoMemory /\ GoOn("dangling") /\ UNCHANGED heap
       \/ Return("other") /\ UNCHANGED heap
    /\ UNCHANGED <<hdrs, data, at>>

\* A block without its table stays where it is; an empty table has no array.
join_scrn_blk_alloc ==
    /\ pc = "join_scrn_blk"
    /\ \/ Malloc /\ GoOn("static") /\ Acquire({ "join_scrn_blk", "slot_tbl" })
       \/ Malloc /\ NoMemory /\ Return("other") /\ Acquire({ "join_scrn_blk" })
       \/ NoMemory /\ Return("other") /\ UNCHANGED heap
    /\ UNCHANGED <<hdrs, data, at>>

\* Nothing can be stored of a host without a host block.  The options may be read behind
\* a decoded string that is too short for them.
HostFits == "host_blk" \in ptr

save_static_blk_seq ==
    /\ pc = "static"
    /\ \/ HostFits /\ (GoOn("joiner_tbl") \/ GoOn("wild"))
       \/ ~HostFits /\ GoOn("null_write")
       \/ Return("other")
    /\ UNCHANGED <<hdrs, heap, data, at>>

AllocJoinerTbl ==
    /\ pc = "joiner_tbl"
    /\ \/ Malloc /\ GoOn("joiners") /\ Acquire({ "joiner_tbl" })
       \/ NoMemory /\ Return("other") /\ UNCHANGED heap
       \/ NoMemory /\ GoOn("dangling") /\ UNCHANGED heap
    /\ UNCHANGED <<hdrs, data, at>>

\* form_joiner_tbl and tbl_sort, which may read before the table.
FormJoiners ==
    /\ pc = "joiners"
    /\ GoOn("chat_ls") \/ Return("other") \/ GoOn("wild")
    /\ UNCHANGED <<hdrs, heap, data, at>>

AllocList(ls, next) ==
    /\ pc = ls
    /\ \/ Malloc /\ GoOn(next) /\ Acquire({ ls })
       \/ NoMemory /\ Return("other") /\ UNCHANGED heap
    /\ UNCHANGED <<hdrs, data, at>>

\* A handler that is not there may be called.  At the end the stream is freed.
save_dyn_blk_seq ==
    /\ pc = "dynamic"
    /\ \/ GoOn("apm") /\ Release("strm") /\ strm' = NoStrm
       \/ (Return("other") \/ GoOn("wild")) /\ UNCHANGED <<heap, strm>>
    /\ UNCHANGED <<hdrs, sgmts, done, at>>

\* Where the header promised more than there is, a read may go behind the memory.
ReadBehindStrm ==
    /\ pc \in { "prsn_tbl", "static", "dynamic" } /\ strm.lim > strm.len
    /\ GoOn("wild")
    /\ UNCHANGED <<hdrs, heap, data, at>>

\* The last step of operate: eval_apm, which may divide by 0, or nothing.
Finish ==
    /\ pc = "apm"
    /\ \/ Asks(task, APM) /\ "joiner_tbl" \notin ptr /\ GoOn("null_read")
       \/ Asks(task, APM) /\ "joiner_tbl" \in ptr /\ (Return("ok") \/ GoOn("wild"))
       \/ ~Asks(task, APM) /\ Return("ok")
    /\ UNCHANGED <<hdrs, heap, data, at>>

-----------------------------------------------------------------------------
(***************************************************************************)
(* The answers, and bract_wc3_deinit                                       *)
(***************************************************************************)
Questions == { "rlsver", "patchver", "build", "replen", "mappath", "mapposcnt",
               "joiners", "msgs" }

\* The task that the getter asserts to have been asked for.
TaskOf(q) == IF q \in { "rlsver", "patchver", "build", "replen" } THEN BASIC ELSE ADDTL

\* The getter reads a field of the sub-header, or follows pointers.
Needs ==
    [q \in Questions |->
        CASE q = "mappath"   -> { "rfnd", "host_blk" }
          [] q = "mapposcnt" -> { "rfnd", "join_scrn_blk" }
          [] q = "joiners"   -> { "rfnd", "joiner_tbl" }
          [] q = "msgs"      -> { "rfnd", "chat_ls" }
          [] OTHER           -> {}]

FieldOf == [rlsver |-> "rls", patchver |-> "patch_ver", build |-> "build",
            replen |-> "rep_len_ms"]

Ready(q) ==
    /\ Needs[q] \subseteq ptr
    /\ q \in DOMAIN FieldOf => FieldOf[q] \in written

\* A client may ask when operate succeeded, for what its task covers.
MayAsk(q) == pc = "returned" /\ ret = "ok" /\ Asks(task, TaskOf(q))

bract_wc3_deinit ==
    /\ pc \in { "ready", "returned" } /\ GoOn("deinit") /\ at' = 1
    /\ UNCHANGED <<hdrs, heap, data>>

\* deinit reads a field of the context before it tests the pointer to it.
DeinitNull == pc = "no_context" /\ GoOn("null_read") /\ UNCHANGED <<hdrs, heap, data, at>>

\* A mistake to check against: the body goes before what it holds.
BodyFirst ==
    <<"fp", "buff", "body", "sgmt_tbl", "strm", "host_blk", "slot_tbl", "join_scrn_blk",
      "prsn_tbl", "joiner_tbl", "chat_ls", "action_ls", "rfnd", "bract">>

\* A mistake to check against: nothing is known of the buffer.
WithoutBuff ==
    <<"fp", "sgmt_tbl", "strm", "body", "host_blk", "slot_tbl", "join_scrn_blk",
      "prsn_tbl", "joiner_tbl", "chat_ls", "action_ls", "rfnd", "bract">>

DeinitOrder ==
    <<"fp", "buff", "sgmt_tbl", "strm", "body", "host_blk", "slot_tbl", "join_scrn_blk",
      "prsn_tbl", "joiner_tbl", "chat_ls", "action_ls", "rfnd", "bract">>

\* A mistake to check against: the same pointer again.
Again(n) == n

Following(n) == n + 1

\* The next pointer is looked at, and what it refers to is freed.
FreeNext ==
    /\ pc = "deinit" /\ at <= Len(DeinitOrder)
    /\ LET r == DeinitOrder[at]
       IN  \/ r \notin ptr /\ UNCHANGED <<heap, sgmts>>
           \/ r \in ptr \ { "sgmt_tbl" } /\ Release(r) /\ UNCHANGED sgmts
           \/ r \in ptr \cap { "sgmt_tbl" } /\ FreeSgmtTbl /\ sgmts' = <<>>
    /\ at' = Following(at)
    /\ UNCHANGED <<pc, ret, hdrs, done, strm>>

Gone ==
    /\ pc = "deinit" /\ at > Len(DeinitOrder)
    /\ GoOn("gone") /\ UNCHANGED <<hdrs, heap, data, at>>

-----------------------------------------------------------------------------
Operating ==
    \/ OpenFile \/ CutFile \/ read_rep_main_hdr \/ read_rep_sub_hdr
    \/ AllocBody \/ AllocSgmtTbl \/ ReadSgmt \/ SgmtFails \/ SgmtBodyFails \/ CloseFile
    \/ strm_len \/ PrepStrm \/ DecodeSgmt \/ DecodeFails \/ Decoded \/ AllocRfnd
    \/ AllocPrsnTbl \/ join_scrn_blk_alloc \/ save_static_blk_seq \/ AllocJoinerTbl
    \/ FormJoiners \/ AllocList("chat_ls", "action_ls") \/ AllocList("action_ls", "dynamic")
    \/ save_dyn_blk_seq \/ ReadBehindStrm \/ Finish

\* What the library does by itself once it is called.
Running == bract_wc3_init \/ InitFails \/ Operating \/ FreeNext \/ Gone

Next ==
    \/ Running
    \/ \E t \in Tasks : bract_wc3_operate(t)
    \/ bract_wc3_deinit \/ DeinitNull

Spec == Init /\ [][Next]_vars

-----------------------------------------------------------------------------
(***************************************************************************)
(* Properties.                                                             *)
(***************************************************************************)
Steps == { "init", "no_context", "ready", "open", "main_hdr", "sub_hdr", "body",
           "sgmt_tbl", "sgmt", "strm", "decode", "rfnd", "apm", "returned", "deinit",
           "gone" } \cup Parsing \cup Crashes

Codes == { "none", "ok", "task", "file_opening", "file_reading", "range", "no_mem", "other" }

\* Every variable has its type; in particular nothing is freed that is not there.
TypeOK ==
    /\ pc \in Steps /\ ret \in Codes
    /\ task \in { 0, 1, 3, 7 } /\ main_hdr \in MainHdrs /\ written \subseteq Written(1)
    /\ live \in [Resources -> Nat] /\ ptr \subseteq Held
    /\ sgmts \in Seq(DcdSizes) /\ done \in 0..Len(sgmts)
    /\ strm \in [len : Nat, cnt : Nat, lim : Nat]
    /\ at \in 0..(Len(DeinitOrder) + 1)

\* The data of a segment that was cut, which nobody frees.
Lost == IF live["ecd_data"] > live["sgmt"] THEN 1 ELSE 0

\* At every step, after every failure and while deinit is under way a pointer is set
\* exactly if there is something to free behind it, the structure that holds the
\* pointer is still there, and the table has the segments with their data.
PointersMatch ==
    /\ \A r \in Held : live[r] = IF r \in ptr THEN 1 ELSE 0
    /\ \A r \in ptr : Container[r] \in ptr
    /\ live["sgmt"] = Len(sgmts)
    /\ live["ecd_data"] = live["sgmt"] + Lost
    /\ sgmts # <<>> => "sgmt_tbl" \in ptr

\* deinit leaves nothing behind, but for the data of one segment if that was cut
\* ("Close the file, free all resources", bract_wc3_deinit).
AllFreed ==
    pc = "gone" =>
        /\ \A r \in Resources \ { "ecd_data" } : live[r] = 0
        /\ live["ecd_data"] <= 1
        /\ live["ecd_data"] = 1 => ret = "file_reading" /\ Asks(task, ADDTL)

\* Whatever a client may ask after an operate that succeeded is there: the fields were
\* written and every pointer on the way is set (bract_wc3_get...).
AnswersReady == \A q \in Questions : MayAsk(q) => Ready(q)

\* The APM are evaluated of a table that is there, which rests on check_task.
ApmHasJoiners == pc = "apm" /\ Asks(task, APM) => "joiner_tbl" \in ptr

\* All that process_stream may read was written by the decoder, unless the header
\* promised more than its segments hold; lim is set without a look at that.
LimDecoded ==
    pc \in Parsing /\ main_hdr.dcd_data_size <= strm.len => strm.lim <= strm.cnt

\* How far a context has come.
Stage ==
    [init |-> 0, no_context |-> 1, ready |-> 1, open |-> 2, main_hdr |-> 3, sub_hdr |-> 4,
     body |-> 5, sgmt_tbl |-> 6, sgmt |-> 7, strm |-> 8, decode |-> 9, rfnd |-> 10,
     prsn_tbl |-> 11, join_scrn_blk |-> 12, static |-> 13, joiner_tbl |-> 14,
     joiners |-> 15, chat_ls |-> 16, action_ls |-> 17, dynamic |-> 18, apm |-> 19,
     returned |-> 20, deinit |-> 21, gone |-> 22, null_write |-> 22, null_read |-> 22,
     abort |-> 22, dangling |-> 22, wild |-> 22]

\* What the loops of read_rep_body, strm_len, decode_sgmts and deinit have before them.
TurnsLeft ==
    CASE pc = "sgmt"                -> main_hdr.ecd_sgmt_cnt - Len(sgmts)
      [] pc \in { "strm", "decode" } -> Len(sgmts) - done
      [] pc = "deinit"              -> Len(DeinitOrder) + 1 - at
      [] OTHER                      -> 0

\* A context never comes back to where it was, by whatever way it failed: each step leads
\* to a later stage, or is a turn of a loop that has one turn less to go.
Advances ==
    [][ \/ Stage[pc'] > Stage[pc]
        \/ pc' = pc /\ TurnsLeft' \in Nat /\ TurnsLeft' < TurnsLeft ]_vars

\* What bract.h says of the fields of a main header.
AsDocumented(hdr) ==
    /\ hdr.magic_id = "right"
    /\ hdr.sub_hdr_ver \in { 0, 1 }
    /\ OffsetByVersion(hdr.sub_hdr_ver, hdr.strm_offset)

\* A main header as bract.h describes it is not out of range (range_strm_offset).
OldHeaderAccepted == ret = "range" /\ written = {} => ~AsDocumented(main_hdr)
=============================================================================
