-------------------------- MODULE LifecycleProofs --------------------------
(***************************************************************************)
(* Proofs about Lifecycle for all tasks, headers, sizes of segments and    *)
(* answers of malloc: pointers and memory match at every step, deinit      *)
(* frees what an operate left behind that failed anywhere, and what a      *)
(* client may ask after a success is there.                                *)
(*                                                                         *)
(* The inductive invariant names the pointers that are set at each step of *)
(* operate (PtrAt) and what operate knows there of its task and of the     *)
(* headers (Known); deinit rests on the order in which it frees.           *)
(***************************************************************************)
EXTENDS Lifecycle, SequenceTheorems, TLAPS

\* The heap: PointersMatch with the types it rests on.
Heap ==
    /\ live \in [Resources -> Nat] /\ ptr \subseteq Held
    /\ sgmts \in Seq(DcdSizes)
    /\ \A r \in Held : live[r] = IF r \in ptr THEN 1 ELSE 0
    /\ \A r \in ptr : Container[r] \in ptr
    /\ live["sgmt"] = Len(sgmts)
    /\ live["ecd_data"] \in { live["sgmt"], live["sgmt"] + 1 }
    /\ sgmts # <<>> => "sgmt_tbl" \in ptr

\* Data that no segment holds.
Loss == live["ecd_data"] - live["sgmt"]

Core   == { "bract", "buff" }
Raw    == Core \cup { "body", "sgmt_tbl" }
Refine == Core \cup { "body", "strm", "rfnd", "prsn_tbl", "join_scrn_blk", "slot_tbl" }

\* What parsing makes, host_blk included, when it succeeds.
Parsed == { "rfnd", "host_blk", "join_scrn_blk", "joiner_tbl", "chat_ls" }

\* The pointers that are set at each step of operate.  The host block may be missing
\* until the static part of the stream is read.
PtrAt ==
    /\ pc \in { "init", "no_context", "gone" } => ptr = {}
    /\ pc \in { "ready", "open" } => ptr = Core
    /\ pc \in { "main_hdr", "sub_hdr", "body" } => ptr = Core \cup { "fp" }
    /\ pc = "sgmt_tbl" => ptr = Core \cup { "fp", "body" }
    /\ pc = "sgmt" => ptr = Raw \cup { "fp" }
    /\ pc = "strm" => ptr = Raw
    /\ pc = "decode" => ptr = Raw \cup { "strm" }
    /\ pc = "rfnd" => ptr = Core \cup { "body", "strm" }
    /\ pc = "prsn_tbl" => ptr \ { "host_blk" } = Core \cup { "body", "strm", "rfnd" }
    /\ pc = "join_scrn_blk" =>
        ptr \ { "host_blk" } = Core \cup { "body", "strm", "rfnd", "prsn_tbl" }
    /\ pc = "static" => ptr \ { "host_blk" } = Refine
    /\ pc = "joiner_tbl" => ptr = Refine \cup { "host_blk" }
    /\ pc \in { "joiners", "chat_ls" } => ptr = Refine \cup { "host_blk", "joiner_tbl" }
    /\ pc = "action_ls" => ptr = Refine \cup { "host_blk", "joiner_tbl", "chat_ls" }
    /\ pc = "dynamic" =>
        ptr = Refine \cup { "host_blk", "joiner_tbl", "chat_ls", "action_ls" }
    /\ pc = "apm" /\ Asks(task, ADDTL) => Parsed \subseteq ptr

InBody == { "body", "sgmt_tbl", "sgmt", "strm", "decode", "rfnd" } \cup Parsing

\* Steps of operate.
InOperate == { "open", "main_hdr", "sub_hdr", "apm" } \cup InBody

\* What operate knows of its task and of the headers it read.
Known ==
    /\ pc \in InOperate \cup { "init", "no_context", "ready" } => ret = "none"
    /\ pc \in InOperate => task \in Masks
    /\ pc \in InBody => Asks(task, ADDTL)
    /\ pc = "sub_hdr" => main_hdr.sub_hdr_ver = 1
    /\ pc \in InBody \cup { "apm" } => written = Written(1)

\* What a client finds when operate succeeded.
Answered ==
    pc = "returned" /\ ret = "ok" =>
        written = Written(1) /\ (Asks(task, ADDTL) => Parsed \subseteq ptr)

\* Data of a segment are lost only when operate ends by that.
LostAt == Loss # 0 => ret = "file_reading" /\ Asks(task, ADDTL)

\* deinit has done with all pointers before the one it comes to.
DeinitAt ==
    pc = "deinit" => at >= 1 /\ \A i \in 1..(at - 1) : DeinitOrder[i] \notin ptr

\* No turn of strm_len or decode_sgmts is under way elsewhere.
DoneAt ==
    /\ pc \notin { "strm", "decode" } => done = 0
    /\ done \in 0..Len(sgmts)

Inv == TypeOK /\ Heap /\ PtrAt /\ Known /\ Answered /\ LostAt /\ DeinitAt /\ DoneAt

-----------------------------------------------------------------------------
(***************************************************************************)
(* The structure of a context.                                             *)
(***************************************************************************)

LEMMA HeldIs ==
    Held = { "bract", "buff", "fp", "body", "sgmt_tbl", "strm", "rfnd", "host_blk",
             "join_scrn_blk", "slot_tbl", "prsn_tbl", "joiner_tbl", "chat_ls",
             "action_ls" }
  BY DEF Held, Container

LEMMA ContainerIs ==
    /\ \A r \in { "bract", "buff", "fp", "body", "rfnd" } : Container[r] = "bract"
    /\ \A r \in { "sgmt_tbl", "strm" } : Container[r] = "body"
    /\ \A r \in { "host_blk", "join_scrn_blk", "prsn_tbl", "joiner_tbl", "chat_ls",
                  "action_ls" } : Container[r] = "rfnd"
    /\ Container["slot_tbl"] = "join_scrn_blk"
  BY DEF Container

LEMMA ResourcesAre ==
    /\ Held \subseteq Resources /\ "sgmt" \in Resources /\ "ecd_data" \in Resources
    /\ "sgmt" \notin Held /\ "ecd_data" \notin Held
  BY HeldIs DEF Resources

LEMMA OrderIs ==
    /\ Len(DeinitOrder) = 14
    /\ \A i \in 1..14 : DeinitOrder[i] \in Held
    /\ \A r \in Held : \E i \in 1..14 : DeinitOrder[i] = r
<1>1. Len(DeinitOrder) = 14
  BY DEF DeinitOrder
<1>2. /\ DeinitOrder[1] = "fp" /\ DeinitOrder[2] = "buff" /\ DeinitOrder[3] = "sgmt_tbl"
      /\ DeinitOrder[4] = "strm" /\ DeinitOrder[5] = "body" /\ DeinitOrder[6] = "host_blk"
      /\ DeinitOrder[7] = "slot_tbl" /\ DeinitOrder[8] = "join_scrn_blk"
      /\ DeinitOrder[9] = "prsn_tbl" /\ DeinitOrder[10] = "joiner_tbl"
      /\ DeinitOrder[11] = "chat_ls" /\ DeinitOrder[12] = "action_ls"
      /\ DeinitOrder[13] = "rfnd" /\ DeinitOrder[14] = "bract"
  BY DEF DeinitOrder
<1>3. \A i \in 1..14 : i \in { 1, 2, 3, 4, 5, 6, 7, 8, 9, 10, 11, 12, 13, 14 }
  OBVIOUS
<1> QED
  BY <1>1, <1>2, <1>3, HeldIs

\* deinit comes to what a structure holds before it comes to the structure.
LEMMA ContentsFirst ==
    ASSUME NEW i \in 1..14, NEW r \in Held, Container[r] = DeinitOrder[i],
           r # DeinitOrder[i]
    PROVE  \E k \in 1..(i - 1) : DeinitOrder[k] = r
<1>2. /\ DeinitOrder[1] = "fp" /\ DeinitOrder[2] = "buff" /\ DeinitOrder[3] = "sgmt_tbl"
      /\ DeinitOrder[4] = "strm" /\ DeinitOrder[5] = "body" /\ DeinitOrder[6] = "host_blk"
      /\ DeinitOrder[7] = "slot_tbl" /\ DeinitOrder[8] = "join_scrn_blk"
      /\ DeinitOrder[9] = "prsn_tbl" /\ DeinitOrder[10] = "joiner_tbl"
      /\ DeinitOrder[11] = "chat_ls" /\ DeinitOrder[12] = "action_ls"
      /\ DeinitOrder[13] = "rfnd" /\ DeinitOrder[14] = "bract"
  BY DEF DeinitOrder
<1>1. i \in { 1, 2, 3, 4, 5, 6, 7, 8, 9, 10, 11, 12, 13, 14 }
  OBVIOUS
<1>3. DeinitOrder[i] \in { "bract", "body", "rfnd", "join_scrn_blk" }
  BY HeldIs, ContainerIs
<1>4. i \in { 5, 8, 13, 14 }
  BY <1>1, <1>2, <1>3
<1>5. CASE i = 5
  <2>1. r \in { "sgmt_tbl", "strm" }
    BY <1>2, <1>5, HeldIs, ContainerIs
  <2> QED
    BY <1>2, <1>5, <2>1
<1>6. CASE i = 8
  <2>1. r = "slot_tbl"
    BY <1>2, <1>6, HeldIs, ContainerIs
  <2> QED
    BY <1>2, <1>6, <2>1
<1>7. CASE i = 13
  <2>1. r \in { "host_blk", "join_scrn_blk", "prsn_tbl", "joiner_tbl", "chat_ls",
                "action_ls" }
    BY <1>2, <1>7, HeldIs, ContainerIs
  <2> QED
    BY <1>2, <1>7, <2>1
<1>8. CASE i = 14
  <2>1. r \in { "buff", "fp", "body", "rfnd" }
    BY <1>2, <1>8, HeldIs, ContainerIs
  <2> QED
    BY <1>2, <1>8, <2>1
<1> QED
  BY <1>4, <1>5, <1>6, <1>7, <1>8

-----------------------------------------------------------------------------
(***************************************************************************)
(* What the operations on the heap keep.                                   *)
(***************************************************************************)

LEMMA HeapSame == Heap /\ UNCHANGED <<live, ptr, sgmts>> => Heap' /\ Loss' = Loss
  BY DEF Heap, Loss

LEMMA AcquireKeeps ==
    ASSUME Heap, NEW rs \in SUBSET Held, Acquire(rs), sgmts' = sgmts,
           rs \cap ptr = {}, \A r \in rs : Container[r] \in ptr \cup rs
    PROVE  Heap' /\ Loss' = Loss
<1>1. /\ live \in [Resources -> Nat] /\ ptr' = ptr \cup rs
      /\ live' = [r \in Resources |-> IF r \in rs THEN live[r] + 1 ELSE live[r]]
  BY DEF Heap, Acquire
<1>2. \A r \in Resources : live'[r] = IF r \in rs THEN live[r] + 1 ELSE live[r]
  BY <1>1
<1>3. live' \in [Resources -> Nat]
  BY <1>1
<1>4. \A r \in Held : live'[r] = IF r \in ptr' THEN 1 ELSE 0
  BY <1>1, <1>2, ResourcesAre DEF Heap
<1>5. live'["sgmt"] = live["sgmt"] /\ live'["ecd_data"] = live["ecd_data"]
  BY <1>2, ResourcesAre
<1>6. ptr' \subseteq Held /\ (\A r \in ptr' : Container[r] \in ptr')
  BY <1>1 DEF Heap
<1> QED
  BY <1>1, <1>3, <1>4, <1>5, <1>6 DEF Heap, Loss

LEMMA ReleaseKeeps ==
    ASSUME Heap, NEW r \in ptr, r # "sgmt_tbl", Release(r), sgmts' = sgmts,
           \A x \in ptr \ { r } : Container[x] # r
    PROVE  Heap' /\ Loss' = Loss
<1>1. /\ live \in [Resources -> Nat] /\ ptr' = ptr \ { r } /\ r \in Held
      /\ live' = [live EXCEPT ![r] = @ - 1]
  BY DEF Heap, Release
<1>2. r \in Resources /\ live[r] = 1
  BY <1>1, ResourcesAre DEF Heap
<1>3. live'[r] = 0 /\ \A x \in Resources \ { r } : live'[x] = live[x]
  BY <1>1, <1>2
<1>4. live' \in [Resources -> Nat]
  BY <1>1, <1>2
<1>5. \A x \in Held : live'[x] = IF x \in ptr' THEN 1 ELSE 0
  BY <1>1, <1>3, ResourcesAre DEF Heap
<1>6. live'["sgmt"] = live["sgmt"] /\ live'["ecd_data"] = live["ecd_data"]
  BY <1>1, <1>3, ResourcesAre
<1>7. ptr' \subseteq Held /\ (\A x \in ptr' : Container[x] \in ptr')
  BY <1>1 DEF Heap
<1>8. sgmts' # <<>> => "sgmt_tbl" \in ptr'
  BY <1>1 DEF Heap
<1> QED
  BY <1>4, <1>5, <1>6, <1>7, <1>8 DEF Heap, Loss

\* The counts that lose something when a table of n segments goes.
LEMMA TakenFromThree ==
    ASSUME NEW f \in [Resources -> Nat], NEW n, NEW g, "sgmt_tbl" \in Resources,
           g = [f EXCEPT !.sgmt_tbl = @ - 1, !.sgmt = @ - n, !.ecd_data = @ - n]
    PROVE  /\ g["sgmt_tbl"] = f["sgmt_tbl"] - 1
           /\ g["sgmt"] = f["sgmt"] - n /\ g["ecd_data"] = f["ecd_data"] - n
           /\ \A x \in Resources \ { "sgmt_tbl", "sgmt", "ecd_data" } : g[x] = f[x]
           /\ g = [x \in Resources |-> g[x]]
<1>1. "sgmt" \in Resources /\ "ecd_data" \in Resources
  BY ResourcesAre
<1> QED
  BY <1>1

LEMMA FreeSgmtTblKeeps ==
    ASSUME Heap, "sgmt_tbl" \in ptr, FreeSgmtTbl, sgmts' = <<>>
    PROVE  Heap' /\ Loss' = Loss
<1>1. /\ live \in [Resources -> Nat] /\ ptr' = ptr \ { "sgmt_tbl" }
      /\ live' = [live EXCEPT !.sgmt_tbl = @ - 1, !.sgmt = @ - Len(sgmts),
                              !.ecd_data = @ - Len(sgmts)]
  BY DEF Heap, FreeSgmtTbl
<1>2. "sgmt_tbl" \in Held /\ live["sgmt_tbl"] = 1
  BY DEF Heap
<1>3. /\ "sgmt_tbl" \in Resources /\ "sgmt" \in Resources /\ "ecd_data" \in Resources
      /\ "sgmt_tbl" # "sgmt" /\ "sgmt_tbl" # "ecd_data"
  BY <1>2, ResourcesAre
<1>4. /\ live'["sgmt_tbl"] = 0 /\ live'["sgmt"] = live["sgmt"] - Len(sgmts)
      /\ live'["ecd_data"] = live["ecd_data"] - Len(sgmts)
      /\ \A x \in Resources \ { "sgmt_tbl", "sgmt", "ecd_data" } : live'[x] = live[x]
      /\ live' = [x \in Resources |-> live'[x]]
  <2>1. PICK g : g = live'
    OBVIOUS
  <2>2. PICK n : n = Len(sgmts)
    OBVIOUS
  <2>3. g = [live EXCEPT !.sgmt_tbl = @ - 1, !.sgmt = @ - n, !.ecd_data = @ - n]
    BY <1>1, <2>1, <2>2
  <2>4. /\ g["sgmt_tbl"] = live["sgmt_tbl"] - 1
        /\ g["sgmt"] = live["sgmt"] - n /\ g["ecd_data"] = live["ecd_data"] - n
        /\ \A x \in Resources \ { "sgmt_tbl", "sgmt", "ecd_data" } : g[x] = live[x]
        /\ g = [x \in Resources |-> g[x]]
    BY <1>1, <1>3, <2>3, TakenFromThree
  <2> QED
    BY <1>2, <2>1, <2>2, <2>4
<1>5. Len(sgmts) \in Nat /\ live["sgmt"] = Len(sgmts) /\ live["sgmt"] \in Nat
      /\ live["ecd_data"] \in { live["sgmt"], live["sgmt"] + 1 }
  BY <1>1, <1>3 DEF Heap
<1>6. live'["sgmt"] = 0 /\ live'["ecd_data"] \in { 0, 1 }
      /\ (live["ecd_data"] - live["sgmt"] = live'["ecd_data"] - live'["sgmt"])
  BY <1>4, <1>5
<1>7. live' \in [Resources -> Nat]
  <2>1. \A x \in Resources \ { "sgmt_tbl", "sgmt", "ecd_data" } : live'[x] \in Nat
    BY <1>1, <1>4
  <2>2. \A x \in Resources : live'[x] \in Nat
    BY <1>4, <1>6, <2>1
  <2> QED
    BY <1>4, <2>2
<1>8. \A x \in Held : live'[x] = IF x \in ptr' THEN 1 ELSE 0
  BY <1>1, <1>4, ResourcesAre DEF Heap
<1>9. \A x \in ptr' : Container[x] \in ptr'
  <2>1. \A x \in Held : Container[x] # "sgmt_tbl"
    BY HeldIs, ContainerIs
  <2> QED
    BY <1>1, <2>1 DEF Heap
<1>10. sgmts' \in Seq(DcdSizes) /\ Len(sgmts') = 0
  OBVIOUS
<1>11. /\ ptr' \subseteq Held /\ live'["sgmt"] = Len(sgmts')
       /\ live'["ecd_data"] \in { live'["sgmt"], live'["sgmt"] + 1 }
  BY <1>1, <1>6, <1>10 DEF Heap
<1>12. Heap'
  BY <1>7, <1>8, <1>9, <1>10, <1>11 DEF Heap
<1> QED
  BY <1>6, <1>12 DEF Loss
-----------------------------------------------------------------------------
(***************************************************************************)
(* Pointers and memory, action by action.                                  *)
(***************************************************************************)

\* Steps that neither allocate nor free.
KeepsHeap ==
    \/ InitFails \/ (\E t \in Tasks : bract_wc3_operate(t)) \/ CutFile
    \/ read_rep_main_hdr \/ read_rep_sub_hdr \/ SgmtFails \/ strm_len \/ DecodeSgmt
    \/ DecodeFails \/ save_static_blk_seq \/ FormJoiners \/ ReadBehindStrm \/ Finish
    \/ bract_wc3_deinit \/ DeinitNull \/ Gone

LEMMA KeepsHeapKeeps == KeepsHeap => UNCHANGED <<live, ptr, sgmts>>
<1> SUFFICES ASSUME KeepsHeap PROVE UNCHANGED <<live, ptr, sgmts>>
  OBVIOUS
<1>1. CASE InitFails
  BY <1>1 DEF InitFails, heap, data
<1>2. CASE \E t \in Tasks : bract_wc3_operate(t)
  BY <1>2 DEF bract_wc3_operate, heap, data
<1>3. CASE CutFile
  BY <1>3 DEF CutFile, heap, data
<1>4. CASE read_rep_main_hdr
  BY <1>4 DEF read_rep_main_hdr, heap, data
<1>5. CASE read_rep_sub_hdr
  BY <1>5 DEF read_rep_sub_hdr, heap, data
<1>6. CASE SgmtFails
  BY <1>6 DEF SgmtFails, heap, data
<1>7. CASE strm_len
  BY <1>7 DEF strm_len, heap, data
<1>8. CASE DecodeSgmt
  BY <1>8 DEF DecodeSgmt, heap, data
<1>9. CASE DecodeFails
  BY <1>9 DEF DecodeFails, heap, data
<1>10. CASE save_static_blk_seq
  BY <1>10 DEF save_static_blk_seq, heap, data
<1>11. CASE FormJoiners
  BY <1>11 DEF FormJoiners, heap, data
<1>12. CASE ReadBehindStrm
  BY <1>12 DEF ReadBehindStrm, heap, data
<1>13. CASE Finish
  BY <1>13 DEF Finish, heap, data
<1>14. CASE bract_wc3_deinit
  BY <1>14 DEF bract_wc3_deinit, heap, data
<1>15. CASE DeinitNull
  BY <1>15 DEF DeinitNull, heap, data
<1>16. CASE Gone
  BY <1>16 DEF Gone, heap, data
<1> QED
  BY <1>1, <1>2, <1>3, <1>4, <1>5, <1>6, <1>7, <1>8, <1>9, <1>10, <1>11, <1>12, <1>13,
     <1>14, <1>15, <1>16 DEF KeepsHeap

\* Where a step without the heap leads to.
LEMMA KeepsHeapPtr == Inv /\ KeepsHeap => PtrAt'
<1> SUFFICES ASSUME Inv, KeepsHeap PROVE PtrAt'
  OBVIOUS
<1>0. ptr' = ptr /\ PtrAt
  BY KeepsHeapKeeps DEF Inv
<1>1. CASE InitFails
  <2>1. pc \in { "init" } /\ pc' \in { "no_context" }
    BY <1>1 DEF InitFails, GoOn, Return
  <2> QED
    BY <1>0, <2>1 DEF PtrAt
<1>2. CASE \E t \in Tasks : bract_wc3_operate(t)
  <2>1. pc \in { "ready" } /\ pc' \in { "open", "returned" }
    BY <1>2 DEF bract_wc3_operate, GoOn, Return
  <2> QED
    BY <1>0, <2>1 DEF PtrAt
<1>3. CASE CutFile
  <2>1. pc \in { "main_hdr", "sub_hdr" } /\ pc' \in { "returned" }
    BY <1>3 DEF CutFile, GoOn, Return
  <2> QED
    BY <1>0, <2>1 DEF PtrAt
<1>4. CASE read_rep_main_hdr
  <2>1. pc \in { "main_hdr" } /\ pc' \in { "sub_hdr", "returned" }
    BY <1>4 DEF read_rep_main_hdr, GoOn, Return
  <2> QED
    BY <1>0, <2>1 DEF PtrAt
<1>5. CASE read_rep_sub_hdr
  <2>1. /\ pc = "sub_hdr" /\ pc' \in { "body", "apm", "returned" } /\ task' = task
        /\ pc' = "apm" => ~Asks(task, ADDTL)
    BY <1>5 DEF read_rep_sub_hdr, GoOn, Return
  <2>2. Asks(task, ADDTL)' = Asks(task, ADDTL)
    BY <2>1 DEF Asks, ADDTL
  <2> QED
    BY <1>0, <2>1, <2>2 DEF PtrAt
<1>6. CASE SgmtFails
  <2>1. pc \in { "sgmt" } /\ pc' \in { "returned" }
    BY <1>6 DEF SgmtFails, GoOn, Return
  <2> QED
    BY <1>0, <2>1 DEF PtrAt
<1>7. CASE strm_len
  <2>1. pc \in { "strm" } /\ pc' \in { "strm" }
    BY <1>7 DEF strm_len, GoOn, Return
  <2> QED
    BY <1>0, <2>1 DEF PtrAt
<1>8. CASE DecodeSgmt
  <2>1. pc \in { "decode" } /\ pc' \in { "decode" }
    BY <1>8 DEF DecodeSgmt, GoOn, Return
  <2> QED
    BY <1>0, <2>1 DEF PtrAt
<1>9. CASE DecodeFails
  <2>1. pc \in { "decode" } /\ pc' \in { "returned", "abort" }
    BY <1>9 DEF DecodeFails, GoOn, Return
  <2> QED
    BY <1>0, <2>1 DEF PtrAt
<1>10. CASE save_static_blk_seq
  <2>1. /\ pc = "static" /\ pc' \in { "joiner_tbl", "null_write", "returned", "wild" }
        /\ pc' = "joiner_tbl" => "host_blk" \in ptr
    BY <1>10 DEF save_static_blk_seq, HostFits, GoOn, Return
  <2>2. ptr \ { "host_blk" } = Refine
    BY <1>0, <2>1 DEF PtrAt
  <2>3. "host_blk" \in ptr => ptr = Refine \cup { "host_blk" }
    BY <2>2
  <2> QED
    BY <1>0, <2>1, <2>3 DEF PtrAt
<1>11. CASE FormJoiners
  <2>1. pc \in { "joiners" } /\ pc' \in { "chat_ls", "returned", "wild" }
    BY <1>11 DEF FormJoiners, GoOn, Return
  <2> QED
    BY <1>0, <2>1 DEF PtrAt
<1>12. CASE ReadBehindStrm
  <2>1. pc \in { "prsn_tbl", "static", "dynamic" } /\ pc' \in { "wild" }
    BY <1>12 DEF ReadBehindStrm, GoOn, Return
  <2> QED
    BY <1>0, <2>1 DEF PtrAt
<1>13. CASE Finish
  <2>1. pc \in { "apm" } /\ pc' \in { "null_read", "returned", "wild" }
    BY <1>13 DEF Finish, GoOn, Return
  <2> QED
    BY <1>0, <2>1 DEF PtrAt
<1>14. CASE bract_wc3_deinit
  <2>1. pc \in { "ready", "returned" } /\ pc' \in { "deinit" }
    BY <1>14 DEF bract_wc3_deinit, GoOn, Return
  <2> QED
    BY <1>0, <2>1 DEF PtrAt
<1>15. CASE DeinitNull
  <2>1. pc \in { "no_context" } /\ pc' \in { "null_read" }
    BY <1>15 DEF DeinitNull, GoOn, Return
  <2> QED
    BY <1>0, <2>1 DEF PtrAt
<1>16. CASE Gone
  <2>1. pc = "deinit" /\ at > Len(DeinitOrder) /\ pc' = "gone"
    BY <1>16 DEF Gone, GoOn
  <2>2. at = 15
    BY <2>1, OrderIs DEF Inv, TypeOK
  <2>3. \A r \in Held : r \notin ptr
    BY <2>1, <2>2, OrderIs DEF Inv, DeinitAt
  <2>4. ptr = {}
    BY <2>3 DEF Inv, Heap
  <2> QED
    BY <1>0, <2>1, <2>4 DEF PtrAt
<1> QED
  BY <1>1, <1>2, <1>3, <1>4, <1>5, <1>6, <1>7, <1>8, <1>9, <1>10, <1>11, <1>12, <1>13,
     <1>14, <1>15, <1>16 DEF KeepsHeap
\* Each step that allocates: what it makes was not there, and what holds it is.
LEMMA bract_wc3_initKeeps == Inv /\ bract_wc3_init => Heap' /\ PtrAt' /\ Loss' = Loss
<1> SUFFICES ASSUME Inv, bract_wc3_init PROVE Heap' /\ PtrAt' /\ Loss' = Loss
  OBVIOUS
<1>1. /\ pc = "init" /\ sgmts' = sgmts
      /\ \/ Acquire({ "bract", "buff" }) /\ pc' \in { "ready" }
  BY DEF bract_wc3_init, GoOn, Return, heap, data
<1>2. ptr = {}
  BY <1>1 DEF Inv, PtrAt
<1>3. CASE Acquire({ "bract", "buff" }) /\ pc' \in { "ready" }
  <2>1. /\ { "bract", "buff" } \subseteq Held /\ { "bract", "buff" } \cap ptr = {}
        /\ \A r \in { "bract", "buff" } : Container[r] \in ptr \cup { "bract", "buff" }
    BY <1>2, HeldIs, ContainerIs DEF Core, Raw, Refine
  <2>2. Heap' /\ Loss' = Loss
    BY <1>1, <1>3, <2>1, AcquireKeeps DEF Inv
  <2>3. ptr' = ptr \cup { "bract", "buff" }
    BY <1>3 DEF Acquire
  <2> QED
    BY <1>3, <1>2, <2>2, <2>3 DEF PtrAt, Core, Raw, Refine
<1> QED
  BY <1>1, <1>3

LEMMA OpenFileKeeps == Inv /\ OpenFile => Heap' /\ PtrAt' /\ Loss' = Loss
<1> SUFFICES ASSUME Inv, OpenFile PROVE Heap' /\ PtrAt' /\ Loss' = Loss
  OBVIOUS
<1>1. /\ pc = "open" /\ sgmts' = sgmts
      /\ \/ Acquire({ "fp" }) /\ pc' \in { "main_hdr" }
         \/ UNCHANGED <<live, ptr>> /\ pc' \in { "returned" }
  BY DEF OpenFile, GoOn, Return, heap, data
<1>2. ptr = Core
  BY <1>1 DEF Inv, PtrAt
<1>3. CASE Acquire({ "fp" }) /\ pc' \in { "main_hdr" }
  <2>1. /\ { "fp" } \subseteq Held /\ { "fp" } \cap ptr = {}
        /\ \A r \in { "fp" } : Container[r] \in ptr \cup { "fp" }
    BY <1>2, HeldIs, ContainerIs DEF Core, Raw, Refine
  <2>2. Heap' /\ Loss' = Loss
    BY <1>1, <1>3, <2>1, AcquireKeeps DEF Inv
  <2>3. ptr' = ptr \cup { "fp" }
    BY <1>3 DEF Acquire
  <2> QED
    BY <1>3, <1>2, <2>2, <2>3 DEF PtrAt, Core, Raw, Refine
<1>4. CASE UNCHANGED <<live, ptr>> /\ pc' \in { "returned" }
  <2>1. Heap' /\ Loss' = Loss
    BY <1>1, <1>4, HeapSame DEF Inv
  <2> QED
    BY <1>4, <2>1 DEF PtrAt
<1> QED
  BY <1>1, <1>3, <1>4

LEMMA AllocBodyKeeps == Inv /\ AllocBody => Heap' /\ PtrAt' /\ Loss' = Loss
<1> SUFFICES ASSUME Inv, AllocBody PROVE Heap' /\ PtrAt' /\ Loss' = Loss
  OBVIOUS
<1>1. /\ pc = "body" /\ sgmts' = sgmts
      /\ \/ Acquire({ "body" }) /\ pc' \in { "sgmt_tbl" }
         \/ UNCHANGED <<live, ptr>> /\ pc' \in { "null_write" }
  BY DEF AllocBody, GoOn, Return, heap, data
<1>2. ptr = Core \cup { "fp" }
  BY <1>1 DEF Inv, PtrAt
<1>3. CASE Acquire({ "body" }) /\ pc' \in { "sgmt_tbl" }
  <2>1. /\ { "body" } \subseteq Held /\ { "body" } \cap ptr = {}
        /\ \A r \in { "body" } : Container[r] \in ptr \cup { "body" }
    BY <1>2, HeldIs, ContainerIs DEF Core, Raw, Refine
  <2>2. Heap' /\ Loss' = Loss
    BY <1>1, <1>3, <2>1, AcquireKeeps DEF Inv
  <2>3. ptr' = ptr \cup { "body" }
    BY <1>3 DEF Acquire
  <2> QED
    BY <1>3, <1>2, <2>2, <2>3 DEF PtrAt, Core, Raw, Refine
<1>4. CASE UNCHANGED <<live, ptr>> /\ pc' \in { "null_write" }
  <2>1. Heap' /\ Loss' = Loss
    BY <1>1, <1>4, HeapSame DEF Inv
  <2> QED
    BY <1>4, <2>1 DEF PtrAt
<1> QED
  BY <1>1, <1>3, <1>4

LEMMA AllocSgmtTblKeeps == Inv /\ AllocSgmtTbl => Heap' /\ PtrAt' /\ Loss' = Loss
<1> SUFFICES ASSUME Inv, AllocSgmtTbl PROVE Heap' /\ PtrAt' /\ Loss' = Loss
  OBVIOUS
<1>1. /\ pc = "sgmt_tbl" /\ sgmts' = sgmts
      /\ \/ Acquire({ "sgmt_tbl" }) /\ pc' \in { "sgmt", "abort" }
         \/ UNCHANGED <<live, ptr>> /\ pc' \in { "returned", "dangling" }
  BY DEF AllocSgmtTbl, GoOn, Return, heap, data
<1>2. ptr = Core \cup { "fp", "body" }
  BY <1>1 DEF Inv, PtrAt
<1>3. CASE Acquire({ "sgmt_tbl" }) /\ pc' \in { "sgmt", "abort" }
  <2>1. /\ { "sgmt_tbl" } \subseteq Held /\ { "sgmt_tbl" } \cap ptr = {}
        /\ \A r \in { "sgmt_tbl" } : Container[r] \in ptr \cup { "sgmt_tbl" }
    BY <1>2, HeldIs, ContainerIs DEF Core, Raw, Refine
  <2>2. Heap' /\ Loss' = Loss
    BY <1>1, <1>3, <2>1, AcquireKeeps DEF Inv
  <2>3. ptr' = ptr \cup { "sgmt_tbl" }
    BY <1>3 DEF Acquire
  <2> QED
    BY <1>3, <1>2, <2>2, <2>3 DEF PtrAt, Core, Raw, Refine
<1>4. CASE UNCHANGED <<live, ptr>> /\ pc' \in { "returned", "dangling" }
  <2>1. Heap' /\ Loss' = Loss
    BY <1>1, <1>4, HeapSame DEF Inv
  <2> QED
    BY <1>4, <2>1 DEF PtrAt
<1> QED
  BY <1>1, <1>3, <1>4

LEMMA PrepStrmKeeps == Inv /\ PrepStrm => Heap' /\ PtrAt' /\ Loss' = Loss
<1> SUFFICES ASSUME Inv, PrepStrm PROVE Heap' /\ PtrAt' /\ Loss' = Loss
  OBVIOUS
<1>1. /\ pc = "strm" /\ sgmts' = sgmts
      /\ \/ Acquire({ "strm" }) /\ pc' \in { "decode" }
         \/ UNCHANGED <<live, ptr>> /\ pc' \in { "returned" }
  BY DEF PrepStrm, GoOn, Return, heap, data
<1>2. ptr = Raw
  BY <1>1 DEF Inv, PtrAt
<1>3. CASE Acquire({ "strm" }) /\ pc' \in { "decode" }
  <2>1. /\ { "strm" } \subseteq Held /\ { "strm" } \cap ptr = {}
        /\ \A r \in { "strm" } : Container[r] \in ptr \cup { "strm" }
    BY <1>2, HeldIs, ContainerIs DEF Core, Raw, Refine
  <2>2. Heap' /\ Loss' = Loss
    BY <1>1, <1>3, <2>1, AcquireKeeps DEF Inv
  <2>3. ptr' = ptr \cup { "strm" }
    BY <1>3 DEF Acquire
  <2> QED
    BY <1>3, <1>2, <2>2, <2>3 DEF PtrAt, Core, Raw, Refine
<1>4. CASE UNCHANGED <<live, ptr>> /\ pc' \in { "returned" }
  <2>1. Heap' /\ Loss' = Loss
    BY <1>1, <1>4, HeapSame DEF Inv
  <2> QED
    BY <1>4, <2>1 DEF PtrAt
<1> QED
  BY <1>1, <1>3, <1>4

LEMMA AllocRfndKeeps == Inv /\ AllocRfnd => Heap' /\ PtrAt' /\ Loss' = Loss
<1> SUFFICES ASSUME Inv, AllocRfnd PROVE Heap' /\ PtrAt' /\ Loss' = Loss
  OBVIOUS
<1>1. /\ pc = "rfnd" /\ sgmts' = sgmts
      /\ \/ Acquire({ "rfnd", "host_blk" }) /\ pc' \in { "prsn_tbl" }
         \/ Acquire({ "rfnd" }) /\ pc' \in { "prsn_tbl" }
         \/ UNCHANGED <<live, ptr>> /\ pc' \in { "returned" }
  BY DEF AllocRfnd, GoOn, Return, heap, data
<1>2. ptr = Core \cup { "body", "strm" }
  BY <1>1 DEF Inv, PtrAt
<1>3. CASE Acquire({ "rfnd", "host_blk" }) /\ pc' \in { "prsn_tbl" }
  <2>1. /\ { "rfnd", "host_blk" } \subseteq Held /\ { "rfnd", "host_blk" } \cap ptr = {}
        /\ \A r \in { "rfnd", "host_blk" } :
              Container[r] \in ptr \cup { "rfnd", "host_blk" }
    BY <1>2, HeldIs, ContainerIs DEF Core, Raw, Refine
  <2>2. Heap' /\ Loss' = Loss
    BY <1>1, <1>3, <2>1, AcquireKeeps DEF Inv
  <2>3. ptr' = ptr \cup { "rfnd", "host_blk" }
    BY <1>3 DEF Acquire
  <2>4. ptr' \ { "host_blk" } = Core \cup { "body", "strm", "rfnd" }
    BY <1>2, <2>3 DEF Core
  <2> QED
    BY <1>3, <2>2, <2>4 DEF PtrAt
<1>4. CASE Acquire({ "rfnd" }) /\ pc' \in { "prsn_tbl" }
  <2>1. /\ { "rfnd" } \subseteq Held /\ { "rfnd" } \cap ptr = {}
        /\ \A r \in { "rfnd" } : Container[r] \in ptr \cup { "rfnd" }
    BY <1>2, HeldIs, ContainerIs DEF Core, Raw, Refine
  <2>2. Heap' /\ Loss' = Loss
    BY <1>1, <1>4, <2>1, AcquireKeeps DEF Inv
  <2>3. ptr' = ptr \cup { "rfnd" }
    BY <1>4 DEF Acquire
  <2>4. ptr' \ { "host_blk" } = Core \cup { "body", "strm", "rfnd" }
    BY <1>2, <2>3 DEF Core
  <2> QED
    BY <1>4, <2>2, <2>4 DEF PtrAt
<1>5. CASE UNCHANGED <<live, ptr>> /\ pc' \in { "returned" }
  <2>1. Heap' /\ Loss' = Loss
    BY <1>1, <1>5, HeapSame DEF Inv
  <2> QED
    BY <1>5, <2>1 DEF PtrAt
<1> QED
  BY <1>1, <1>3, <1>4, <1>5

LEMMA AllocPrsnTblKeeps == Inv /\ AllocPrsnTbl => Heap' /\ PtrAt' /\ Loss' = Loss
<1> SUFFICES ASSUME Inv, AllocPrsnTbl PROVE Heap' /\ PtrAt' /\ Loss' = Loss
  OBVIOUS
<1>1. /\ pc = "prsn_tbl" /\ sgmts' = sgmts
      /\ \/ Acquire({ "prsn_tbl" }) /\ pc' \in { "join_scrn_blk" }
         \/ UNCHANGED <<live, ptr>> /\ pc' \in { "dangling", "returned" }
  BY DEF AllocPrsnTbl, GoOn, Return, heap, data
<1>2. ptr \ { "host_blk" } = Core \cup { "body", "strm", "rfnd" }
  BY <1>1 DEF Inv, PtrAt
<1>3. CASE Acquire({ "prsn_tbl" }) /\ pc' \in { "join_scrn_blk" }
  <2>1. /\ { "prsn_tbl" } \subseteq Held /\ { "prsn_tbl" } \cap ptr = {}
        /\ \A r \in { "prsn_tbl" } : Container[r] \in ptr \cup { "prsn_tbl" }
    BY <1>2, HeldIs, ContainerIs DEF Core, Raw, Refine
  <2>2. Heap' /\ Loss' = Loss
    BY <1>1, <1>3, <2>1, AcquireKeeps DEF Inv
  <2>3. ptr' = ptr \cup { "prsn_tbl" }
    BY <1>3 DEF Acquire
  <2>4. ptr' \ { "host_blk" } = (Core \cup { "body", "strm", "rfnd" }) \cup { "prsn_tbl" }
    BY <1>2, <2>3
  <2> QED
    BY <1>3, <2>2, <2>4 DEF PtrAt, Core, Refine
<1>4. CASE UNCHANGED <<live, ptr>> /\ pc' \in { "dangling", "returned" }
  <2>1. Heap' /\ Loss' = Loss
    BY <1>1, <1>4, HeapSame DEF Inv
  <2> QED
    BY <1>4, <2>1 DEF PtrAt
<1> QED
  BY <1>1, <1>3, <1>4

LEMMA join_scrn_blk_allocKeeps ==
    Inv /\ join_scrn_blk_alloc => Heap' /\ PtrAt' /\ Loss' = Loss
<1> SUFFICES ASSUME Inv, join_scrn_blk_alloc PROVE Heap' /\ PtrAt' /\ Loss' = Loss
  OBVIOUS
<1>1. /\ pc = "join_scrn_blk" /\ sgmts' = sgmts
      /\ \/ Acquire({ "join_scrn_blk", "slot_tbl" }) /\ pc' \in { "static" }
         \/ Acquire({ "join_scrn_blk" }) /\ pc' \in { "returned" }
         \/ UNCHANGED <<live, ptr>> /\ pc' \in { "returned" }
  BY DEF join_scrn_blk_alloc, GoOn, Return, heap, data
<1>2. ptr \ { "host_blk" } = Core \cup { "body", "strm", "rfnd", "prsn_tbl" }
  BY <1>1 DEF Inv, PtrAt
<1>3. CASE Acquire({ "join_scrn_blk", "slot_tbl" }) /\ pc' \in { "static" }
  <2>1.
        /\ { "join_scrn_blk", "slot_tbl" } \subseteq Held
        /\ { "join_scrn_blk", "slot_tbl" } \cap ptr = {}
        /\ \A r \in { "join_scrn_blk", "slot_tbl" } :
              Container[r] \in ptr \cup { "join_scrn_blk", "slot_tbl" }
    BY <1>2, HeldIs, ContainerIs DEF Core, Raw, Refine
  <2>2. Heap' /\ Loss' = Loss
    BY <1>1, <1>3, <2>1, AcquireKeeps DEF Inv
  <2>3. ptr' = ptr \cup { "join_scrn_blk", "slot_tbl" }
    BY <1>3 DEF Acquire
  <2>4. ptr' \ { "host_blk" } =
        (Core \cup { "body", "strm", "rfnd", "prsn_tbl" }) \cup { "join_scrn_blk", "slot_tbl" }
    BY <1>2, <2>3
  <2> QED
    BY <1>3, <2>2, <2>4 DEF PtrAt, Core, Refine
<1>4. CASE Acquire({ "join_scrn_blk" }) /\ pc' \in { "returned" }
  <2>1. /\ { "join_scrn_blk" } \subseteq Held /\ { "join_scrn_blk" } \cap ptr = {}
        /\ \A r \in { "join_scrn_blk" } : Container[r] \in ptr \cup { "join_scrn_blk" }
    BY <1>2, HeldIs, ContainerIs DEF Core, Raw, Refine
  <2>2. Heap' /\ Loss' = Loss
    BY <1>1, <1>4, <2>1, AcquireKeeps DEF Inv
  <2>3. ptr' = ptr \cup { "join_scrn_blk" }
    BY <1>4 DEF Acquire
  <2>4. ptr' \ { "host_blk" } =
        (Core \cup { "body", "strm", "rfnd", "prsn_tbl" }) \cup { "join_scrn_blk" }
    BY <1>2, <2>3
  <2> QED
    BY <1>4, <2>2, <2>4 DEF PtrAt, Core, Refine
<1>5. CASE UNCHANGED <<live, ptr>> /\ pc' \in { "returned" }
  <2>1. Heap' /\ Loss' = Loss
    BY <1>1, <1>5, HeapSame DEF Inv
  <2> QED
    BY <1>5, <2>1 DEF PtrAt
<1> QED
  BY <1>1, <1>3, <1>4, <1>5

LEMMA AllocJoinerTblKeeps == Inv /\ AllocJoinerTbl => Heap' /\ PtrAt' /\ Loss' = Loss
<1> SUFFICES ASSUME Inv, AllocJoinerTbl PROVE Heap' /\ PtrAt' /\ Loss' = Loss
  OBVIOUS
<1>1. /\ pc = "joiner_tbl" /\ sgmts' = sgmts
      /\ \/ Acquire({ "joiner_tbl" }) /\ pc' \in { "joiners" }
         \/ UNCHANGED <<live, ptr>> /\ pc' \in { "returned", "dangling" }
  BY DEF AllocJoinerTbl, GoOn, Return, heap, data
<1>2. ptr = Refine \cup { "host_blk" }
  BY <1>1 DEF Inv, PtrAt
<1>3. CASE Acquire({ "joiner_tbl" }) /\ pc' \in { "joiners" }
  <2>1. /\ { "joiner_tbl" } \subseteq Held /\ { "joiner_tbl" } \cap ptr = {}
        /\ \A r \in { "joiner_tbl" } : Container[r] \in ptr \cup { "joiner_tbl" }
    BY <1>2, HeldIs, ContainerIs DEF Core, Raw, Refine
  <2>2. Heap' /\ Loss' = Loss
    BY <1>1, <1>3, <2>1, AcquireKeeps DEF Inv
  <2>3. ptr' = ptr \cup { "joiner_tbl" }
    BY <1>3 DEF Acquire
  <2> QED
    BY <1>3, <1>2, <2>2, <2>3 DEF PtrAt, Core, Raw, Refine
<1>4. CASE UNCHANGED <<live, ptr>> /\ pc' \in { "returned", "dangling" }
  <2>1. Heap' /\ Loss' = Loss
    BY <1>1, <1>4, HeapSame DEF Inv
  <2> QED
    BY <1>4, <2>1 DEF PtrAt
<1> QED
  BY <1>1, <1>3, <1>4

LEMMA AllocChatKeeps ==
    Inv /\ AllocList("chat_ls", "action_ls") => Heap' /\ PtrAt' /\ Loss' = Loss
<1> SUFFICES ASSUME Inv, AllocList("chat_ls", "action_ls")
             PROVE  Heap' /\ PtrAt' /\ Loss' = Loss
  OBVIOUS
<1>1. /\ pc = "chat_ls" /\ sgmts' = sgmts
      /\ \/ Acquire({ "chat_ls" }) /\ pc' \in { "action_ls" }
         \/ UNCHANGED <<live, ptr>> /\ pc' \in { "returned" }
  BY DEF AllocList, GoOn, Return, heap, data
<1>2. ptr = Refine \cup { "host_blk", "joiner_tbl" }
  BY <1>1 DEF Inv, PtrAt
<1>3. CASE Acquire({ "chat_ls" }) /\ pc' \in { "action_ls" }
  <2>1. /\ { "chat_ls" } \subseteq Held /\ { "chat_ls" } \cap ptr = {}
        /\ \A r \in { "chat_ls" } : Container[r] \in ptr \cup { "chat_ls" }
    BY <1>2, HeldIs, ContainerIs DEF Core, Raw, Refine
  <2>2. Heap' /\ Loss' = Loss
    BY <1>1, <1>3, <2>1, AcquireKeeps DEF Inv
  <2>3. ptr' = ptr \cup { "chat_ls" }
    BY <1>3 DEF Acquire
  <2> QED
    BY <1>3, <1>2, <2>2, <2>3 DEF PtrAt, Core, Raw, Refine
<1>4. CASE UNCHANGED <<live, ptr>> /\ pc' \in { "returned" }
  <2>1. Heap' /\ Loss' = Loss
    BY <1>1, <1>4, HeapSame DEF Inv
  <2> QED
    BY <1>4, <2>1 DEF PtrAt
<1> QED
  BY <1>1, <1>3, <1>4

LEMMA AllocActionKeeps ==
    Inv /\ AllocList("action_ls", "dynamic") => Heap' /\ PtrAt' /\ Loss' = Loss
<1> SUFFICES ASSUME Inv, AllocList("action_ls", "dynamic")
             PROVE  Heap' /\ PtrAt' /\ Loss' = Loss
  OBVIOUS
<1>1. /\ pc = "action_ls" /\ sgmts' = sgmts
      /\ \/ Acquire({ "action_ls" }) /\ pc' \in { "dynamic" }
         \/ UNCHANGED <<live, ptr>> /\ pc' \in { "returned" }
  BY DEF AllocList, GoOn, Return, heap, data
<1>2. ptr = Refine \cup { "host_blk", "joiner_tbl", "chat_ls" }
  BY <1>1 DEF Inv, PtrAt
<1>3. CASE Acquire({ "action_ls" }) /\ pc' \in { "dynamic" }
  <2>1. /\ { "action_ls" } \subseteq Held /\ { "action_ls" } \cap ptr = {}
        /\ \A r \in { "action_ls" } : Container[r] \in ptr \cup { "action_ls" }
    BY <1>2, HeldIs, ContainerIs DEF Core, Raw, Refine
  <2>2. Heap' /\ Loss' = Loss
    BY <1>1, <1>3, <2>1, AcquireKeeps DEF Inv
  <2>3. ptr' = ptr \cup { "action_ls" }
    BY <1>3 DEF Acquire
  <2> QED
    BY <1>3, <1>2, <2>2, <2>3 DEF PtrAt, Core, Raw, Refine
<1>4. CASE UNCHANGED <<live, ptr>> /\ pc' \in { "returned" }
  <2>1. Heap' /\ Loss' = Loss
    BY <1>1, <1>4, HeapSame DEF Inv
  <2> QED
    BY <1>4, <2>1 DEF PtrAt
<1> QED
  BY <1>1, <1>3, <1>4
\* A segment and its data come into the table.
LEMMA ReadSgmtKeeps == Inv /\ ReadSgmt => Heap' /\ PtrAt' /\ Loss' = Loss
<1> SUFFICES ASSUME Inv, ReadSgmt PROVE Heap' /\ PtrAt' /\ Loss' = Loss
  OBVIOUS
<1>1. /\ pc = "sgmt" /\ pc' = pc /\ ptr' = ptr
      /\ live' = [live EXCEPT !.sgmt = @ + 1, !.ecd_data = @ + 1]
  BY DEF ReadSgmt
<1>2. PICK size \in DcdSizes : sgmts' = Append(sgmts, size)
  BY DEF ReadSgmt
<1>3. PtrAt' /\ "sgmt_tbl" \in ptr
  BY <1>1 DEF Inv, PtrAt, Raw
<1>4. live \in [Resources -> Nat] /\ "sgmt" \in Resources /\ "ecd_data" \in Resources
  BY ResourcesAre DEF Inv, Heap
<1>5. /\ live'["sgmt"] = live["sgmt"] + 1 /\ live'["ecd_data"] = live["ecd_data"] + 1
      /\ \A x \in Resources \ { "sgmt", "ecd_data" } : live'[x] = live[x]
      /\ live' \in [Resources -> Nat]
  <2>1. PICK g : g = live'
    OBVIOUS
  <2>2. g = [live EXCEPT !.sgmt = @ + 1, !.ecd_data = @ + 1]
    BY <1>1, <2>1
  <2>3. /\ g["sgmt"] = live["sgmt"] + 1 /\ g["ecd_data"] = live["ecd_data"] + 1
        /\ \A x \in Resources \ { "sgmt", "ecd_data" } : g[x] = live[x]
        /\ g = [x \in Resources |-> g[x]]
    BY <1>4, <2>2
  <2>4. \A x \in Resources : g[x] \in Nat
    BY <1>4, <2>3
  <2>5. g \in [Resources -> Nat]
    BY <2>3, <2>4
  <2> QED
    BY <2>1, <2>3, <2>5
<1>6. \A r \in Held : live'[r] = IF r \in ptr' THEN 1 ELSE 0
  BY <1>1, <1>5, ResourcesAre DEF Inv, Heap
<1>7. sgmts' \in Seq(DcdSizes) /\ Len(sgmts') = Len(sgmts) + 1
  BY <1>2 DEF Inv, Heap
<1>8. live'["sgmt"] = Len(sgmts')
  BY <1>5, <1>7 DEF Inv, Heap
<1>9. live'["ecd_data"] \in { live'["sgmt"], live'["sgmt"] + 1 }
  BY <1>4, <1>5 DEF Inv, Heap
<1>10. Heap' /\ Loss' = Loss
  BY <1>1, <1>3, <1>4, <1>5, <1>6, <1>7, <1>8, <1>9 DEF Inv, Heap, Loss
<1> QED
  BY <1>3, <1>10

\* The data that are lost are the only ones.
LEMMA SgmtBodyFailsKeeps == Inv /\ SgmtBodyFails => Heap' /\ PtrAt'
<1> SUFFICES ASSUME Inv, SgmtBodyFails PROVE Heap' /\ PtrAt'
  OBVIOUS
<1>1. /\ pc = "sgmt" /\ pc' = "returned" /\ ptr' = ptr /\ sgmts' = sgmts
      /\ live' = [live EXCEPT !.ecd_data = @ + 1]
  BY DEF SgmtBodyFails, Return, data
<1>2. PtrAt'
  BY <1>1 DEF Inv, PtrAt
<1>3. live \in [Resources -> Nat] /\ "sgmt" \in Resources /\ "ecd_data" \in Resources
  BY ResourcesAre DEF Inv, Heap
<1>4. /\ live'["ecd_data"] = live["ecd_data"] + 1
      /\ \A x \in Resources \ { "ecd_data" } : live'[x] = live[x]
      /\ live' \in [Resources -> Nat]
  BY <1>1, <1>3
<1>5. ret = "none" /\ live["ecd_data"] = live["sgmt"]
  BY <1>1, <1>3 DEF Inv, Known, InOperate, InBody, LostAt, Loss
<1>6. live'["ecd_data"] = live'["sgmt"] + 1
  BY <1>3, <1>4, <1>5
<1>7. \A r \in Held : live'[r] = IF r \in ptr' THEN 1 ELSE 0
  BY <1>1, <1>4, ResourcesAre DEF Inv, Heap
<1>8. Heap'
  BY <1>1, <1>3, <1>4, <1>6, <1>7 DEF Inv, Heap
<1> QED
  BY <1>2, <1>8

\* Steps that free: nothing is left that holds what they free.
LEMMA CloseFileKeeps == Inv /\ CloseFile => Heap' /\ PtrAt' /\ Loss' = Loss
<1> SUFFICES ASSUME Inv, CloseFile PROVE Heap' /\ PtrAt' /\ Loss' = Loss
  OBVIOUS
<1>1. pc = "sgmt" /\ pc' = "strm" /\ Release("fp") /\ sgmts' = sgmts
  BY DEF CloseFile, GoOn, data
<1>2. ptr = Raw \cup { "fp" }
  BY <1>1 DEF Inv, PtrAt
<1>3. "fp" \in ptr /\ \A x \in ptr \ { "fp" } : Container[x] # "fp"
  BY <1>2, ContainerIs DEF Raw, Core
<1>4. Heap' /\ Loss' = Loss
  BY <1>1, <1>3, ReleaseKeeps DEF Inv
<1>5. ptr' = Raw
  BY <1>1, <1>2 DEF Release, Raw, Core
<1> QED
  BY <1>1, <1>4, <1>5 DEF PtrAt

LEMMA DecodedKeeps == Inv /\ Decoded => Heap' /\ PtrAt' /\ Loss' = Loss
<1> SUFFICES ASSUME Inv, Decoded PROVE Heap' /\ PtrAt' /\ Loss' = Loss
  OBVIOUS
<1>1. pc = "decode" /\ pc' = "rfnd" /\ FreeSgmtTbl /\ sgmts' = <<>>
  BY DEF Decoded, GoOn
<1>2. ptr = Raw \cup { "strm" }
  BY <1>1 DEF Inv, PtrAt
<1>3. Heap' /\ Loss' = Loss
  BY <1>1, <1>2, FreeSgmtTblKeeps DEF Inv, Raw
<1>4. ptr' = Core \cup { "body", "strm" }
  BY <1>1, <1>2 DEF FreeSgmtTbl, Raw, Core
<1> QED
  BY <1>1, <1>3, <1>4 DEF PtrAt

LEMMA save_dyn_blk_seqKeeps == Inv /\ save_dyn_blk_seq => Heap' /\ PtrAt' /\ Loss' = Loss
<1> SUFFICES ASSUME Inv, save_dyn_blk_seq PROVE Heap' /\ PtrAt' /\ Loss' = Loss
  OBVIOUS
<1>1. /\ pc = "dynamic" /\ sgmts' = sgmts
      /\ \/ pc' = "apm" /\ Release("strm")
         \/ pc' \in { "returned", "wild" } /\ UNCHANGED <<live, ptr>>
  BY DEF save_dyn_blk_seq, GoOn, Return, heap
<1>2. ptr = Refine \cup { "host_blk", "joiner_tbl", "chat_ls", "action_ls" }
  BY <1>1 DEF Inv, PtrAt
<1>3. CASE pc' = "apm" /\ Release("strm")
  <2>1. "strm" \in ptr /\ \A x \in ptr \ { "strm" } : Container[x] # "strm"
    BY <1>2, ContainerIs DEF Refine, Core
  <2>2. Heap' /\ Loss' = Loss
    BY <1>1, <1>3, <2>1, ReleaseKeeps DEF Inv
  <2>3. Parsed \subseteq ptr'
    BY <1>2, <1>3 DEF Release, Parsed, Refine, Core
  <2> QED
    BY <1>3, <2>2, <2>3 DEF PtrAt
<1>4. CASE pc' \in { "returned", "wild" } /\ UNCHANGED <<live, ptr>>
  <2>1. Heap' /\ Loss' = Loss
    BY <1>1, <1>4, HeapSame DEF Inv
  <2> QED
    BY <1>4, <2>1 DEF PtrAt
<1> QED
  BY <1>1, <1>3, <1>4

\* What deinit frees holds nothing any more.
LEMMA FreeNextKeeps == Inv /\ FreeNext => Heap' /\ PtrAt' /\ Loss' = Loss /\ DeinitAt'
<1> SUFFICES ASSUME Inv, FreeNext PROVE Heap' /\ PtrAt' /\ Loss' = Loss /\ DeinitAt'
  OBVIOUS
<1> DEFINE r == DeinitOrder[at]
<1>1. /\ pc = "deinit" /\ pc' = pc /\ at <= Len(DeinitOrder) /\ at' = at + 1
      /\ \/ r \notin ptr /\ UNCHANGED <<live, ptr, sgmts>>
         \/ r \in ptr /\ r # "sgmt_tbl" /\ Release(r) /\ sgmts' = sgmts
         \/ r \in ptr /\ r = "sgmt_tbl" /\ FreeSgmtTbl /\ sgmts' = <<>>
  BY DEF FreeNext, Following, heap
<1>2. at \in 1..14 /\ \A i \in 1..(at - 1) : DeinitOrder[i] \notin ptr
  BY <1>1, OrderIs DEF Inv, DeinitAt, TypeOK
<1>3. PtrAt'
  BY <1>1 DEF PtrAt
<1>4. ptr' \subseteq ptr /\ r \notin ptr'
  BY <1>1 DEF Release, FreeSgmtTbl
<1>5. DeinitAt'
  <2>1. \A i \in 1..((at + 1) - 1) : i \in 1..(at - 1) \/ i = at
    BY <1>2
  <2>2. \A i \in 1..((at + 1) - 1) : DeinitOrder[i] \notin ptr'
    BY <1>2, <1>4, <2>1
  <2> QED
    BY <1>1, <1>2, <2>2 DEF DeinitAt
<1>6. Heap' /\ Loss' = Loss
  <2>1. CASE r \notin ptr /\ UNCHANGED <<live, ptr, sgmts>>
    BY <2>1, HeapSame DEF Inv
  <2>2. CASE r \in ptr /\ r # "sgmt_tbl" /\ Release(r) /\ sgmts' = sgmts
    <3>1. \A x \in ptr \ { r } : Container[x] # r
      <4> TAKE x \in ptr \ { r }
      <4>1. x \in Held /\ x # r
        BY DEF Inv, Heap
      <4> QED
        BY <1>2, <4>1, ContentsFirst
    <3> QED
      BY <2>2, <3>1, ReleaseKeeps DEF Inv
  <2>3. CASE r \in ptr /\ r = "sgmt_tbl" /\ FreeSgmtTbl /\ sgmts' = <<>>
    BY <2>3, FreeSgmtTblKeeps DEF Inv
  <2> QED
    BY <1>1, <2>1, <2>2, <2>3
<1> QED
  BY <1>3, <1>5, <1>6

LEMMA StutterKeeps == Inv /\ UNCHANGED vars => Inv'
<1> SUFFICES ASSUME Inv, UNCHANGED vars PROVE Inv'
  OBVIOUS
<1>1. /\ UNCHANGED <<pc, ret, task, main_hdr, written, live, ptr, sgmts, done, strm, at>>
      /\ Asks(task, ADDTL)' = Asks(task, ADDTL)
  BY DEF vars, Asks, ADDTL
<1>2. TypeOK'
  BY <1>1 DEF Inv, TypeOK
<1>3. Heap' /\ DoneAt'
  BY <1>1 DEF Inv, Heap, DoneAt
<1>4. PtrAt' /\ DeinitAt'
  BY <1>1 DEF Inv, PtrAt, DeinitAt
<1>5. Known' /\ Answered' /\ LostAt'
  BY <1>1 DEF Inv, Known, Answered, LostAt, Loss
<1> QED
  BY <1>2, <1>3, <1>4, <1>5 DEF Inv

\* Pointers and memory match behind every step.
LEMMA HeapStep == Inv /\ Next => Heap' /\ PtrAt' /\ (Loss' = Loss \/ SgmtBodyFails)
<1> SUFFICES ASSUME Inv, Next
             PROVE  Heap' /\ PtrAt' /\ (Loss' = Loss \/ SgmtBodyFails)
  OBVIOUS
<1>1. CASE KeepsHeap
  BY <1>1, KeepsHeapKeeps, KeepsHeapPtr, HeapSame DEF Inv
<1> QED
  BY Zenon, <1>1, bract_wc3_initKeeps, OpenFileKeeps, AllocBodyKeeps, AllocSgmtTblKeeps,
     ReadSgmtKeeps, SgmtBodyFailsKeeps, CloseFileKeeps, PrepStrmKeeps, DecodedKeeps,
     AllocRfndKeeps, AllocPrsnTblKeeps, join_scrn_blk_allocKeeps, AllocJoinerTblKeeps,
     AllocChatKeeps, AllocActionKeeps, save_dyn_blk_seqKeeps, FreeNextKeeps
  DEF Next, Running, Operating, KeepsHeap
-----------------------------------------------------------------------------
(***************************************************************************)
(* What operate knows, action by action.                                   *)
(***************************************************************************)

\* To ask for the APM is to ask for the additional data.
LEMMA ApmAsksAddtl == \A t \in Masks : Asks(t, APM) => Asks(t, ADDTL)
<1>1. ~Asks(1, APM) /\ ~Asks(3, APM) /\ Asks(7, ADDTL)
  BY DEF Asks, APM, ADDTL
<1> QED
  BY <1>1 DEF Masks

\* No header of version 0 gets through range_strm_offset.
LEMMA OnlyVersion1 ==
    ASSUME NEW hdr \in MainHdrs, check_rep_main_hdr(hdr)
    PROVE  hdr.sub_hdr_ver = 1
<1>1. hdr.sub_hdr_ver \in Nat /\ hdr.strm_offset \in Nat
  BY DEF MainHdrs
<1>2. hdr.sub_hdr_ver < 2 /\ ~(hdr.sub_hdr_ver = 0 /\ hdr.strm_offset # 64)
      /\ hdr.strm_offset = 68
  BY DEF check_rep_main_hdr, range_sub_hdr_ver, range_strm_offset
<1> QED
  BY <1>1, <1>2

\* A step of operate between the headers and the APM.
BodyStep ==
    /\ pc \in InBody /\ UNCHANGED <<task, main_hdr, written, at>>
    /\ \/ pc' \in InBody \cup { "apm" } /\ ret' = ret
       \/ pc' = "returned" /\ ret' \in Codes \ { "ok" }
       \/ pc' \in Crashes /\ ret' = ret

\* What becomes of the loops of strm_len and decode_sgmts.
LoopStep ==
    \/ pc \notin { "strm", "decode" } /\ done' = done
    \/ done' = 0
    \/ /\ pc \in { "strm", "decode" } /\ pc' = pc /\ done' = done + 1
       /\ done < Len(sgmts) /\ sgmts' = sgmts

StrmOK == strm \in [len : Nat, cnt : Nat, lim : Nat]

BodyActions ==
    \/ AllocBody \/ AllocSgmtTbl \/ ReadSgmt \/ SgmtFails \/ SgmtBodyFails \/ CloseFile
    \/ strm_len \/ PrepStrm \/ DecodeSgmt \/ DecodeFails \/ Decoded \/ AllocRfnd
    \/ AllocPrsnTbl \/ join_scrn_blk_alloc \/ save_static_blk_seq \/ AllocJoinerTbl
    \/ FormJoiners \/ AllocList("chat_ls", "action_ls")
    \/ AllocList("action_ls", "dynamic") \/ save_dyn_blk_seq \/ ReadBehindStrm

LEMMA BodyIsBody == Inv /\ BodyActions => BodyStep /\ LoopStep
<1> SUFFICES ASSUME Inv, BodyActions PROVE BodyStep /\ LoopStep
  OBVIOUS
<1> USE DEF BodyStep, LoopStep, InBody, Parsing, Crashes, Codes, GoOn, Return, hdrs, data
<1>1. CASE AllocBody
  BY <1>1 DEF AllocBody
<1>2. CASE AllocSgmtTbl
  BY <1>2 DEF AllocSgmtTbl
<1>3. CASE ReadSgmt
  BY <1>3 DEF ReadSgmt
<1>4. CASE SgmtFails
  BY <1>4 DEF SgmtFails
<1>5. CASE SgmtBodyFails
  BY <1>5 DEF SgmtBodyFails
<1>6. CASE CloseFile
  BY <1>6 DEF CloseFile
<1>7. CASE strm_len
  BY <1>7 DEF strm_len
<1>8. CASE PrepStrm
  BY <1>8 DEF PrepStrm
<1>9. CASE DecodeSgmt
  BY <1>9 DEF DecodeSgmt
<1>10. CASE DecodeFails
  BY <1>10 DEF DecodeFails
<1>11. CASE Decoded
  BY <1>11 DEF Decoded
<1>12. CASE AllocRfnd
  BY <1>12 DEF AllocRfnd
<1>13. CASE AllocPrsnTbl
  BY <1>13 DEF AllocPrsnTbl
<1>14. CASE join_scrn_blk_alloc
  BY <1>14 DEF join_scrn_blk_alloc
<1>15. CASE save_static_blk_seq
  BY <1>15 DEF save_static_blk_seq
<1>16. CASE AllocJoinerTbl
  BY <1>16 DEF AllocJoinerTbl
<1>17. CASE FormJoiners
  BY <1>17 DEF FormJoiners
<1>18. CASE AllocList("chat_ls", "action_ls")
  BY <1>18 DEF AllocList
<1>19. CASE AllocList("action_ls", "dynamic")
  BY <1>19 DEF AllocList
<1>20. CASE save_dyn_blk_seq
  BY <1>20 DEF save_dyn_blk_seq
<1>21. CASE ReadBehindStrm
  BY <1>21 DEF ReadBehindStrm
<1> QED
  BY <1>1, <1>2, <1>3, <1>4, <1>5, <1>6, <1>7, <1>8, <1>9, <1>10, <1>11, <1>12, <1>13,
     <1>14, <1>15, <1>16, <1>17, <1>18, <1>19, <1>20, <1>21 DEF BodyActions

LEMMA CellOf ==
    ASSUME NEW S, NEW s \in Seq(S), NEW k \in 1..Len(s)
    PROVE  s[k] \in S
  OBVIOUS

\* The lengths of a stream are numbers.
LEMMA BodyStrm == Inv /\ BodyActions => StrmOK'
<1> SUFFICES ASSUME Inv, BodyActions PROVE StrmOK'
  OBVIOUS
<1>0. StrmOK /\ NoStrm \in [len : Nat, cnt : Nat, lim : Nat]
  BY DEF Inv, TypeOK, StrmOK, NoStrm
<1>1. ASSUME done < Len(sgmts) PROVE sgmts[done + 1] \in Nat
  <2>1. sgmts \in Seq(DcdSizes) /\ done \in Nat /\ Len(sgmts) \in Nat /\ DcdSizes \subseteq Nat
    BY LifecycleAssumption DEF Inv, TypeOK
  <2>2. done + 1 \in 1..Len(sgmts)
    BY <1>1, <2>1
  <2>3. sgmts[done + 1] \in DcdSizes
    BY <2>1, <2>2, CellOf
  <2> QED
    BY <2>1, <2>3
<1>2. CASE strm_len
  <2>1. done < Len(sgmts) /\ strm' = [strm EXCEPT !.len = @ + sgmts[done + 1]]
    BY <1>2 DEF strm_len
  <2>2. PICK n \in Nat : n = sgmts[done + 1]
    BY <1>1, <2>1
  <2>3. strm' = [strm EXCEPT !.len = @ + n]
    BY <2>1, <2>2
  <2> QED
    BY <1>0, <2>3 DEF StrmOK
<1>3. CASE PrepStrm
  BY <1>0, <1>3 DEF PrepStrm, StrmOK
<1>4. CASE DecodeSgmt
  <2>1. done < Len(sgmts) /\ strm' = [strm EXCEPT !.cnt = @ + sgmts[done + 1]]
    BY <1>4 DEF DecodeSgmt, Filled
  <2>2. PICK n \in Nat : n = sgmts[done + 1]
    BY <1>1, <2>1
  <2>3. strm' = [strm EXCEPT !.cnt = @ + n]
    BY <2>1, <2>2
  <2> QED
    BY <1>0, <2>3 DEF StrmOK
<1>5. CASE Decoded
  <2>1. strm' = [strm EXCEPT !.lim = main_hdr.dcd_data_size] /\ main_hdr \in MainHdrs
    BY <1>5 DEF Decoded, Inv, TypeOK
  <2> QED
    BY <1>0, <2>1 DEF StrmOK, MainHdrs
<1>6. CASE save_dyn_blk_seq
  BY <1>0, <1>6 DEF save_dyn_blk_seq, StrmOK
<1>7. CASE strm' = strm
  BY <1>0, <1>7 DEF StrmOK
<1>8. CASE DecodeFails \/ ReadSgmt \/ AllocSgmtTbl \/ AllocBody \/ SgmtFails \/ SgmtBodyFails
  BY <1>7, <1>8 DEF DecodeFails, ReadSgmt, AllocSgmtTbl, AllocBody, SgmtFails, SgmtBodyFails, data
<1>9. CASE CloseFile \/ AllocRfnd \/ AllocPrsnTbl \/ join_scrn_blk_alloc
  BY <1>7, <1>9 DEF CloseFile, AllocRfnd, AllocPrsnTbl, join_scrn_blk_alloc, data
<1>10. CASE save_static_blk_seq \/ AllocJoinerTbl \/ FormJoiners \/ ReadBehindStrm
  BY <1>7, <1>10 DEF save_static_blk_seq, AllocJoinerTbl, FormJoiners, ReadBehindStrm, data
<1>11. CASE AllocList("chat_ls", "action_ls") \/ AllocList("action_ls", "dynamic")
  BY <1>7, <1>11 DEF AllocList, data
<1> QED
  BY <1>2, <1>3, <1>4, <1>5, <1>6, <1>8, <1>9, <1>10, <1>11 DEF BodyActions
\* TypeOK but for the heap.
Scalars ==
    /\ pc \in Steps /\ ret \in Codes
    /\ task \in { 0, 1, 3, 7 } /\ main_hdr \in MainHdrs /\ written \subseteq Written(1)
    /\ StrmOK /\ at \in 0..(Len(DeinitOrder) + 1)

Control == Scalars /\ Known /\ Answered /\ DeinitAt

\* What operate returned stands when it has returned.
RetStep == ret = "none" \/ (ret' = ret /\ task' = task)

LEMMA InvScalars == Inv => Scalars
  BY DEF Inv, TypeOK, Scalars, StrmOK

LEMMA StepNames ==
    /\ InOperate \subseteq Steps /\ Crashes \subseteq Steps
    /\ { "init", "no_context", "ready", "returned", "deinit", "gone" } \subseteq Steps
    /\ InBody \subseteq InOperate /\ "apm" \in InOperate /\ "apm" \notin InBody
    /\ (InOperate \cup { "init", "no_context", "ready" }) \cap
          (Crashes \cup { "returned", "deinit", "gone" }) = {}
    /\ { "open", "main_hdr", "sub_hdr" } \subseteq InOperate \ (InBody \cup { "apm" })
    /\ { "sub_hdr", "deinit" } \cap (InBody \cup { "apm" } \cup Crashes) = {}
    /\ { "strm", "decode" } \subseteq InBody
    /\ { "init", "no_context", "ready" } \cap InOperate = {}
  BY DEF Steps, InOperate, InBody, Parsing, Crashes

LEMMA BodyControl ==
    ASSUME Inv, BodyStep, StrmOK' PROVE Control' /\ RetStep
<1>1. /\ pc \in InBody /\ task' = task /\ main_hdr' = main_hdr /\ written' = written
      /\ at' = at /\ Asks(task, ADDTL)' = Asks(task, ADDTL)
      /\ \/ pc' \in InBody \cup { "apm" } /\ ret' = ret
         \/ pc' = "returned" /\ ret' \in Codes \ { "ok" }
         \/ pc' \in Crashes /\ ret' = ret
  BY DEF BodyStep, Asks, ADDTL
<1>2. ret = "none" /\ task \in Masks /\ Asks(task, ADDTL) /\ written = Written(1)
  BY <1>1, StepNames DEF Inv, Known
<1>3. pc' \in Steps /\ ret' \in Codes /\ pc' # "sub_hdr" /\ pc' # "deinit"
  BY <1>1, StepNames, InvScalars DEF Scalars
<1>4. Scalars'
  BY <1>1, <1>3, InvScalars DEF Scalars
<1>5. Known'
  BY <1>1, <1>2, <1>3, StepNames DEF Known
<1>6. Answered'
  BY <1>1, <1>2, StepNames DEF Answered
<1> QED
  BY <1>2, <1>3, <1>4, <1>5, <1>6 DEF Control, DeinitAt, RetStep

\* Steps that read no header and set no task, outside the body.
PlainActions ==
    \/ bract_wc3_init \/ InitFails \/ OpenFile \/ CutFile \/ bract_wc3_deinit
    \/ DeinitNull \/ Gone

LEMMA PlainIsControl == Inv /\ PlainActions => Control' /\ LoopStep /\ RetStep
<1> SUFFICES ASSUME Inv, PlainActions PROVE Control' /\ LoopStep /\ RetStep
  OBVIOUS
<1>1. /\ UNCHANGED <<task, main_hdr, written, strm, done>>
      /\ Asks(task, ADDTL)' = Asks(task, ADDTL)
      /\ pc \notin { "strm", "decode" }
      /\ \/ /\ pc = "init" /\ pc' \in { "ready", "no_context" } /\ ret' = ret /\ at' = at
         \/ /\ pc = "open" /\ pc' = "main_hdr" /\ ret' = ret /\ at' = at
         \/ /\ pc \in { "open", "main_hdr", "sub_hdr" } /\ pc' = "returned" /\ at' = at
            /\ ret' \in { "file_opening", "file_reading" }
         \/ /\ pc \in { "ready", "returned" } /\ pc' = "deinit" /\ ret' = ret /\ at' = 1
         \/ /\ pc \in { "no_context", "deinit" } /\ pc' \in { "null_read", "gone" }
            /\ ret' = ret /\ at' = at
  BY DEF PlainActions, bract_wc3_init, InitFails, OpenFile, CutFile, bract_wc3_deinit,
         DeinitNull, Gone, GoOn, Return, hdrs, data, Asks, ADDTL
<1>2. LoopStep
  BY <1>1 DEF LoopStep
<1>3. /\ pc' \in Steps /\ ret' \in Codes /\ at' \in 0..(Len(DeinitOrder) + 1)
      /\ pc' \notin InBody \cup { "apm", "sub_hdr" }
  BY <1>1, StepNames, InvScalars, OrderIs DEF Scalars, Codes, Crashes
<1>4. Scalars'
  BY <1>1, <1>3, InvScalars DEF Scalars, StrmOK
<1>5. ret = "none" \/ ret' = ret
  BY <1>1, StepNames DEF Inv, Known
<1>6. Known'
  <2>1. CASE pc' \in InOperate
    <3>1. pc = "open" /\ ret' = ret
      BY <1>1, <2>1, StepNames DEF Crashes
    <3> QED
      BY <1>1, <1>3, <2>1, <3>1, StepNames DEF Inv, Known
  <2>2. CASE pc' \notin InOperate
    <3>1. pc' \in { "init", "no_context", "ready" } => pc = "init" /\ ret' = ret
      BY <1>1
    <3> QED
      BY <1>3, <2>2, <3>1, StepNames DEF Inv, Known
  <2> QED
    BY <2>1, <2>2
<1>7. Answered' /\ DeinitAt'
  BY <1>1 DEF Answered, DeinitAt
<1> QED
  BY <1>1, <1>2, <1>4, <1>5, <1>6, <1>7 DEF Control, RetStep

LEMMA OperateControl ==
    ASSUME Inv, NEW t \in Tasks, bract_wc3_operate(t)
    PROVE  Control' /\ LoopStep /\ RetStep
<1>1. /\ UNCHANGED <<main_hdr, written, strm, done, at>> /\ pc = "ready"
      /\ \/ pc' = "open" /\ ret' = ret /\ task' = t /\ t \in Masks
         \/ pc' = "returned" /\ ret' = "task" /\ task' = task
  BY DEF bract_wc3_operate, check_task, GoOn, Return, data
<1>2. ret = "none"
  BY <1>1, StepNames DEF Inv, Known
<1>3. /\ pc' \in Steps /\ ret' \in Codes /\ task' \in { 0, 1, 3, 7 }
      /\ pc' \notin InBody \cup { "apm", "sub_hdr" }
  BY <1>1, StepNames, InvScalars DEF Scalars, Codes, Masks
<1>4. Scalars'
  BY <1>1, <1>3, InvScalars DEF Scalars, StrmOK
<1>5. Known'
  BY <1>1, <1>2, <1>3, StepNames DEF Known
<1> QED
  BY <1>1, <1>2, <1>4, <1>5 DEF Control, RetStep, LoopStep, Answered, DeinitAt

LEMMA MainHdrControl == Inv /\ read_rep_main_hdr => Control' /\ LoopStep /\ RetStep
<1> SUFFICES ASSUME Inv, read_rep_main_hdr PROVE Control' /\ LoopStep /\ RetStep
  OBVIOUS
<1>1. /\ UNCHANGED <<task, written, strm, done, at>> /\ pc = "main_hdr"
      /\ main_hdr' \in MainHdrs
      /\ \/ pc' = "sub_hdr" /\ ret' = ret /\ check_rep_main_hdr(main_hdr')
         \/ pc' = "returned" /\ ret' = "range"
  BY LifecycleAssumption DEF read_rep_main_hdr, GoOn, Return, data
<1>2. ret = "none" /\ task \in Masks
  BY <1>1, StepNames DEF Inv, Known
<1>3. pc' = "sub_hdr" => main_hdr'.sub_hdr_ver = 1
  BY <1>1, OnlyVersion1
<1>4. pc' \in Steps /\ ret' \in Codes /\ pc' \notin InBody \cup { "apm" }
  BY <1>1, StepNames, InvScalars DEF Scalars, Codes
<1>5. Scalars'
  BY <1>1, <1>4, InvScalars DEF Scalars, StrmOK
<1>6. Known'
  BY <1>1, <1>2, <1>3, <1>4, StepNames DEF Known
<1> QED
  BY <1>1, <1>2, <1>5, <1>6 DEF Control, RetStep, LoopStep, Answered, DeinitAt

LEMMA SubHdrControl == Inv /\ read_rep_sub_hdr => Control' /\ LoopStep /\ RetStep
<1> SUFFICES ASSUME Inv, read_rep_sub_hdr PROVE Control' /\ LoopStep /\ RetStep
  OBVIOUS
<1>1. /\ UNCHANGED <<task, main_hdr, strm, done, at>> /\ pc = "sub_hdr"
      /\ written' = Written(main_hdr.sub_hdr_ver)
      /\ \/ pc' = "returned" /\ ret' = "range"
         \/ pc' = "body" /\ ret' = ret /\ Asks(task, ADDTL)
         \/ pc' = "apm" /\ ret' = ret
  BY DEF read_rep_sub_hdr, GoOn, Return, data
<1>2. ret = "none" /\ task \in Masks /\ main_hdr.sub_hdr_ver = 1
  BY <1>1, StepNames DEF Inv, Known
<1>3. written' = Written(1) /\ Asks(task, ADDTL)' = Asks(task, ADDTL)
  BY <1>1, <1>2 DEF Asks, ADDTL
<1>4. "body" \in InBody /\ pc' \in Steps /\ ret' \in Codes
  BY <1>1, StepNames, InvScalars DEF Scalars, Codes, InBody
<1>5. Scalars'
  BY <1>1, <1>3, <1>4, InvScalars DEF Scalars, StrmOK
<1>6. Known'
  BY <1>1, <1>2, <1>3, <1>4, StepNames DEF Known
<1> QED
  BY <1>1, <1>2, <1>5, <1>6 DEF Control, RetStep, LoopStep, Answered, DeinitAt

LEMMA FinishControl == Inv /\ Finish => Control' /\ LoopStep /\ RetStep
<1> SUFFICES ASSUME Inv, Finish PROVE Control' /\ LoopStep /\ RetStep
  OBVIOUS
<1>1. /\ UNCHANGED <<task, main_hdr, written, ptr, strm, done, at>> /\ pc = "apm"
      /\ \/ pc' \in { "null_read", "wild" } /\ ret' = ret
         \/ pc' = "returned" /\ ret' = "ok"
  BY DEF Finish, GoOn, Return, hdrs, heap, data
<1>2. ret = "none" /\ written = Written(1) /\ (Asks(task, ADDTL) => Parsed \subseteq ptr)
  BY <1>1, StepNames DEF Inv, Known, PtrAt
<1>3. Asks(task, ADDTL)' = Asks(task, ADDTL)
  BY <1>1 DEF Asks, ADDTL
<1>4. /\ pc' \in Steps /\ ret' \in Codes
      /\ pc' \notin InOperate \cup { "init", "no_context", "ready" }
  BY <1>1, StepNames, InvScalars DEF Scalars, Codes, Crashes
<1>5. Scalars'
  BY <1>1, <1>4, InvScalars DEF Scalars, StrmOK
<1>6. Known'
  BY <1>4, StepNames DEF Known
<1>7. Answered'
  BY <1>1, <1>2, <1>3 DEF Answered
<1> QED
  BY <1>1, <1>2, <1>5, <1>6, <1>7 DEF Control, RetStep, LoopStep, DeinitAt

LEMMA FreeNextControl == Inv /\ FreeNext => Control' /\ LoopStep /\ RetStep
<1> SUFFICES ASSUME Inv, FreeNext PROVE Control' /\ LoopStep /\ RetStep
  OBVIOUS
<1>1. /\ UNCHANGED <<pc, ret, task, main_hdr, written, strm, done>> /\ pc = "deinit"
      /\ at <= Len(DeinitOrder) /\ at' = at + 1
  BY DEF FreeNext, Following, hdrs
<1>2. pc \notin InOperate \cup { "init", "no_context", "ready" }
  BY <1>1, StepNames
<1>3. Scalars'
  BY <1>1, InvScalars, OrderIs DEF Scalars, StrmOK
<1>4. Known' /\ Answered'
  BY <1>1, <1>2, StepNames DEF Known, Answered
<1> QED
  BY <1>1, <1>3, <1>4, FreeNextKeeps DEF Control, RetStep, LoopStep

LEMMA ControlStep == Inv /\ Next => Control' /\ LoopStep /\ RetStep
<1> SUFFICES ASSUME Inv, Next PROVE Control' /\ LoopStep /\ RetStep
  OBVIOUS
<1>1. CASE BodyActions
  BY <1>1, BodyIsBody, BodyStrm, BodyControl
<1> QED
  BY Zenon, <1>1, PlainIsControl, OperateControl, MainHdrControl, SubHdrControl,
     FinishControl, FreeNextControl
  DEF Next, Running, Operating, BodyActions, PlainActions

-----------------------------------------------------------------------------
(***************************************************************************)
(* The invariant.                                                          *)
(***************************************************************************)
LEMMA InvInit == Init => Inv
<1> SUFFICES ASSUME Init PROVE Inv
  OBVIOUS
<1>1. /\ pc = "init" /\ ret = "none" /\ task = 0 /\ main_hdr = NoHdr /\ written = {}
      /\ live = [r \in Resources |-> 0] /\ ptr = {}
      /\ sgmts = <<>> /\ done = 0 /\ strm = NoStrm /\ at = 0
  BY DEF Init
<1>2. live["sgmt"] = 0 /\ live["ecd_data"] = 0 /\ \A r \in Held : live[r] = 0
  BY <1>1, ResourcesAre
<1>3. <<>> \in Seq(DcdSizes) /\ Len(<<>>) = 0
  OBVIOUS
<1>4. Heap
  <2>1. live \in [Resources -> Nat]
    BY <1>1
  <2> QED
    BY <1>1, <1>2, <1>3, <2>1 DEF Heap
<1>5. NoHdr \in MainHdrs /\ NoStrm \in [len : Nat, cnt : Nat, lim : Nat]
  BY DEF NoHdr, NoStrm, MainHdrs, MagicIds
<1>6. TypeOK
  BY <1>1, <1>3, <1>4, <1>5, OrderIs DEF TypeOK, Heap, Steps, Codes
<1>7. Known /\ Answered /\ DeinitAt /\ DoneAt
  BY <1>1, <1>3, StepNames DEF Known, Answered, DeinitAt, DoneAt
<1>8. PtrAt /\ LostAt
  BY <1>1, <1>2 DEF PtrAt, LostAt, Loss
<1> QED
  BY <1>4, <1>6, <1>7, <1>8 DEF Inv

LEMMA LostStep ==
    ASSUME Inv, Loss' = Loss \/ SgmtBodyFails, RetStep
    PROVE  LostAt'
<1>1. CASE SgmtBodyFails
  <2>1. pc = "sgmt" /\ ret' = "file_reading" /\ task' = task
    BY <1>1 DEF SgmtBodyFails, Return, hdrs
  <2>2. Asks(task, ADDTL)
    BY <2>1 DEF Inv, Known, InBody
  <2>3. Asks(task, ADDTL)'
    BY <2>1, <2>2 DEF Asks, ADDTL
  <2> QED
    BY <2>1, <2>3 DEF LostAt
<1>2. CASE Loss' = Loss
  <2> SUFFICES ASSUME Loss' # 0 PROVE ret' = "file_reading" /\ Asks(task, ADDTL)'
    BY DEF LostAt
  <2>1. ret = "file_reading" /\ Asks(task, ADDTL)
    BY <1>2 DEF Inv, LostAt
  <2>2. ret' = ret /\ task' = task
    BY <2>1 DEF RetStep
  <2> QED
    BY <2>1, <2>2 DEF Asks, ADDTL
<1> QED
  BY <1>1, <1>2

LEMMA DoneStep ==
    ASSUME Inv, LoopStep, Heap'
    PROVE  DoneAt'
<1>1. /\ Len(sgmts) \in Nat /\ Len(sgmts') \in Nat /\ done \in Nat
      /\ pc \notin { "strm", "decode" } => done = 0
  BY DEF Inv, DoneAt, TypeOK, Heap
<1> QED
  BY <1>1 DEF LoopStep, DoneAt

LEMMA InvStep == Inv /\ [Next]_vars => Inv'
<1> SUFFICES ASSUME Inv, Next PROVE Inv'
  BY StutterKeeps
<1>1. Heap' /\ PtrAt' /\ Control' /\ LoopStep /\ RetStep
  BY HeapStep, ControlStep
<1>2. LostAt' /\ DoneAt'
  BY <1>1, HeapStep, LostStep, DoneStep
<1>3. TypeOK'
  BY <1>1, <1>2 DEF TypeOK, Heap, Control, Scalars, StrmOK, DoneAt
<1> QED
  BY <1>1, <1>2, <1>3 DEF Inv, Control

LEMMA InvAlways == Spec => []Inv
<1> QED
  BY InvInit, InvStep, PTL DEF Spec

-----------------------------------------------------------------------------

\* Every variable keeps its type; in particular no resource is freed more often than it
\* was allocated, for all headers, sizes and answers of malloc.
THEOREM TypeCorrect == Spec => []TypeOK
<1>1. Inv => TypeOK
  BY DEF Inv
<1> QED
  BY <1>1, InvAlways, PTL

\* A pointer is set exactly if there is something to free behind it and what holds it is
\* still there: behind every failure of operate, and at every step of deinit.
THEOREM PointersCorrect == Spec => []PointersMatch
<1>1. Inv => PointersMatch
  <2> SUFFICES ASSUME Inv PROVE PointersMatch
    OBVIOUS
  <2>1. live["sgmt"] \in Nat /\ live["ecd_data"] \in { live["sgmt"], live["sgmt"] + 1 }
    BY ResourcesAre DEF Inv, Heap
  <2>2. live["ecd_data"] = live["sgmt"] + Lost
    BY <2>1 DEF Lost
  <2> QED
    BY <2>2 DEF Inv, Heap, PointersMatch
<1> QED
  BY <1>1, InvAlways, PTL

\* bract_wc3_deinit leaves nothing behind but the data of one segment that was cut.
THEOREM FreedCorrect == Spec => []AllFreed
<1>1. Inv => AllFreed
  <2> SUFFICES ASSUME Inv, pc = "gone"
               PROVE  /\ \A r \in Resources \ { "ecd_data" } : live[r] = 0
                      /\ live["ecd_data"] <= 1
                      /\ live["ecd_data"] = 1 => ret = "file_reading" /\ Asks(task, ADDTL)
    BY DEF AllFreed
  <2>1. ptr = {} /\ sgmts = <<>>
    BY DEF Inv, PtrAt, Heap
  <2>2. \A r \in Held : live[r] = 0
    BY <2>1 DEF Inv, Heap
  <2>3. live["sgmt"] = 0
    BY <2>1 DEF Inv, Heap
  <2>4. live["ecd_data"] \in { 0, 1 }
    BY <2>3 DEF Inv, Heap
  <2>5. \A r \in Resources \ { "ecd_data" } : r \in Held \/ r = "sgmt"
    BY DEF Resources
  <2>6. live["ecd_data"] = 1 => ret = "file_reading" /\ Asks(task, ADDTL)
    BY <2>3 DEF Inv, LostAt, Loss
  <2> QED
    BY <2>2, <2>3, <2>4, <2>5, <2>6
<1> QED
  BY <1>1, InvAlways, PTL

\* After a success every answer that the task covers is there (bract_wc3_get...).
THEOREM AnswersCorrect == Spec => []AnswersReady
<1>1. Inv => AnswersReady
  <2> SUFFICES ASSUME Inv, NEW q \in Questions, MayAsk(q) PROVE Ready(q)
    BY DEF AnswersReady
  <2>1. written = Written(1) /\ (Asks(task, ADDTL) => Parsed \subseteq ptr)
    BY DEF Inv, Answered, MayAsk
  <2>2. \A f \in { "rls", "patch_ver", "build", "rep_len_ms" } : f \in written
    BY <2>1 DEF Written
  <2>3. q \in DOMAIN FieldOf => FieldOf[q] \in { "rls", "patch_ver", "build", "rep_len_ms" }
    BY DEF FieldOf
  <2>4. Needs[q] \subseteq ptr
    <3>1. CASE q \in { "rlsver", "patchver", "build", "replen" }
      <4>1. Needs[q] = {}
        BY <3>1 DEF Needs, Questions
      <4> QED
        BY <4>1
    <3>2. CASE q \in { "mappath", "mapposcnt", "joiners", "msgs" }
      <4>1. Asks(task, ADDTL)
        BY <3>2 DEF MayAsk, TaskOf
      <4>2. Needs[q] \subseteq Parsed
        BY <3>2 DEF Needs, Questions, Parsed
      <4> QED
        BY <2>1, <4>1, <4>2
    <3> QED
      BY <3>1, <3>2 DEF Questions
  <2> QED
    BY <2>2, <2>3, <2>4 DEF Ready
<1> QED
  BY <1>1, InvAlways, PTL

\* eval_apm gets a table of joiners whenever it is called (check_task).
THEOREM ApmCorrect == Spec => []ApmHasJoiners
<1>1. Inv => ApmHasJoiners
  <2> SUFFICES ASSUME Inv, pc = "apm", Asks(task, APM) PROVE "joiner_tbl" \in ptr
    BY DEF ApmHasJoiners
  <2>1. task \in Masks
    BY DEF Inv, Known, InOperate
  <2>2. Asks(task, ADDTL)
    BY <2>1, ApmAsksAddtl
  <2> QED
    BY <2>2 DEF Inv, PtrAt, Parsed
<1> QED
  BY <1>1, InvAlways, PTL
-----------------------------------------------------------------------------
(***************************************************************************)
(* The stream and the segments it is decoded from.                         *)
(*                                                                         *)
(* strm_len and decode_sgmts each add up the sizes of the segments, and    *)
(* what they have after as many turns is the same.  A sum over a sequence  *)
(* would take an induction; that there are sums, one for every number of   *)
(* segments, is an invariant that grows with the table.                    *)
(***************************************************************************)

\* sums[k] is the sum of the first k members of s.
SumsOf(sums, s) ==
    /\ sums \in [0..Len(s) -> Nat] /\ sums[0] = 0
    /\ \A k \in 1..Len(s) : sums[k] = sums[k - 1] + s[k]

\* Steps before the lengths are added up, steps behind the decoder, and the others.
Unread   == { "init", "ready", "open", "main_hdr", "sub_hdr", "body", "sgmt_tbl", "sgmt" }
Refining == { "rfnd" } \cup Parsing
Outside  == { "no_context", "apm", "returned", "deinit", "gone" } \cup Crashes

StrmAt(sums) ==
    /\ pc \in Unread => strm = NoStrm
    /\ pc = "strm" => strm.len = sums[done] /\ strm.cnt = 0
    /\ pc = "decode" => strm.len = sums[Len(sgmts)] /\ strm.cnt = sums[done]
    /\ pc \in Refining => strm.cnt = strm.len /\ strm.lim = main_hdr.dcd_data_size

LimInv == \E sums : SumsOf(sums, sgmts) /\ StrmAt(sums)

LEMMA SumsEmpty == SumsOf([k \in 0..0 |-> 0], <<>>)
  BY DEF SumsOf

\* The sums grow with the sequence.
LEMMA SumsAppend ==
    ASSUME NEW s \in Seq(Nat), NEW n \in Nat, NEW sums, SumsOf(sums, s)
    PROVE  \E more : SumsOf(more, Append(s, n))
<1> DEFINE l    == Len(s)
           more == [k \in 0..(l + 1) |-> IF k = l + 1 THEN sums[l] + n ELSE sums[k]]
           t    == Append(s, n)
<1>1. l \in Nat /\ Len(t) = l + 1 /\ t[l + 1] = n /\ \A k \in 1..l : t[k] = s[k]
  OBVIOUS
<1>2. sums \in [0..l -> Nat] /\ sums[0] = 0 /\ \A k \in 1..l : sums[k] = sums[k - 1] + s[k]
  BY DEF SumsOf
<1> HIDE DEF l, t
<1>3. \A k \in 0..l : sums[k] \in Nat
  BY <1>2
<1>4. sums[l] + n \in Nat
  BY <1>1, <1>3
<1>5. more \in [0..(l + 1) -> Nat]
  <2> SUFFICES ASSUME NEW k \in 0..(l + 1)
               PROVE  (IF k = l + 1 THEN sums[l] + n ELSE sums[k]) \in Nat
    OBVIOUS
  <2>1. k = l + 1 \/ k \in 0..l
    BY <1>1
  <2> QED
    BY <1>3, <1>4, <2>1
<1>6. more[l + 1] = sums[l] + n /\ \A k \in 0..l : more[k] = sums[k]
  BY <1>1
<1> HIDE DEF more
<1>7. \A k \in 1..(l + 1) : more[k] = more[k - 1] + t[k]
  <2> SUFFICES ASSUME NEW k \in 1..(l + 1) PROVE more[k] = more[k - 1] + t[k]
    OBVIOUS
  <2>1. CASE k = l + 1
    <3>1. k - 1 = l /\ l \in 0..l
      BY <1>1, <2>1
    <3> QED
      BY <1>1, <1>6, <2>1, <3>1
  <2>2. CASE k \in 1..l
    <3>1. k \in 0..l /\ k - 1 \in 0..l
      BY <1>1, <2>2
    <3> QED
      BY <1>1, <1>2, <1>6, <2>2, <3>1
  <2> QED
    BY <1>1, <2>1, <2>2
<1>8. more[0] = 0
  BY <1>1, <1>2, <1>6
<1> QED
  BY <1>1, <1>5, <1>7, <1>8 DEF SumsOf, t

LEMMA SumsStep ==
    ASSUME NEW s \in Seq(Nat), NEW sums, SumsOf(sums, s), NEW k \in 0..(Len(s) - 1)
    PROVE  sums[k + 1] = sums[k] + s[k + 1]
<1>1. k + 1 \in 1..Len(s) /\ (k + 1) - 1 = k
  OBVIOUS
<1> QED
  BY <1>1 DEF SumsOf

\* The stream and the segments stay as they are, and so does the part of operate.
Quiet ==
    /\ UNCHANGED <<sgmts, done, strm>>
    /\ \/ pc' \in Outside
       \/ pc \in Unread /\ pc' \in Unread
       \/ pc \in Refining /\ pc' \in Refining /\ main_hdr' = main_hdr

LEMMA QuietKeeps == LimInv /\ Quiet => LimInv'
<1> SUFFICES ASSUME LimInv, Quiet PROVE LimInv'
  OBVIOUS
<1>1. PICK sums : SumsOf(sums, sgmts) /\ StrmAt(sums)
  BY DEF LimInv
<1>2. SumsOf(sums, sgmts')
  BY <1>1 DEF Quiet
<1>3. StrmAt(sums)'
  BY <1>1 DEF Quiet, StrmAt, Unread, Refining, Outside, Parsing, Crashes
<1> QED
  BY <1>2, <1>3 DEF LimInv

LEMMA QuietHeaders ==
    \/ bract_wc3_init \/ InitFails \/ OpenFile \/ CutFile \/ read_rep_main_hdr
    \/ read_rep_sub_hdr \/ AllocBody \/ AllocSgmtTbl \/ SgmtFails \/ SgmtBodyFails
    => Quiet
<1> USE DEF Quiet, GoOn, Return, Unread, Outside, Crashes, data
<1>1. bract_wc3_init \/ InitFails \/ OpenFile \/ CutFile => Quiet
  BY DEF bract_wc3_init, InitFails, OpenFile, CutFile
<1>2. read_rep_main_hdr \/ read_rep_sub_hdr => Quiet
  BY DEF read_rep_main_hdr, read_rep_sub_hdr
<1>3. AllocBody \/ AllocSgmtTbl => Quiet
  BY DEF AllocBody, AllocSgmtTbl
<1>4. SgmtFails => Quiet
  BY DEF SgmtFails
<1>5. SgmtBodyFails => Quiet
  BY DEF SgmtBodyFails
<1> QED
  BY <1>1, <1>2, <1>3, <1>4, <1>5

LEMMA QuietParsing ==
    \/ AllocRfnd \/ AllocPrsnTbl \/ join_scrn_blk_alloc \/ save_static_blk_seq
    \/ AllocJoinerTbl \/ FormJoiners \/ AllocList("chat_ls", "action_ls")
    \/ AllocList("action_ls", "dynamic") \/ ReadBehindStrm \/ Finish
    => Quiet
<1> USE DEF Quiet, GoOn, Return, Refining, Parsing, Outside, Crashes, data, hdrs
<1>1. AllocRfnd \/ AllocPrsnTbl => Quiet
  BY DEF AllocRfnd, AllocPrsnTbl
<1>2. join_scrn_blk_alloc \/ save_static_blk_seq => Quiet
  BY DEF join_scrn_blk_alloc, save_static_blk_seq
<1>3. AllocJoinerTbl \/ FormJoiners => Quiet
  BY DEF AllocJoinerTbl, FormJoiners
<1>4. AllocList("chat_ls", "action_ls") \/ AllocList("action_ls", "dynamic") => Quiet
  BY DEF AllocList
<1>5. ReadBehindStrm \/ Finish => Quiet
  BY DEF ReadBehindStrm, Finish
<1> QED
  BY <1>1, <1>2, <1>3, <1>4, <1>5

LEMMA QuietCalls ==
    (\E t \in Tasks : bract_wc3_operate(t)) \/ bract_wc3_deinit \/ DeinitNull \/ Gone => Quiet
<1> USE DEF Quiet, GoOn, Return, Unread, Outside, Crashes, data
<1>1. ASSUME NEW t \in Tasks, bract_wc3_operate(t) PROVE Quiet
  BY <1>1 DEF bract_wc3_operate
<1>2. bract_wc3_deinit \/ DeinitNull \/ Gone => Quiet
  BY DEF bract_wc3_deinit, DeinitNull, Gone
<1> QED
  BY <1>1, <1>2

\* The sums of a table that is freed or grows, with no claim on the stream.
LEMMA OutsideKeeps ==
    ASSUME NEW sums, SumsOf(sums, sgmts), pc' \in Outside, sgmts' \in { sgmts, <<>> }
    PROVE  LimInv'
<1>1. \E other : SumsOf(other, sgmts')
  BY SumsEmpty
<1>2. \A other : StrmAt(other)'
  BY DEF StrmAt, Unread, Refining, Outside, Parsing, Crashes
<1> QED
  BY <1>1, <1>2 DEF LimInv

\* The sizes of segments are numbers.
LEMMA SizesAreNumbers == Inv => sgmts \in Seq(Nat)
<1> SUFFICES ASSUME Inv PROVE sgmts \in Seq(Nat)
  OBVIOUS
<1>1. sgmts \in Seq(DcdSizes) /\ DcdSizes \subseteq Nat
  BY LifecycleAssumption DEF Inv, TypeOK
<1> QED
  BY <1>1, SeqMonotonic

LEMMA LimReadSgmt == Inv /\ LimInv /\ ReadSgmt => LimInv'
<1> SUFFICES ASSUME Inv, LimInv, ReadSgmt PROVE LimInv'
  OBVIOUS
<1>1. PICK sums : SumsOf(sums, sgmts) /\ StrmAt(sums)
  BY DEF LimInv
<1>2. PICK size \in DcdSizes : sgmts' = Append(sgmts, size)
  BY DEF ReadSgmt
<1>3. sgmts \in Seq(Nat) /\ size \in Nat
  BY LifecycleAssumption, SizesAreNumbers
<1>4. PICK more : SumsOf(more, sgmts')
  BY <1>1, <1>2, <1>3, SumsAppend
<1>5. pc = "sgmt" /\ pc' = pc /\ strm' = strm
  BY DEF ReadSgmt
<1>6. StrmAt(more)'
  BY <1>1, <1>5 DEF StrmAt, Unread, Refining, Parsing
<1> QED
  BY <1>4, <1>6 DEF LimInv

LEMMA LimCloseFile == Inv /\ LimInv /\ CloseFile => LimInv'
<1> SUFFICES ASSUME Inv, LimInv, CloseFile PROVE LimInv'
  OBVIOUS
<1>1. PICK sums : SumsOf(sums, sgmts) /\ StrmAt(sums)
  BY DEF LimInv
<1>2. pc = "sgmt" /\ pc' = "strm" /\ strm' = strm /\ done' = done /\ sgmts' = sgmts
  BY DEF CloseFile, GoOn, data
<1>3. done = 0 /\ strm = NoStrm /\ sums[0] = 0
  BY <1>1, <1>2 DEF Inv, DoneAt, StrmAt, Unread, SumsOf
<1>4. StrmAt(sums)'
  BY <1>2, <1>3 DEF StrmAt, Unread, Refining, Parsing, NoStrm
<1> QED
  BY <1>1, <1>2, <1>4 DEF LimInv

\* The turns of the two loops.
LEMMA LimTurn == Inv /\ LimInv /\ (strm_len \/ DecodeSgmt) => LimInv'
<1> SUFFICES ASSUME Inv, LimInv, strm_len \/ DecodeSgmt PROVE LimInv'
  OBVIOUS
<1>1. PICK sums : SumsOf(sums, sgmts) /\ StrmAt(sums)
  BY DEF LimInv
<1>2. /\ pc' = pc /\ sgmts' = sgmts /\ done' = done + 1 /\ done < Len(sgmts)
  BY DEF strm_len, DecodeSgmt
<1>3. sgmts \in Seq(Nat) /\ done \in 0..(Len(sgmts) - 1)
  <2>1. sgmts \in Seq(Nat) /\ Len(sgmts) \in Nat /\ done \in Nat
    BY SizesAreNumbers DEF Inv, TypeOK
  <2> QED
    BY <1>2, <2>1
<1>4. sums[done'] = sums[done] + sgmts[done + 1]
  BY <1>1, <1>2, <1>3, SumsStep
<1>5. strm \in [len : Nat, cnt : Nat, lim : Nat]
  BY DEF Inv, TypeOK
<1>6. CASE strm_len
  <2>1. pc = "strm" /\ strm.len = sums[done] /\ strm.cnt = 0
    BY <1>1, <1>6 DEF strm_len, StrmAt
  <2>2. strm' = [strm EXCEPT !.len = @ + sgmts[done + 1]]
    BY <1>6 DEF strm_len
  <2>3. strm'.len = sums[done'] /\ strm'.cnt = 0
    BY <1>4, <1>5, <2>1, <2>2
  <2> QED
    BY <1>1, <1>2, <2>1, <2>3 DEF LimInv, StrmAt, Unread, Refining, Parsing
<1>7. CASE DecodeSgmt
  <2>1. pc = "decode" /\ strm.len = sums[Len(sgmts)] /\ strm.cnt = sums[done]
    BY <1>1, <1>7 DEF DecodeSgmt, StrmAt
  <2>2. strm' = [strm EXCEPT !.cnt = @ + sgmts[done + 1]]
    BY <1>7 DEF DecodeSgmt, Filled
  <2>3. strm'.len = sums[Len(sgmts')] /\ strm'.cnt = sums[done']
    BY <1>2, <1>4, <1>5, <2>1, <2>2
  <2> QED
    BY <1>1, <1>2, <2>1, <2>3 DEF LimInv, StrmAt, Unread, Refining, Parsing
<1> QED
  BY <1>6, <1>7

LEMMA LimPrepStrm == Inv /\ LimInv /\ PrepStrm => LimInv'
<1> SUFFICES ASSUME Inv, LimInv, PrepStrm PROVE LimInv'
  OBVIOUS
<1>1. PICK sums : SumsOf(sums, sgmts) /\ StrmAt(sums)
  BY DEF LimInv
<1>2. pc = "strm" /\ done = Len(sgmts) /\ done' = 0 /\ sgmts' = sgmts
  BY DEF PrepStrm
<1>3. strm.len = sums[Len(sgmts)] /\ strm.cnt = 0 /\ sums[0] = 0
  BY <1>1, <1>2 DEF StrmAt, SumsOf
<1>4. CASE pc' = "decode" /\ strm' = [strm EXCEPT !.lim = strm.len]
  <2>1. strm \in [len : Nat, cnt : Nat, lim : Nat]
    BY DEF Inv, TypeOK
  <2>2. strm'.len = sums[Len(sgmts')] /\ strm'.cnt = sums[done']
    BY <1>2, <1>3, <1>4, <2>1
  <2> QED
    BY <1>1, <1>2, <1>4, <2>2 DEF LimInv, StrmAt, Unread, Refining, Parsing
<1>5. CASE pc' = "returned"
  BY <1>1, <1>2, <1>5, OutsideKeeps DEF Outside
<1> QED
  BY <1>4, <1>5 DEF PrepStrm, GoOn, Return

\* When the last segment is decoded both sums are of the whole table.
LEMMA LimDecodedStep == Inv /\ LimInv /\ Decoded => LimInv'
<1> SUFFICES ASSUME Inv, LimInv, Decoded PROVE LimInv'
  OBVIOUS
<1>1. PICK sums : SumsOf(sums, sgmts) /\ StrmAt(sums)
  BY DEF LimInv
<1>2. /\ pc = "decode" /\ pc' = "rfnd" /\ done = Len(sgmts) /\ sgmts' = <<>>
      /\ strm' = [strm EXCEPT !.lim = main_hdr.dcd_data_size] /\ main_hdr' = main_hdr
  BY DEF Decoded, GoOn, hdrs
<1>3. strm.cnt = strm.len /\ strm \in [len : Nat, cnt : Nat, lim : Nat]
  BY <1>1, <1>2 DEF StrmAt, Inv, TypeOK
<1>4. strm'.cnt = strm'.len /\ strm'.lim = main_hdr'.dcd_data_size
  BY <1>2, <1>3
<1>5. \A other : StrmAt(other)'
  BY <1>2, <1>4 DEF StrmAt, Unread, Refining, Parsing
<1> QED
  BY <1>2, <1>5, SumsEmpty DEF LimInv

\* The steps behind which nothing is claimed of the stream.
LEMMA LimOutside ==
    LimInv /\ (DecodeFails \/ save_dyn_blk_seq \/ FreeNext) => LimInv'
<1> SUFFICES ASSUME LimInv, DecodeFails \/ save_dyn_blk_seq \/ FreeNext PROVE LimInv'
  OBVIOUS
<1>1. PICK sums : SumsOf(sums, sgmts)
  BY DEF LimInv
<1>2. pc' \in Outside
  BY DEF DecodeFails, save_dyn_blk_seq, FreeNext, GoOn, Return, Outside, Crashes
<1>3. sgmts' \in { sgmts, <<>> }
  BY DEF DecodeFails, save_dyn_blk_seq, FreeNext
<1> QED
  BY <1>1, <1>2, <1>3, OutsideKeeps

LEMMA LimInit == Init => LimInv
<1> SUFFICES ASSUME Init PROVE LimInv
  OBVIOUS
<1>1. pc = "init" /\ strm = NoStrm /\ sgmts = <<>>
  BY DEF Init
<1>2. \A sums : StrmAt(sums)
  BY <1>1 DEF StrmAt, Unread, Refining, Parsing
<1> QED
  BY <1>1, <1>2, SumsEmpty DEF LimInv

LEMMA LimStep == Inv /\ LimInv /\ [Next]_vars => LimInv'
<1> SUFFICES ASSUME Inv, LimInv, [Next]_vars PROVE LimInv'
  OBVIOUS
<1>1. CASE Operating
  BY <1>1, QuietKeeps, QuietHeaders, QuietParsing, LimReadSgmt, LimCloseFile, LimTurn,
     LimPrepStrm, LimDecodedStep, LimOutside DEF Operating
<1>2. CASE bract_wc3_init \/ InitFails \/ Gone
  BY <1>2, QuietKeeps, QuietHeaders, QuietCalls
<1>3. CASE FreeNext
  BY <1>3, LimOutside
<1>4. CASE (\E t \in Tasks : bract_wc3_operate(t)) \/ bract_wc3_deinit \/ DeinitNull
  BY <1>4, QuietKeeps, QuietCalls
<1>5. CASE UNCHANGED vars
  <2>1. UNCHANGED <<pc, sgmts, done, strm, main_hdr>>
    BY <1>5 DEF vars
  <2> QED
    BY <2>1 DEF LimInv, StrmAt
<1> QED
  BY <1>1, <1>2, <1>3, <1>4, <1>5 DEF Next, Running

\* Nothing before lim is unwritten when the parsers start, unless the main header
\* promised more than the segments hold (decode_sgmts, bract_wc3_operate).
THEOREM LimCorrect == Spec => []LimDecoded
<1>1. Inv /\ LimInv => LimDecoded
  <2> SUFFICES ASSUME Inv, LimInv, pc \in Parsing, main_hdr.dcd_data_size <= strm.len
               PROVE  strm.lim <= strm.cnt
    BY DEF LimDecoded
  <2>1. strm.cnt = strm.len /\ strm.lim = main_hdr.dcd_data_size
    BY DEF LimInv, StrmAt, Refining
  <2> QED
    BY <2>1
<1>2. Spec => []LimInv
  BY LimInit, LimStep, InvAlways, PTL DEF Spec
<1> QED
  BY <1>1, <1>2, InvAlways, PTL

-----------------------------------------------------------------------------
(***************************************************************************)
(* A context comes to an end.                                              *)
(***************************************************************************)

\* A step to a later stage.
Later == Stage[pc'] > Stage[pc]

\* A turn of a loop, which leaves fewer of them.
OneTurnLess == pc' = pc /\ TurnsLeft' \in Nat /\ TurnsLeft' < TurnsLeft

LEMMA StageIs ==
    /\ Stage["init"] = 0 /\ Stage["no_context"] = 1 /\ Stage["ready"] = 1
    /\ Stage["open"] = 2 /\ Stage["main_hdr"] = 3 /\ Stage["sub_hdr"] = 4
    /\ Stage["body"] = 5 /\ Stage["sgmt_tbl"] = 6 /\ Stage["sgmt"] = 7
    /\ Stage["strm"] = 8 /\ Stage["decode"] = 9 /\ Stage["rfnd"] = 10
    /\ Stage["prsn_tbl"] = 11 /\ Stage["join_scrn_blk"] = 12 /\ Stage["static"] = 13
    /\ Stage["joiner_tbl"] = 14 /\ Stage["joiners"] = 15 /\ Stage["chat_ls"] = 16
    /\ Stage["action_ls"] = 17 /\ Stage["dynamic"] = 18 /\ Stage["apm"] = 19
    /\ Stage["returned"] = 20 /\ Stage["deinit"] = 21 /\ Stage["gone"] = 22
    /\ \A crash \in Crashes : Stage[crash] = 22
  BY DEF Stage, Crashes

LEMMA LaterStart ==
    \/ bract_wc3_init \/ InitFails \/ (\E t \in Tasks : bract_wc3_operate(t))
    \/ bract_wc3_deinit \/ DeinitNull \/ Gone
    => Later
<1> USE StageIs DEF Later, GoOn, Return, Crashes
<1>1. bract_wc3_init \/ InitFails => Later
  BY DEF bract_wc3_init, InitFails
<1>2. ASSUME NEW t \in Tasks, bract_wc3_operate(t) PROVE Later
  BY <1>2 DEF bract_wc3_operate
<1>3. bract_wc3_deinit => Later
  BY DEF bract_wc3_deinit
<1>4. DeinitNull \/ Gone => Later
  BY DEF DeinitNull, Gone
<1> QED
  BY <1>1, <1>2, <1>3, <1>4

LEMMA LaterFile ==
    \/ OpenFile \/ CutFile \/ read_rep_main_hdr \/ read_rep_sub_hdr \/ AllocBody
    \/ AllocSgmtTbl \/ SgmtFails \/ SgmtBodyFails \/ CloseFile \/ PrepStrm
    \/ DecodeFails \/ Decoded
    => Later
<1> USE StageIs DEF Later, GoOn, Return, Crashes
<1>1. OpenFile \/ CutFile => Later
  BY DEF OpenFile, CutFile
<1>2. read_rep_main_hdr => Later
  BY DEF read_rep_main_hdr
<1>3. read_rep_sub_hdr => Later
  BY DEF read_rep_sub_hdr
<1>4. AllocBody \/ AllocSgmtTbl => Later
  BY DEF AllocBody, AllocSgmtTbl
<1>5. SgmtFails \/ SgmtBodyFails \/ CloseFile => Later
  BY DEF SgmtFails, SgmtBodyFails, CloseFile
<1>6. PrepStrm \/ DecodeFails => Later
  BY DEF PrepStrm, DecodeFails
<1>7. Decoded => Later
  BY DEF Decoded
<1> QED
  BY <1>1, <1>2, <1>3, <1>4, <1>5, <1>6, <1>7

LEMMA LaterParsing ==
    \/ AllocRfnd \/ AllocPrsnTbl \/ join_scrn_blk_alloc \/ save_static_blk_seq
    \/ AllocJoinerTbl \/ FormJoiners \/ AllocList("chat_ls", "action_ls")
    \/ AllocList("action_ls", "dynamic") \/ save_dyn_blk_seq \/ ReadBehindStrm \/ Finish
    => Later
<1> USE StageIs DEF Later, GoOn, Return, Crashes
<1>1. AllocRfnd \/ AllocPrsnTbl => Later
  BY DEF AllocRfnd, AllocPrsnTbl
<1>2. join_scrn_blk_alloc \/ save_static_blk_seq => Later
  BY DEF join_scrn_blk_alloc, save_static_blk_seq
<1>3. AllocJoinerTbl \/ FormJoiners => Later
  BY DEF AllocJoinerTbl, FormJoiners
<1>4. AllocList("chat_ls", "action_ls") \/ AllocList("action_ls", "dynamic") => Later
  BY DEF AllocList
<1>5. save_dyn_blk_seq => Later
  BY DEF save_dyn_blk_seq
<1>6. ReadBehindStrm => Later
  BY DEF ReadBehindStrm
<1>7. Finish => Later
  BY DEF Finish
<1> QED
  BY <1>1, <1>2, <1>3, <1>4, <1>5, <1>6, <1>7

LEMMA TurnsOfLoops ==
    Inv /\ (ReadSgmt \/ strm_len \/ DecodeSgmt \/ FreeNext) => OneTurnLess
<1> SUFFICES ASSUME Inv, ReadSgmt \/ strm_len \/ DecodeSgmt \/ FreeNext PROVE OneTurnLess
  OBVIOUS
<1>1. /\ Len(sgmts) \in Nat /\ done \in Nat /\ at \in Nat
      /\ main_hdr.ecd_sgmt_cnt \in Nat /\ Len(DeinitOrder) = 14
  <2>1. TypeOK
    BY DEF Inv
  <2>2. Len(DeinitOrder) = 14
    BY OrderIs
  <2>3. Len(sgmts) \in Nat
    BY <2>1, LenProperties DEF TypeOK
  <2>4. done \in Nat /\ at \in Nat
    BY <2>1, <2>2, <2>3 DEF TypeOK
  <2>5. main_hdr.ecd_sgmt_cnt \in Nat
    BY <2>1 DEF TypeOK, MainHdrs
  <2> QED
    BY <2>2, <2>3, <2>4, <2>5
<1>2. CASE ReadSgmt
  <2>1. /\ pc = "sgmt" /\ pc' = "sgmt" /\ main_hdr' = main_hdr
        /\ Len(sgmts) < main_hdr.ecd_sgmt_cnt
    BY <1>2 DEF ReadSgmt, hdrs
  <2>2. Len(sgmts') = Len(sgmts) + 1
    <3>1. PICK size \in DcdSizes : sgmts' = Append(sgmts, size)
      BY <1>2 DEF ReadSgmt
    <3> QED
      BY <3>1 DEF Inv, TypeOK
  <2>3. /\ TurnsLeft = main_hdr.ecd_sgmt_cnt - Len(sgmts)
        /\ TurnsLeft' = main_hdr.ecd_sgmt_cnt - (Len(sgmts) + 1)
    BY <2>1, <2>2 DEF TurnsLeft
  <2> QED
    BY <1>1, <2>1, <2>3 DEF OneTurnLess
<1>3. CASE strm_len \/ DecodeSgmt
  <2>1. /\ pc \in { "strm", "decode" } /\ pc' = pc /\ sgmts' = sgmts
        /\ done' = done + 1 /\ done < Len(sgmts)
    BY <1>3 DEF strm_len, DecodeSgmt
  <2>2. TurnsLeft = Len(sgmts) - done /\ TurnsLeft' = Len(sgmts) - (done + 1)
    BY <2>1 DEF TurnsLeft
  <2> QED
    BY <1>1, <2>1, <2>2 DEF OneTurnLess
<1>4. CASE FreeNext
  <2>1. pc = "deinit" /\ pc' = "deinit" /\ at' = at + 1 /\ at <= 14
    BY <1>1, <1>4 DEF FreeNext, Following
  <2>2. TurnsLeft = 15 - at /\ TurnsLeft' = 15 - (at + 1)
    BY <1>1, <2>1 DEF TurnsLeft
  <2> QED
    BY <1>1, <2>1, <2>2 DEF OneTurnLess
<1> QED
  BY <1>2, <1>3, <1>4

\* A context gets on with every step, for any number of segments and whatever fails.
THEOREM AdvancesCorrect == Spec => Advances
<1>1. Inv /\ [Next]_vars => [Later \/ OneTurnLess]_vars
  <2> SUFFICES ASSUME Inv, Next PROVE Later \/ OneTurnLess
    OBVIOUS
  <2>1. CASE Operating
    BY <2>1, LaterFile, LaterParsing, TurnsOfLoops DEF Operating
  <2>2. CASE FreeNext
    BY <2>2, TurnsOfLoops
  <2>3. CASE bract_wc3_init \/ InitFails \/ Gone
    BY <2>3, LaterStart
  <2>4. CASE (\E t \in Tasks : bract_wc3_operate(t)) \/ bract_wc3_deinit \/ DeinitNull
    BY <2>4, LaterStart
  <2> QED
    BY <2>1, <2>2, <2>3, <2>4 DEF Next, Running
<1> QED
  BY <1>1, InvAlways, PTL DEF Spec, Advances, Later, OneTurnLess
=============================================================================
