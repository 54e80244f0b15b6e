---------------------------- MODULE ClientsProofs ----------------------------
(***************************************************************************)
(* Proofs about Clients for all command lines and request flags: a client  *)
(* does nothing to the library that Lifecycle does not allow, so that what *)
(* is proved of Lifecycle holds of it with its clients; the tool asks for  *)
(* nothing that is not there; and its exit status says what it printed.    *)
(*                                                                         *)
(* The invariant follows the tool from its arguments over the library to   *)
(* its end: what was requested is in req, lines are printed only after a   *)
(* success, and the tool lets go only when nothing is left to print.       *)
(***************************************************************************)
EXTENDS Clients, LifecycleProofs

\* What the tool knows at each of its steps.
AtStep ==
    /\ step = "args" => asked = {} /\ status = "none"
    /\ step = "args" /\ who = "tool" => pc = "init"
    /\ step = "lib" => ~help
    /\ step # "end" <=> status = "none"

\* Another client gives no options and prints nothing.
OtherClient == who = "other" => step = "args" /\ opts = <<>>

\* What the options request is in the flags.
Flagged == Requested \subseteq req

\* The tool asks for all tasks, and operate succeeds only with a task.
TaskAt ==
    /\ who = "tool" => task \in { 0, AllTasks }
    /\ pc = "returned" /\ ret = "ok" => task \in Masks

\* Lines are printed only when operate succeeded.
PrintedAt == asked # {} => ret = "ok" /\ pc \in { "returned", "deinit", "gone" }

\* The tool lets go of a context that can answer when all requests are printed.
LetsGo == who = "tool" /\ ret = "ok" /\ pc \in { "deinit", "gone" } => req \subseteq asked

\* A success without help is the end of a whole run; a failure printed nothing.
AtEnd ==
    /\ status = "success" /\ ~help => pc = "gone" /\ ret = "ok"
    /\ status = "failure" => asked = {}

CInv ==
    /\ CTypeOK /\ AtStep /\ OtherClient /\ Flagged /\ TaskAt /\ PrintedAt /\ LetsGo /\ AtEnd

-----------------------------------------------------------------------------
(***************************************************************************)
(* The library with its clients does what Lifecycle allows.                *)
(***************************************************************************)

LEMMA CInitIsInit == CInit => Init
  BY DEF CInit

\* The task of the tool is one that a client may pass.
LEMMA CallIsNext == Call => Next
<1>1. AllTasks \in Tasks
  BY ClientsAssumption DEF AllTasks
<1> QED
  BY <1>1 DEF Call, Next

LEMMA DeinitIsNext == Deinit \/ NoContext => Next
  BY DEF Deinit, NoContext, Next

LEMMA TheRestIsStutter == proc_args \/ PrintNext \/ Exit \/ Ended => UNCHANGED vars
<1>1. proc_args => UNCHANGED vars
  BY DEF proc_args, Option, UnknownOption, Help, NoFile, File, library
<1>2. PrintNext \/ Exit => UNCHANGED vars
  BY DEF PrintNext, Exit, library
<1>3. Ended => UNCHANGED vars
  BY DEF Ended, all_vars
<1> QED
  BY <1>1, <1>2, <1>3

\* Every step of the library and a client is one of Lifecycle, or none: a client that
\* keeps to the asserts cannot do more to a context than Lifecycle reckons with.
THEOREM ClientsKeepLifecycle == CSpec => Spec
<1>1. [CNext]_all_vars => [Next]_vars
  <2>1. CNext => Next \/ UNCHANGED vars
    BY CallIsNext, DeinitIsNext, TheRestIsStutter DEF CNext
  <2>2. UNCHANGED all_vars => UNCHANGED vars
    BY DEF all_vars
  <2> QED
    BY <2>1, <2>2
<1> QED
  BY <1>1, CInitIsInit, PTL DEF CSpec, Spec

\* What is proved of Lifecycle holds of the library under any of its clients.
THEOREM LibraryCorrect ==
    CSpec => /\ [](/\ TypeOK /\ PointersMatch /\ AllFreed /\ AnswersReady
                   /\ ApmHasJoiners /\ LimDecoded)
             /\ Advances
  BY ClientsKeepLifecycle, TypeCorrect, PointersCorrect, FreedCorrect, AnswersCorrect,
     ApmCorrect, LimCorrect, AdvancesCorrect, PTL

LEMMA LibraryInv == CSpec => []Inv
  BY ClientsKeepLifecycle, InvAlways, PTL

-----------------------------------------------------------------------------
(***************************************************************************)
(* What the library does to pc, ret and task while a client waits.         *)
(***************************************************************************)

Waited ==
    /\ task' = task
    /\ pc \in { "returned", "deinit", "gone" } \/ pc' \in { "deinit", "gone" } =>
        pc = "deinit" /\ pc' \in { "deinit", "gone" } /\ ret' = ret
    /\ pc' = "returned" /\ ret' = "ok" => pc = "apm"

LEMMA WaitedOperating == Operating => Waited
<1> USE DEF Waited, GoOn, Return
<1>1. OpenFile \/ CutFile \/ read_rep_main_hdr \/ read_rep_sub_hdr => Waited
  BY DEF OpenFile, CutFile, read_rep_main_hdr, read_rep_sub_hdr, hdrs
<1>2. AllocBody \/ AllocSgmtTbl => Waited
  BY DEF AllocBody, AllocSgmtTbl, hdrs
<1>3. ReadSgmt \/ SgmtFails \/ SgmtBodyFails \/ CloseFile => Waited
  BY DEF ReadSgmt, SgmtFails, SgmtBodyFails, CloseFile, hdrs
<1>4. strm_len \/ PrepStrm \/ DecodeSgmt => Waited
  BY DEF strm_len, PrepStrm, DecodeSgmt, hdrs
<1>5. DecodeFails \/ Decoded \/ AllocRfnd => Waited
  BY DEF DecodeFails, Decoded, AllocRfnd, hdrs
<1>6. AllocPrsnTbl \/ join_scrn_blk_alloc \/ save_static_blk_seq => Waited
  BY DEF AllocPrsnTbl, join_scrn_blk_alloc, save_static_blk_seq, hdrs
<1>7. AllocJoinerTbl \/ FormJoiners => Waited
  BY DEF AllocJoinerTbl, FormJoiners, hdrs
<1>8. AllocList("chat_ls", "action_ls") \/ AllocList("action_ls", "dynamic") => Waited
  BY DEF AllocList, hdrs
<1>9. save_dyn_blk_seq \/ ReadBehindStrm \/ Finish => Waited
  BY DEF save_dyn_blk_seq, ReadBehindStrm, Finish, Parsing, hdrs
<1> QED
  BY <1>1, <1>2, <1>3, <1>4, <1>5, <1>6, <1>7, <1>8, <1>9 DEF Operating

LEMMA WaitedRunning == Running => Waited
<1>1. bract_wc3_init \/ InitFails \/ Gone => Waited
  BY DEF bract_wc3_init, InitFails, Gone, Waited, GoOn, hdrs
<1>2. FreeNext => Waited
  BY DEF FreeNext, Waited, hdrs
<1> QED
  BY <1>1, <1>2, WaitedOperating DEF Running

-----------------------------------------------------------------------------
(***************************************************************************)
(* The options.                                                            *)
(***************************************************************************)

\* What an option requests.
Wanted(o) ==
    IF o = "a" THEN Questions ELSE IF o \in DOMAIN Flags THEN Flags[o] ELSE {}

LEMMA RequestedIs == Requested = UNION { Wanted(opts[k]) : k \in DOMAIN opts }
  BY DEF Requested, Wanted

LEMMA WantedIsKnown == \A o : Wanted(o) \subseteq Questions
  BY DEF Wanted, Flags, Questions

LEMMA ReqAfterHas ==
    ASSUME NEW o, req \subseteq Questions
    PROVE  req \cup Wanted(o) \subseteq ReqAfter(o) /\ ReqAfter(o) \subseteq Questions
  BY WantedIsKnown DEF ReqAfter, Wanted, Flags

\* One option more: what is requested is in the flags as before.
LEMMA OptionKeeps == CInv /\ Option => CTypeOK' /\ Flagged'
<1> SUFFICES ASSUME CInv, Option PROVE CTypeOK' /\ Flagged'
  OBVIOUS
<1>1. PICK o \in Letters \ { "?" } :
        req' = ReqAfter(o) /\ help' = (help \/ o = "h") /\ opts' = Append(opts, o)
  BY DEF Option
<1>2. UNCHANGED <<who, step, asked, status>>
  BY DEF Option
<1>3. /\ opts \in Seq(Letters \ { "?" }) /\ req \subseteq Questions /\ help \in BOOLEAN
      /\ who \in { "tool", "other" } /\ step \in { "args", "lib", "end" }
      /\ asked \subseteq Questions /\ status \in { "none", "success", "failure" }
  BY DEF CInv, CTypeOK
<1>4. req \cup Wanted(o) \subseteq req' /\ req' \subseteq Questions
  BY <1>1, <1>3, ReqAfterHas
<1>5. /\ opts' \in Seq(Letters \ { "?" })
      /\ Len(opts') = Len(opts) + 1
      /\ \A k \in 1..Len(opts) : opts'[k] = opts[k]
      /\ opts'[Len(opts) + 1] = o
  BY <1>1, <1>3, AppendProperties
<1>6. CTypeOK'
  <2>1. help' \in BOOLEAN
    BY <1>1, <1>3
  <2> QED
    BY <1>2, <1>3, <1>4, <1>5, <2>1 DEF CTypeOK
<1>7. Flagged'
  <2> SUFFICES ASSUME NEW k \in DOMAIN opts' PROVE Wanted(opts'[k]) \subseteq req'
    BY DEF Flagged, Requested, Wanted
  <2>1. Len(opts) \in Nat /\ DOMAIN opts' = 1..(Len(opts) + 1) /\ DOMAIN opts = 1..Len(opts)
    BY <1>3, <1>5, LenProperties
  <2>2. CASE k = Len(opts) + 1
    BY <2>2, <1>4, <1>5
  <2>3. CASE k \in 1..Len(opts)
    <3>1. Wanted(opts[k]) \subseteq Requested
      BY <2>1, <2>3, RequestedIs
    <3>2. Requested \subseteq req
      BY DEF CInv, Flagged
    <3> QED
      BY <2>3, <3>1, <3>2, <1>4, <1>5
  <2> QED
    BY <2>1, <2>2, <2>3
<1> QED
  BY <1>6, <1>7

-----------------------------------------------------------------------------
(***************************************************************************)
(* The steps of the clients.                                               *)
(***************************************************************************)

\* The parts of CInv but for the types and the flags.
Course == AtStep /\ OtherClient /\ TaskAt /\ PrintedAt /\ LetsGo /\ AtEnd

LEMMA CourseOfInv == CInv => Course
  BY DEF CInv, Course

LEMMA InvOfCourse == CTypeOK /\ Flagged /\ Course => CInv
  BY DEF CInv, Course

LEMMA AllTasksIs == AllTasks = 7
  BY DEF AllTasks, BASIC, ADDTL, APM

\* The variables that the types of the client and the flags are about.
LEMMA SameRequest ==
    CInv /\ UNCHANGED <<who, req, help, opts>> => Requested' = Requested /\ Flagged'
  BY DEF CInv, Flagged, Requested

LEMMA CInitInv == CInit => CInv
<1> SUFFICES ASSUME CInit PROVE CInv
  OBVIOUS
<1>1. /\ pc = "init" /\ ret = "none" /\ task = 0 /\ step = "args" /\ help = FALSE
      /\ opts = <<>> /\ asked = {} /\ status = "none" /\ who \in { "tool", "other" }
  BY DEF CInit, Init
<1>2. req \subseteq Questions
  BY ClientsAssumption DEF CInit
<1>3. CTypeOK
  <2>1. opts \in Seq(Letters \ { "?" })
    BY <1>1
  <2> QED
    BY <1>1, <1>2, <2>1 DEF CTypeOK
<1>4. Flagged
  BY <1>1, RequestedIs DEF Flagged
<1>5. Course
  BY <1>1 DEF Course, AtStep, OtherClient, TaskAt, PrintedAt, LetsGo, AtEnd
<1> QED
  BY <1>3, <1>4, <1>5, InvOfCourse

LEMMA OptionCourse == CInv /\ Option => Course'
<1> SUFFICES ASSUME CInv, Option PROVE Course'
  OBVIOUS
<1>1. /\ UNCHANGED <<pc, ret, task, who, step, asked, status>>
      /\ who = "tool" /\ step = "args" /\ asked = {} /\ status = "none" /\ pc = "init"
  BY DEF Option, AtArgs, library, vars, hdrs, CInv, AtStep
<1>2. TaskAt'
  BY <1>1, CourseOfInv DEF Course, TaskAt
<1> QED
  BY <1>1, <1>2 DEF Course, AtStep, OtherClient, PrintedAt, LetsGo, AtEnd

\* The ends of proc_args, and the file it hands over.
LEMMA ArgsCourse ==
    CInv /\ (UnknownOption \/ Help \/ NoFile \/ File) => CTypeOK' /\ Flagged' /\ Course'
<1> SUFFICES ASSUME CInv, UnknownOption \/ Help \/ NoFile \/ File
             PROVE  CTypeOK' /\ Flagged' /\ Course'
  OBVIOUS
<1>1. /\ UNCHANGED <<pc, ret, task, who, req, help, opts, asked>>
      /\ who = "tool" /\ step = "args"
  BY DEF UnknownOption, Help, NoFile, File, AtArgs, library, vars
<1>2. \/ step' = "end" /\ status' = "failure"
      \/ step' = "end" /\ status' = "success" /\ help
      \/ step' = "lib" /\ status' = status /\ ~help
  BY DEF UnknownOption, Help, NoFile, File, End
<1>3. asked = {} /\ status = "none" /\ pc = "init"
  BY <1>1 DEF CInv, AtStep
<1>4. CTypeOK'
  BY <1>1, <1>2, <1>3 DEF CInv, CTypeOK
<1>5. Flagged'
  BY <1>1, SameRequest
<1>6. TaskAt'
  BY <1>1, CourseOfInv DEF Course, TaskAt
<1>7. AtStep' /\ AtEnd'
  BY <1>1, <1>2, <1>3 DEF AtStep, AtEnd
<1> QED
  BY <1>1, <1>3, <1>4, <1>5, <1>6, <1>7 DEF Course, OtherClient, PrintedAt, LetsGo

\* The library goes on, or operate is called.
LEMMA CallCourse == Inv /\ CInv /\ Call => CTypeOK' /\ Flagged' /\ Course'
<1> SUFFICES ASSUME Inv, CInv, Call PROVE CTypeOK' /\ Flagged' /\ Course'
  OBVIOUS
<1>1. /\ UNCHANGED <<who, step, req, help, opts, asked, status>>
      /\ who = "other" \/ step = "lib"
  BY DEF Call, InLibrary, client
<1>2. CTypeOK'
  BY <1>1 DEF CInv, CTypeOK
<1>3. Flagged'
  BY <1>1, SameRequest
<1>4. OtherClient'
  BY <1>1 DEF CInv, OtherClient
<1>5. status = "none" /\ (step = "args" => who # "tool")
  BY <1>1 DEF CInv, AtStep, OtherClient
<1>6. AtStep' /\ AtEnd'
  BY <1>1, <1>5 DEF CInv, AtStep, AtEnd
<1>7. CASE Running
  <2>1. Waited
    BY <1>7, WaitedRunning
  <2>2. PrintedAt'
    BY <1>1, <2>1 DEF CInv, PrintedAt, Waited
  <2>3. LetsGo'
    BY <1>1, <2>1 DEF CInv, LetsGo, Waited
  <2>4. pc = "apm" => task \in Masks
    BY DEF Inv, Known, InOperate
  <2>5. TaskAt'
    BY <1>1, <2>1, <2>4 DEF CInv, TaskAt, Waited
  <2> QED
    BY <1>2, <1>3, <1>4, <1>6, <2>2, <2>3, <2>5 DEF Course
<1>8. ASSUME NEW t, bract_wc3_operate(t), who = "tool" => t = AllTasks
      PROVE  Course'
  <2>1. /\ pc = "ready" /\ pc' \in { "open", "returned" }
        /\ pc' = "returned" => ret' = "task"
        /\ task' \in { task, t }
    BY <1>8 DEF bract_wc3_operate, GoOn, Return
  <2>2. asked = {}
    BY <2>1 DEF CInv, PrintedAt
  <2>3. TaskAt'
    BY <1>1, <1>8, <2>1 DEF CInv, TaskAt
  <2> QED
    BY <1>1, <1>4, <1>6, <2>1, <2>2, <2>3 DEF Course, PrintedAt, LetsGo
<1>9. ASSUME who = "tool", bract_wc3_operate(AllTasks) PROVE Course'
  BY <1>8, <1>9
<1>10. ASSUME who = "other", NEW t \in Tasks, bract_wc3_operate(t) PROVE Course'
  BY <1>8, <1>10
<1> QED
  BY <1>2, <1>3, <1>7, <1>9, <1>10 DEF Call

LEMMA PrintNextCourse == CInv /\ PrintNext => CTypeOK' /\ Flagged' /\ Course'
<1> SUFFICES ASSUME CInv, PrintNext PROVE CTypeOK' /\ Flagged' /\ Course'
  OBVIOUS
<1>1. /\ UNCHANGED <<pc, ret, task, who, step, req, help, opts, status>>
      /\ who = "tool" /\ step = "lib" /\ pc = "returned" /\ ret = "ok"
  BY DEF PrintNext, library, vars, hdrs
<1>2. asked' \subseteq asked \cup req
  BY DEF PrintNext, Left
<1>3. CTypeOK'
  BY <1>1, <1>2 DEF CInv, CTypeOK
<1>4. Flagged'
  BY <1>1, SameRequest
<1>5. status = "none"
  BY <1>1 DEF CInv, AtStep
<1>6. AtStep' /\ OtherClient' /\ TaskAt'
  BY <1>1 DEF CInv, AtStep, OtherClient, TaskAt
<1> QED
  BY <1>1, <1>3, <1>4, <1>5, <1>6 DEF Course, PrintedAt, LetsGo, AtEnd

\* The order names every question.
LEMMA OrderHasAll == \A q \in Questions : \E i \in DOMAIN Order : Order[i] = q
<1>1. /\ Order[1] = "rlsver" /\ Order[2] = "patchver" /\ Order[3] = "build"
      /\ Order[4] = "replen" /\ Order[5] = "mappath" /\ Order[6] = "mapposcnt"
      /\ Order[7] = "msgs" /\ Order[8] = "joiners"
  BY DEF Order
<1>2. \A i \in 1..8 : i \in DOMAIN Order
  BY DEF Order
<1> QED
  BY <1>1, <1>2 DEF Questions

LEMMA NothingLeft == CTypeOK /\ Left = {} => req \subseteq asked
<1> SUFFICES ASSUME CTypeOK, Left = {}, NEW q \in req PROVE q \in asked
  OBVIOUS
<1>1. PICK i \in DOMAIN Order : Order[i] = q
  BY OrderHasAll DEF CTypeOK
<1> QED
  BY <1>1 DEF Left

LEMMA DeinitCourse ==
    CInv /\ (Deinit \/ NoContext) => CTypeOK' /\ Flagged' /\ Course'
<1> SUFFICES ASSUME CInv, Deinit \/ NoContext PROVE CTypeOK' /\ Flagged' /\ Course'
  OBVIOUS
<1>1. /\ UNCHANGED <<task, who, step, req, help, opts, asked, status>>
      /\ who = "other" \/ step = "lib"
      /\ ret' = ret
  BY DEF Deinit, NoContext, InLibrary, client, bract_wc3_deinit, DeinitNull, GoOn, hdrs
<1>2. \/ pc \in { "ready", "returned" } /\ pc' = "deinit"
      \/ pc = "no_context" /\ pc' = "null_read"
  BY DEF Deinit, NoContext, bract_wc3_deinit, DeinitNull, GoOn
<1>3. pc' = "deinit" /\ who = "tool" /\ ret = "ok" => Left = {}
  BY DEF Deinit, NoContext, DeinitNull, GoOn
<1>4. CTypeOK'
  BY <1>1 DEF CInv, CTypeOK
<1>5. Flagged'
  BY <1>1, SameRequest
<1>6. status = "none" /\ (step = "args" => who # "tool")
  BY <1>1 DEF CInv, AtStep, OtherClient
<1>7. AtStep' /\ OtherClient' /\ AtEnd'
  BY <1>1, <1>6 DEF CInv, AtStep, OtherClient, AtEnd
<1>8. TaskAt'
  BY <1>1, <1>2 DEF CInv, TaskAt
<1>9. PrintedAt'
  BY <1>1, <1>2 DEF CInv, PrintedAt
<1>10. LetsGo'
  BY <1>1, <1>2, <1>3, NothingLeft DEF CInv, LetsGo
<1> QED
  BY <1>4, <1>5, <1>7, <1>8, <1>9, <1>10 DEF Course

LEMMA ExitCourse == CInv /\ Exit => CTypeOK' /\ Flagged' /\ Course'
<1> SUFFICES ASSUME CInv, Exit PROVE CTypeOK' /\ Flagged' /\ Course'
  OBVIOUS
<1>1. /\ UNCHANGED <<pc, ret, task, who, req, help, opts, asked>>
      /\ who = "tool" /\ step = "lib" /\ pc = "gone"
      /\ step' = "end" /\ status' = IF ret = "ok" THEN "success" ELSE "failure"
  BY DEF Exit, End, library, vars, hdrs
<1>2. CTypeOK'
  BY <1>1 DEF CInv, CTypeOK
<1>3. Flagged'
  BY <1>1, SameRequest
<1>4. OtherClient' /\ TaskAt' /\ PrintedAt' /\ LetsGo'
  BY <1>1 DEF CInv, OtherClient, TaskAt, PrintedAt, LetsGo
<1>5. AtStep'
  BY <1>1 DEF AtStep
<1>6. ret # "ok" => asked = {}
  BY DEF CInv, PrintedAt
<1>7. AtEnd'
  BY <1>1, <1>6 DEF AtEnd
<1> QED
  BY <1>2, <1>3, <1>4, <1>5, <1>7 DEF Course

LEMMA CStutterKeeps == CInv /\ UNCHANGED all_vars => CInv'
<1> SUFFICES ASSUME CInv, UNCHANGED all_vars PROVE CInv'
  OBVIOUS
<1>1. UNCHANGED <<pc, ret, task, who, step, req, help, opts, asked, status>>
  BY DEF all_vars, vars, client, hdrs
<1>2. Flagged'
  BY <1>1, SameRequest
<1>3. CTypeOK'
  BY <1>1 DEF CInv, CTypeOK
<1>4. Course'
  BY <1>1 DEF CInv, Course, AtStep, OtherClient, TaskAt, PrintedAt, LetsGo, AtEnd
<1> QED
  BY <1>2, <1>3, <1>4 DEF CInv, Course

LEMMA CInvStep == Inv /\ CInv /\ [CNext]_all_vars => CInv'
<1>1. CTypeOK' /\ Flagged' /\ Course' => CInv'
  BY DEF CInv, Course
<1>2. CInv /\ proc_args => CInv'
  BY <1>1, OptionKeeps, OptionCourse, ArgsCourse DEF proc_args
<1>3. Inv /\ CInv /\ (Call \/ PrintNext \/ Deinit \/ NoContext \/ Exit) => CInv'
  BY <1>1, CallCourse, PrintNextCourse, DeinitCourse, ExitCourse
<1>4. CInv /\ Ended => CInv'
  BY CStutterKeeps DEF Ended
<1> QED
  BY <1>2, <1>3, <1>4, CStutterKeeps DEF CNext

LEMMA CInvAlways == CSpec => []CInv
  BY CInitInv, CInvStep, LibraryInv, PTL DEF CSpec

-----------------------------------------------------------------------------
(***************************************************************************)
(* The theorems.                                                           *)
(***************************************************************************)

\* The variables of the client have their types, whatever the flags held at first.
THEOREM ClientTypesCorrect == CSpec => []CTypeOK
  BY CInvAlways, PTL DEF CInv

\* The exit status of the tool says what it did: a success without help has printed
\* every request of a file that was read, a failure nothing (main, demo_lib).
THEOREM StatusCorrect == CSpec => []StatusIsHonest
<1>1. CInv => StatusIsHonest
  <2> SUFFICES ASSUME CInv PROVE StatusIsHonest
    OBVIOUS
  <2>1. ASSUME status = "success", ~help
        PROVE  pc = "gone" /\ ret = "ok" /\ Requested \subseteq asked
    <3>1. pc = "gone" /\ ret = "ok"
      BY <2>1 DEF CInv, AtEnd
    <3>2. who = "tool"
      BY <2>1 DEF CInv, CTypeOK, OtherClient, AtStep
    <3>3. req \subseteq asked
      BY <3>1, <3>2 DEF CInv, LetsGo
    <3> QED
      BY <3>1, <3>3 DEF CInv, Flagged
  <2> QED
    BY <2>1 DEF CInv, AtEnd, StatusIsHonest
<1> QED
  BY <1>1, CInvAlways, PTL

\* Of a line that the tool prints the getter asserts what holds, and reads what is there.
LEMMA ToolMayAsk ==
    ASSUME CInv, who = "tool", pc = "returned", ret = "ok", NEW q \in Questions
    PROVE  MayAsk(q)
<1>1. task = 7
  BY AllTasksIs DEF CInv, TaskAt, Masks
<1>2. \A bit \in { 1, 2 } : Asks(7, bit)
  BY DEF Asks
<1>3. TaskOf(q) \in { 1, 2 }
  BY DEF TaskOf, BASIC, ADDTL
<1> QED
  BY <1>1, <1>2, <1>3 DEF MayAsk

\* The tool prints only what its task covers and the library has (demo_lib).
THEOREM PrintsCorrect == CSpec => PrintedIsThere
<1>1. CInv /\ AnswersReady /\ [CNext]_all_vars =>
        [\A q \in asked' \ asked : MayAsk(q) /\ Ready(q)]_all_vars
  <2> SUFFICES ASSUME CInv, AnswersReady, CNext, NEW q \in asked' \ asked
               PROVE  MayAsk(q) /\ Ready(q)
    OBVIOUS
  <2>1. PrintNext
    BY DEF CNext, proc_args, Option, UnknownOption, Help, NoFile, File, Call, Deinit,
           NoContext, Exit, Ended, client, all_vars
  <2>2. who = "tool" /\ pc = "returned" /\ ret = "ok" /\ q \in req
    BY <2>1 DEF PrintNext, Left
  <2>3. q \in Questions
    BY <2>2 DEF CInv, CTypeOK
  <2>4. MayAsk(q)
    BY <2>2, <2>3, ToolMayAsk
  <2> QED
    BY <2>3, <2>4 DEF AnswersReady
<1> QED
  BY <1>1, CInvAlways, LibraryCorrect, PTL DEF CSpec, PrintedIsThere
=============================================================================
