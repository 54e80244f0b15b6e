------------------------------- MODULE Clients -------------------------------
(***************************************************************************)
(* The library with its clients: bractio, the tool in src/src/bractio.c    *)
(* (proc_args, demo_lib, main), and any other program that operates a      *)
(* context at most once and keeps to what the asserts of the getters ask   *)
(* of it.  The tool wants all tasks; what the user requested decides only  *)
(* what it prints.                                                         *)
(***************************************************************************)
EXTENDS Lifecycle

CONSTANTS
    Letters,    \* the options that the user may give, '?' for any that getopt refuses
    MaxOpts,    \* how many of them
    JunkReqs    \* what req may hold before it is assigned

ASSUME ClientsAssumption ==
    /\ MaxOpts \in Nat /\ \A req \in JunkReqs : req \subseteq Questions
    /\ BASIC + ADDTL + APM \in Tasks

VARIABLES
    who,        \* the client
    step,       \* where it stands
    req,        \* the request flags
    help,
    opts,       \* history: the options so far
    asked,      \* the questions the tool asked, and printed the answers of
    status      \* what main returned

client   == <<who, step, req, help, opts, asked, status>>
library  == vars
all_vars == <<vars, client>>

CInit ==
    /\ Init /\ who \in { "tool", "other" } /\ step = "args"
    /\ IF who = "tool" THEN req \in JunkReqs ELSE req = {}
    /\ help = FALSE /\ opts = <<>> /\ asked = {} /\ status = "none"

-----------------------------------------------------------------------------
(***************************************************************************)
(* proc_args                                                               *)
(***************************************************************************)

\* The requests of each letter.
Flags ==
    [b |-> { "build" }, c |-> { "msgs" }, j |-> { "joiners" }, l |-> { "replen" },
     m |-> { "mappath" }, p |-> { "patchver" }, r |-> { "rlsver" }]

\* A mistake to check against: the letter is kept, and not what it requests.
ReqWithLetter(o) == req \cup { o }

ReqAfter(o) ==
    CASE o = "a" -> Questions
      [] o \in DOMAIN Flags -> req \cup Flags[o]
      [] OTHER -> req

AtArgs == who = "tool" /\ step = "args"

\* The next letter that getopt returns.
Option ==
    /\ AtArgs /\ Len(opts) < MaxOpts
    /\ \E o \in Letters \ { "?" } :
        /\ req' = ReqAfter(o) /\ help' = (help \/ o = "h") /\ opts' = Append(opts, o)
    /\ UNCHANGED <<library, who, step, asked, status>>

End(code) == step' = "end" /\ status' = code

UnknownOption ==
    /\ AtArgs /\ "?" \in Letters
    /\ End("failure") /\ UNCHANGED <<library, who, req, help, opts, asked>>

\* Help is all there is on the command line, or is mixed with something.
Help ==
    /\ AtArgs /\ help
    /\ End("success") \/ End("failure")
    /\ UNCHANGED <<library, who, req, help, opts, asked>>

NoFile ==
    /\ AtArgs /\ ~help
    /\ End("failure") /\ UNCHANGED <<library, who, req, help, opts, asked>>

File ==
    /\ AtArgs /\ ~help
    /\ step' = "lib" /\ UNCHANGED <<library, who, req, help, opts, asked, status>>

proc_args == Option \/ UnknownOption \/ Help \/ NoFile \/ File

-----------------------------------------------------------------------------
(***************************************************************************)
(* demo_lib                                                                *)
(***************************************************************************)

\* A mistake to check against: the additional data are not asked for.
BasicTask == BASIC

AllTasks == BASIC + ADDTL + APM

InLibrary == who = "other" \/ step = "lib"

Call ==
    /\ InLibrary
    /\ \/ Running
       \/ who = "tool" /\ bract_wc3_operate(AllTasks)
       \/ who = "other" /\ \E t \in Tasks : bract_wc3_operate(t)
    /\ UNCHANGED client

\* The order in which the tool prints.
Order == <<"rlsver", "patchver", "build", "replen", "mappath", "mapposcnt", "msgs",
           "joiners">>

\* A mistake to check against: the last request is left out.
LeftBeforeJoiners == { i \in 1..7 : Order[i] \in req \ asked }

\* What is requested and not printed.
Left == { i \in DOMAIN Order : Order[i] \in req \ asked }

\* The next line is printed.  What another client asks changes nothing.
PrintNext ==
    /\ who = "tool" /\ step = "lib" /\ pc = "returned" /\ ret = "ok"
    /\ \E i \in Left : (\A j \in Left : i <= j) /\ asked' = asked \cup { Order[i] }
    /\ UNCHANGED <<library, who, step, req, help, opts, status>>

\* The tool prints all before it lets go; another client may let go at any time.
Deinit ==
    /\ InLibrary /\ bract_wc3_deinit
    /\ who = "tool" => pc = "returned" /\ (ret = "ok" => Left = {})
    /\ UNCHANGED client

\* The tool calls deinit with the null pointer that it got from init; another client
\* need not.
NoContext ==
    /\ InLibrary /\ DeinitNull /\ UNCHANGED client

-----------------------------------------------------------------------------
Exit ==
    /\ who = "tool" /\ step = "lib" /\ pc = "gone"
    /\ End(IF ret = "ok" THEN "success" ELSE "failure")
    /\ UNCHANGED <<library, who, req, help, opts, asked>>

Ended ==
    /\ \/ step = "end" \/ pc \in Crashes
       \/ who = "other" /\ pc \in { "gone", "no_context" }
    /\ UNCHANGED all_vars

CNext == proc_args \/ Call \/ PrintNext \/ Deinit \/ NoContext \/ Exit \/ Ended

CSpec == CInit /\ [][CNext]_all_vars

\* One thread that waits for nothing.
FairCSpec == CSpec /\ WF_all_vars(CNext)

-----------------------------------------------------------------------------
(***************************************************************************)
(* Properties.                                                             *)
(***************************************************************************)
\* The client's variables have their types, junk in the request flags included.
CTypeOK ==
    /\ who \in { "tool", "other" } /\ step \in { "args", "lib", "end" }
    /\ req \subseteq Questions /\ help \in BOOLEAN /\ opts \in Seq(Letters \ { "?" })
    /\ asked \subseteq Questions /\ status \in { "none", "success", "failure" }

\* What a sequence of options requests.
Requested ==
    UNION { IF opts[k] = "a" THEN Questions
            ELSE IF opts[k] \in DOMAIN Flags THEN Flags[opts[k]] ELSE {} : k \in DOMAIN opts }

\* When the tool reports success it has given help, or the whole file was read, every
\* request is printed and all is freed but what a cut segment lost; when it fails it has
\* printed nothing (main, demo_lib).
StatusIsHonest ==
    /\ status = "success" /\ ~help => pc = "gone" /\ ret = "ok" /\ Requested \subseteq asked
    /\ status = "failure" => asked = {}

\* When the tool prints a line, the getter may be asked what is in it, and whatever the
\* getter reads is there (demo_lib, which asks for all tasks before it knows what was
\* requested).
PrintedIsThere == [][\A q \in asked' \ asked : MayAsk(q) /\ Ready(q)]_all_vars

\* The tool comes to its end, whatever the file holds and whatever fails.
Termination == <>(step = "end" \/ pc \in Crashes \/ who = "other")
=============================================================================
