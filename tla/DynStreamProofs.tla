--------------------------- MODULE DynStreamProofs ---------------------------
(***************************************************************************)
(* What holds of the dynamic part of a stream for every stream length,     *)
(* every width of the counters that is large enough for it, and every set  *)
(* of joiners, sizes and lengths.                                          *)
(***************************************************************************)
EXTENDS DynStream, SequenceTheorems, FiniteSetTheorems, TLAPS

Entry == [joiner : Joiners, mmt : Nat]

\* The records of fixed size have a size.
LEMMA SizeNat == \A handler : Size(handler) \in Nat
  BY SMT DEF Size

\* An unsigned subtraction of what is there, and of more than is there.
LEMMA MinusProps ==
    ASSUME NEW a \in Nat, NEW b \in Nat, a < UINT, b <= UINT
    PROVE  /\ Minus(a, b) \in Nat /\ Minus(a, b) < UINT
           /\ Minus(a, b) - a + b \in { 0, UINT }
           /\ a >= b => Minus(a, b) = a - b
  BY SizesAssumption, SMT DEF Minus

\* A read that is cut short leaves the cursor inside the stream.
LEMMA StopsInside ==
    ASSUME NEW cuts \in SUBSET Nat, NEW from \in Nat, StopsIn(cuts, from)
    PROVE  pos' \in Nat /\ pos' >= from /\ pos' <= Lim
  BY SizesAssumption, SMT DEF StopsIn

-----------------------------------------------------------------------------
(***************************************************************************)
(* One turn of process_action_field, seen from the cursor: it gives up, or *)
(* it charges n bytes to the field.  All but a malformed selection record  *)
(* are charged what they read.                                             *)
(***************************************************************************)
SameBad == blk_bad' = blk_bad /\ fld_bad' = fld_bad

GaveUp ==
    /\ pc' \in { "error", "wild_call" }
    /\ pos' \in Nat /\ pos' >= pos /\ SameBad /\ len' = len

Charged(n) ==
    /\ pc' = "action" /\ len > 0 /\ len' = Minus(len, 1 + n)
    /\ pos' \in Nat /\ pos' > pos /\ pos' <= Lim
    /\ \/ pos' = pos + 1 + n /\ SameBad
       \/ /\ pos' = pos + 4 /\ n = 5
          /\ blk_bad' = blk_bad + 1 /\ fld_bad' = fld_bad + 1

Turn == GaveUp \/ \E n \in Nat : Charged(n)

\* safe_pos_fw either stays inside the stream or ends the parser.
LEMMA SkipTurns ==
    ASSUME TypeOK, AtActionId, NEW n \in Nat, Skip(n), SameBad
    PROVE  Turn
<1>1. pos \in Nat /\ Lim \in Nat
  BY SizesAssumption DEF TypeOK
<1>2. CASE pos' > Lim
  BY <1>1, <1>2, SMT DEF Skip, GiveUp, Turn, GaveUp
<1>3. CASE ~(pos' > Lim)
  <2>1. Charged(n)
    BY <1>1, <1>3, SMT DEF Skip, Charge, Charged, AtActionId
  <2> QED
    BY <2>1 DEF Turn
<1> QED
  BY <1>2, <1>3

\* A record with a count of items, eight bytes each.
LEMMA ItemsTurn ==
    ASSUME TypeOK, AtActionId, \E cnt \in ItemCnts : Skip(3 + cnt * 8), SameBad
    PROVE  Turn
<1>1. PICK cnt \in ItemCnts : Skip(3 + cnt * 8)
  OBVIOUS
<1>2. 3 + cnt * 8 \in Nat
  BY SizesAssumption, SMT
<1> QED
  BY <1>1, <1>2, SkipTurns

LEMMA ActionTurns == TypeOK /\ Actions => Turn
<1> SUFFICES ASSUME TypeOK, Actions PROVE Turn
  OBVIOUS
<1> USE SizesAssumption
<1>1. CASE CutActionId
  BY <1>1, SMT DEF CutActionId, SameBad, block, field, Turn, GaveUp, TypeOK, cursor
<1>2. CASE BadActionId
  BY <1>2, SMT DEF BadActionId, SameBad, block, field, AtActionId, Turn, GaveUp, TypeOK
<1>3. CASE UnusedActionId
  BY <1>3, SMT DEF UnusedActionId, SameBad, block, field, AtActionId, Turn, GaveUp, TypeOK
<1>4. CASE UncountedAction
  <2>1. AtActionId /\ SameBad /\ \E handler : Skip(Size(handler))
    BY <1>4 DEF UncountedAction, SameBad, block, field
  <2> QED
    BY <2>1, SizeNat, SkipTurns
<1>5. CASE CountedFirstAction
  <2>1. /\ AtActionId /\ SameBad
        /\ \/ pos' = pos + 1 /\ GiveUp
           \/ \E handler : Skip(Size(handler))
    BY <1>5 DEF CountedFirstAction, SameBad, block, field
  <2>2. CASE pos' = pos + 1 /\ GiveUp
    BY <2>1, <2>2, SMT DEF GiveUp, Turn, GaveUp, TypeOK
  <2> QED
    BY <2>1, <2>2, SizeNat, SkipTurns
<1>6. CASE Ability1Action
  <2>1. /\ AtActionId /\ SameBad
        /\ \/ pos' = pos + 1 /\ GiveUp
           \/ \E handler : Skip(Size(handler))
    BY <1>6 DEF Ability1Action, SameBad, block, field
  <2>2. CASE pos' = pos + 1 /\ GiveUp
    BY <2>1, <2>2, SMT DEF GiveUp, Turn, GaveUp, TypeOK
  <2> QED
    BY <2>1, <2>2, SizeNat, SkipTurns
<1>7. CASE CountedAfterAction
  <2>1. AtActionId /\ SameBad /\ \E handler : Skip(Size(handler))
    BY <1>7 DEF CountedAfterAction, SameBad, block, field
  <2> QED
    BY <2>1, SizeNat, SkipTurns
<1>8. CASE StringAction
  <2>0. PICK handler : AtActionId /\ SameBad /\ ReadString(StringHead(handler))
    BY <1>8 DEF StringAction, SameBad, block, field
  <2>1. PICK head \in { 0, 8 } : ReadString(head)
    BY <2>0 DEF StringHead
  <2>2. CASE pos' = pos + 1 + head /\ GiveUp
    BY <2>0, <2>2, SMT DEF GiveUp, Turn, GaveUp, TypeOK
  <2>3. CASE \E l \in StrLens : /\ pos' = pos + 1 + head + l + 1 /\ pos' <= Lim
                                /\ Charge(head + l + 1)
    <3>1. PICK l \in StrLens : /\ pos' = pos + 1 + head + l + 1 /\ pos' <= Lim
                               /\ Charge(head + l + 1)
      BY <2>3
    <3>2. head + l + 1 \in Nat
      BY SMT
    <3>3. Charged(head + l + 1)
      BY <2>0, <3>1, <3>2, SMT DEF Charge, Charged, AtActionId, TypeOK
    <3> QED
      BY <3>2, <3>3 DEF Turn
  <2> QED
    BY <2>1, <2>2, <2>3 DEF ReadString
<1>9. CASE SubgroupAction
  <2>0. AtActionId /\ SameBad /\ pos \in Nat
    BY <1>9 DEF SubgroupAction, SameBad, block, field, TypeOK
  <2>1. CASE pos + 2 > Lim
    <3>1. pos' = pos + 1 /\ GiveUp
      BY <1>9, <2>1 DEF SubgroupAction
    <3> QED
      BY <2>0, <3>1, SMT DEF GiveUp, Turn, GaveUp
  <2>2. CASE ~(pos + 2 > Lim)
    <3>0. pos' = pos + 2 /\ Charge(1)
      BY <1>9, <2>2 DEF SubgroupAction
    <3>1. Charged(1)
      BY <2>0, <2>2, <3>0, SMT DEF AtActionId, Charge, Charged, TypeOK
    <3> QED
      BY <3>1 DEF Turn
  <2> QED
    BY <2>1, <2>2
<1>10. CASE CutItemsAction
  <2>0. { 0, 1 } \in SUBSET Nat /\ pos + 1 \in Nat
    BY SMT DEF TypeOK
  <2>1. pos' \in Nat /\ pos' >= pos + 1 /\ GiveUp /\ SameBad
    BY <1>10, <2>0, StopsInside DEF CutItemsAction, SameBad, block, field
  <2> QED
    BY <2>1, SMT DEF GiveUp, Turn, GaveUp, TypeOK
<1>11. CASE AssignGroupHotkeyAction
  <2>1. AtActionId /\ SameBad /\ \E cnt \in ItemCnts : Skip(3 + cnt * 8)
    BY <1>11 DEF AssignGroupHotkeyAction, SameBad, block, field
  <2> QED
    BY <2>1, ItemsTurn
<1>12. CASE SelectAction \/ DeselectAction
  <2>1. AtActionId /\ SameBad /\ \E cnt \in ItemCnts : Skip(3 + cnt * 8)
    BY <1>12 DEF SelectAction, DeselectAction, SameBad, block, field
  <2> QED
    BY <2>1, ItemsTurn
<1>13. CASE BadModeAction
  <2>1. Charged(5)
    BY <1>13, SMT DEF BadModeAction, AtActionId, Charge, Charged, TypeOK
  <2> QED
    BY <2>1 DEF Turn
<1> QED
  BY <1>1, <1>2, <1>3, <1>4, <1>5, <1>6, <1>7, <1>8, <1>9, <1>10, <1>11, <1>12, <1>13
     DEF Actions

-----------------------------------------------------------------------------
(***************************************************************************)
(* What a turn does with the other variables.                              *)
(***************************************************************************)

\* Blocks, fields, the clock and the leavers are not the handlers' business.
LEMMA ActionsKeep ==
    ASSUME Actions
    PROVE  /\ pc = "action"
           /\ UNCHANGED <<build, mmt, rest_size, blk_end, flen, cur, fld_end, chat_ls,
                          leave_mmt, saver, last>>
  BY DEF Actions, AtActionId, block, field, clock, leavers,
         CutActionId, BadActionId, UnusedActionId, UncountedAction, CountedFirstAction,
         Ability1Action, CountedAfterAction, StringAction, SubgroupAction,
         CutItemsAction, AssignGroupHotkeyAction, SelectAction, DeselectAction,
         BadModeAction

TallyOK ==
    action_ls \in Seq(Entry) /\ apm \in [Joiners -> Nat] /\ oom \in BOOLEAN

\* Appending an entry for the joiner of the field, or not.
LEMMA AddTyped ==
    ASSUME TypeOK, pc = "action", NEW ls \in Seq(Entry), NEW ok \in BOOLEAN
    PROVE  AddAction(ls, ok) \in Seq(Entry)
<1>1. [joiner |-> cur, mmt |-> mmt] \in Entry
  BY DEF TypeOK, Entry
<1> QED
  BY <1>1, AppendProperties DEF AddAction

LEMMA CountTyped == TypeOK /\ pc = "action" /\ CountAction => apm' \in [Joiners -> Nat]
  BY SMT DEF TypeOK, CountAction

LEMMA CountLogTyped ==
    ASSUME TypeOK, pc = "action", NEW ok \in BOOLEAN, CountAndLog(ok)
    PROVE  TallyOK'
<1>1. action_ls \in Seq(Entry)
  BY DEF TypeOK, Entry
<1>2. action_ls' \in Seq(Entry)
  BY <1>1, AddTyped DEF CountAndLog
<1>3. apm' \in [Joiners -> Nat] /\ oom' \in BOOLEAN
  BY CountTyped DEF CountAndLog, TypeOK
<1>4. Entry' = Entry
  BY DEF Entry
<1> QED
  BY <1>2, <1>3, <1>4 DEF TallyOK

LEMMA ActionsTyped ==
    ASSUME TypeOK, Actions
    PROVE  TallyOK' /\ paused' \in BOOLEAN /\ deselect' \in BOOLEAN
<1>1. pc = "action"
  BY ActionsKeep
<1>2. UNCHANGED tally => TallyOK'
  BY DEF TypeOK, TallyOK, Entry, tally
<1>3. (\E ok \in MallocResults : CountAndLog(ok)) => TallyOK'
  BY <1>1, SizesAssumption, CountLogTyped
<1>4. paused \in BOOLEAN /\ deselect \in BOOLEAN
  BY DEF TypeOK
<1>5. CASE Ability1Action
  <2>1. PICK ok1 \in MallocResults, ok2 \in MallocResults :
          /\ CountAction
          /\ action_ls' = AddAction(AddAction(action_ls, ok1), ok2)
          /\ oom' = (oom \/ ~ok1 \/ ~ok2)
    BY <1>5 DEF Ability1Action
  <2>2. ok1 \in BOOLEAN /\ ok2 \in BOOLEAN
    BY SizesAssumption
  <2>3. action_ls \in Seq(Entry) /\ oom \in BOOLEAN
    BY DEF TypeOK, Entry
  <2>4. AddAction(AddAction(action_ls, ok1), ok2) \in Seq(Entry)
    BY <1>1, <2>2, <2>3, AddTyped
  <2>5. apm' \in [Joiners -> Nat]
    BY <1>1, <2>1, CountTyped
  <2> QED
    BY <1>4, <1>5, <2>1, <2>3, <2>4, <2>5 DEF TallyOK, Entry, Ability1Action, clock
<1>6. CASE CutActionId \/ BadActionId \/ UnusedActionId \/ StringAction
           \/ CutItemsAction \/ BadModeAction
  BY <1>2, <1>4, <1>6 DEF CutActionId, BadActionId, UnusedActionId, StringAction,
     CutItemsAction, BadModeAction, clock
<1>7. CASE UncountedAction
  BY <1>2, <1>4, <1>7 DEF UncountedAction
<1>8. CASE CountedFirstAction \/ CountedAfterAction \/ SubgroupAction
           \/ AssignGroupHotkeyAction \/ SelectAction \/ DeselectAction
  BY <1>2, <1>3, <1>4, <1>8 DEF CountedFirstAction, CountedAfterAction, SubgroupAction,
     AssignGroupHotkeyAction, SelectAction, DeselectAction, clock
<1> QED
  BY <1>5, <1>6, <1>7, <1>8 DEF Actions

-----------------------------------------------------------------------------
(***************************************************************************)
(* Types.                                                                  *)
(***************************************************************************)
LEMMA TypeInit == Init => TypeOK
<1> SUFFICES ASSUME Init PROVE TypeOK
  OBVIOUS
<1>1. action_ls \in Seq([joiner : Joiners, mmt : Nat]) /\ chat_ls \in Seq([mmt : Nat, no : Nat])
  BY EmptySeq DEF Init
<1>2. apm \in [Joiners -> Nat] /\ leave_mmt \in [Joiners -> Nat]
  BY DEF Init
<1>3. Lim \in Nat /\ 0 < UINT /\ 0 < UShort
  BY SizesAssumption, SMT DEF UShort
<1>4. /\ pc \in Parsing \cup Ended \cup { "parsed" }
      /\ pc = "action" => cur \in Joiners
  BY DEF Init, Parsing
<1>5. /\ pos \in Nat /\ pos <= Lim /\ blk_end \in Nat /\ fld_end \in Nat
      /\ blk_bad \in Nat /\ fld_bad \in Nat
  BY <1>3, SMT DEF Init
<1>6. /\ rest_size \in Nat /\ rest_size < UINT /\ len \in Nat /\ len < UINT
      /\ flen \in Nat /\ flen < UShort /\ mmt \in Nat
  BY <1>3, SMT DEF Init
<1>7. /\ paused \in BOOLEAN /\ deselect \in BOOLEAN /\ oom \in BOOLEAN
      /\ saver \subseteq Joiners /\ last \in Joiners \cup { NULL }
      /\ cur \in Joiners \cup { NULL } /\ build \in Builds
  BY DEF Init
<1> QED
  BY <1>1, <1>2, <1>4, <1>5, <1>6, <1>7, Zenon DEF TypeOK

\* A turn that moves the cursor from q to p charges less than a counter holds, and so
\* does the one that takes an error code for a size.
LEMMA TurnBound ==
    ASSUME NEW q \in Nat, NEW p \in Nat, NEW n \in Nat, p <= Lim, p = q + 1 + n \/ n = 5
    PROVE  1 + n \in Nat /\ 1 + n <= UINT
<1>1. Lim \in Nat /\ UINT \in Nat /\ Lim + 6 <= UINT
  BY SizesAssumption, SMT DEF UShort
<1> QED
  BY <1>1, SMT

\* A turn of process_action_field keeps len in the range of an unsigned int.
LEMMA TypeActions == TypeOK /\ Actions => TypeOK'
<1> SUFFICES ASSUME TypeOK, Actions PROVE TypeOK'
  OBVIOUS
<1>1. /\ pc' \in { "error", "wild_call", "action" } /\ pos' \in Nat
      /\ pc' = "action" => pos' <= Lim
      /\ blk_bad' \in Nat /\ fld_bad' \in Nat /\ len' \in Nat /\ len' < UINT
  <2>1. CASE GaveUp
    BY <2>1, SMT DEF GaveUp, SameBad, TypeOK
  <2>2. CASE \E n \in Nat : Charged(n)
    <3>1. PICK n \in Nat : Charged(n)
      BY <2>2
    <3>2. 1 + n \in Nat /\ 1 + n <= UINT
      <4>1. pos \in Nat
        BY DEF TypeOK
      <4>2. PICK p \in Nat : p = pos' /\ p <= Lim /\ (p = pos + 1 + n \/ n = 5)
        BY <3>1 DEF Charged
      <4> QED
        BY <4>1, <4>2, TurnBound
    <3>5. blk_bad' \in Nat /\ fld_bad' \in Nat
      <4>1. /\ blk_bad \in Nat /\ blk_bad + 1 \in Nat
            /\ fld_bad \in Nat /\ fld_bad + 1 \in Nat
        BY SMT DEF TypeOK
      <4> QED
        BY <3>1, <4>1 DEF Charged, SameBad
    <3>3. len \in Nat /\ len < UINT /\ len' = Minus(len, 1 + n)
      BY <3>1 DEF Charged, TypeOK
    <3>4. len' \in Nat /\ len' < UINT
      BY <3>2, <3>3, MinusProps
    <3> QED
      BY <3>1, <3>4, <3>5 DEF Charged
  <2> QED
    BY <2>1, <2>2, ActionTurns DEF Turn
<1>2. /\ pc = "action"
      /\ UNCHANGED <<build, mmt, rest_size, blk_end, flen, cur, fld_end>>
      /\ UNCHANGED <<chat_ls, leave_mmt, saver, last>>
  BY ActionsKeep
<1>3. /\ action_ls' \in Seq([joiner : Joiners, mmt : Nat])
      /\ apm' \in [Joiners -> Nat] /\ oom' \in BOOLEAN
      /\ paused' \in BOOLEAN /\ deselect' \in BOOLEAN
  BY ActionsTyped DEF TallyOK, Entry
<1>4. /\ pc' \in Parsing \cup Ended \cup { "parsed" }
      /\ pc' \in Parsing => pos' <= Lim
      /\ pc' = "action" => cur' \in Joiners
  BY <1>1, <1>2 DEF Parsing, Ended, TypeOK
<1> QED
  BY <1>1, <1>2, <1>3, <1>4, Zenon DEF TypeOK

\* A step that only moves the cursor, or gives up.
LEMMA MoveTyped ==
    ASSUME TypeOK,
           UNCHANGED <<build, clock, deselect, block, field, len, tally, chat_ls,
                       leavers>>,
           pos' \in Nat,
           \/ pc' = "error"
           \/ pc' = "block" /\ pos' <= Lim
    PROVE  TypeOK'
<1>1. /\ pc' \in Parsing \cup Ended \cup { "parsed" }
      /\ pc' \in Parsing => pos' <= Lim
      /\ pc' = "action" => cur' \in Joiners
  BY DEF Parsing, Ended
<1>2. /\ UNCHANGED <<build, mmt, paused, deselect, rest_size, blk_end, flen, cur, fld_end>>
      /\ UNCHANGED <<len, action_ls, apm, oom, chat_ls, leave_mmt, saver, last>>
      /\ UNCHANGED <<blk_bad, fld_bad>>
  BY DEF block, field, clock, tally, leavers
<1> QED
  BY <1>1, <1>2, Zenon DEF TypeOK

\* The blocks of save_dyn_blk_seq.
LEMMA TypeBlocks == TypeOK /\ Blocks => TypeOK'
<1> SUFFICES ASSUME TypeOK, Blocks PROVE TypeOK'
  OBVIOUS
<1>0. pos \in Nat /\ Lim \in Nat /\ (pc \in Parsing => pos <= Lim)
  BY SizesAssumption DEF TypeOK
<1>1. CASE AllocTable
  BY <1>0, <1>1, MoveTyped DEF AllocTable, Parsing
<1>2. CASE EndOfStream
  BY <1>0, <1>2, MoveTyped DEF EndOfStream
<1>3. CASE UnknownBlk
  <2>1. pos' \in Nat
    BY <1>0, <1>3, SMT DEF UnknownBlk
  <2> QED
    BY <1>3, <2>1, MoveTyped DEF UnknownBlk
<1>4. CASE SkipBlk
  <2>1. pos' \in Nat /\ (pc' = "error" \/ (pc' = "block" /\ pos' <= Lim))
    BY <1>0, <1>4, SMT DEF SkipBlk, SkipSizes
  <2> QED
    BY <1>4, <2>1, MoveTyped DEF SkipBlk
<1>5. CASE LeaveBlk
  <2>1. CASE pos + 6 > Lim
    <3>1. pos' \in Nat
      BY <1>0, <1>5, <2>1, SMT DEF LeaveBlk
    <3> QED
      BY <1>5, <2>1, <3>1, MoveTyped DEF LeaveBlk
  <2>2. CASE ~(pos + 6 > Lim)
    <3>1. PICK joiner \in Joiners \cup { NULL } :
            IF pos' > Lim \/ joiner = NULL
            THEN pc' = "error" /\ UNCHANGED leavers
            ELSE /\ leave_mmt' = [leave_mmt EXCEPT ![joiner] = mmt]
                 /\ last' = joiner
                 /\ IF AtLim(pos')
                    THEN saver' = saver \cup { joiner } /\ pc' = "parsed"
                    ELSE saver' = saver /\ pc' = "block"
      BY <1>5, <2>2 DEF LeaveBlk
    <3>2. pos' \in Nat
      BY <1>0, <1>5, <2>2, SMT DEF LeaveBlk
    <3>3. CASE pos' > Lim \/ joiner = NULL
      BY <1>5, <2>2, <3>1, <3>2, <3>3, MoveTyped DEF LeaveBlk
    <3>4. CASE ~(pos' > Lim \/ joiner = NULL)
      <4>1. joiner \in Joiners /\ pos' <= Lim
        BY <1>0, <3>2, <3>4, SMT
      <4>2. leave_mmt' \in [Joiners -> Nat] /\ saver' \subseteq Joiners /\ last' \in Joiners
        BY <3>1, <3>4, <4>1 DEF TypeOK
      <4>3. pc' \in { "parsed", "block" }
        BY <3>1, <3>4
      <4>4. /\ pc' \in Parsing \cup Ended \cup { "parsed" }
            /\ pc' \in Parsing => pos' <= Lim
            /\ pc' = "action" => cur' \in Joiners
        BY <4>1, <4>3 DEF Parsing
      <4>5. /\ UNCHANGED <<build, mmt, paused, deselect, rest_size, blk_end, flen, cur>>
            /\ UNCHANGED <<fld_end, len, action_ls, apm, oom, chat_ls, blk_bad, fld_bad>>
        BY <1>5 DEF LeaveBlk, block, field, clock, tally
      <4>6. pos' \in Nat /\ last' \in Joiners \cup { NULL }
        BY <3>2, <4>2
      <4> QED
        BY <4>2, <4>4, <4>5, <4>6, Zenon DEF TypeOK
    <3> QED
      BY <3>3, <3>4
  <2> QED
    BY <2>1, <2>2
<1>6. CASE ChatBlk
  <2>1. PICK l \in StrLens, ok \in MallocResults :
          /\ pos' = pos + 1 + 8 + l + 1 /\ pos' <= Lim
          /\ IF ok THEN /\ chat_ls' = Append(chat_ls, [mmt |-> mmt, no |-> Len(chat_ls)])
                        /\ pc' = "block"
                   ELSE pc' = "error" /\ UNCHANGED chat_ls
    BY <1>6 DEF ChatBlk
  <2>2. pos' \in Nat /\ pos' <= Lim
    BY <1>0, <2>1, SizesAssumption, SMT
  <2>3. chat_ls \in Seq([mmt : Nat, no : Nat]) /\ mmt \in Nat
    BY DEF TypeOK
  <2>4. [mmt |-> mmt, no |-> Len(chat_ls)] \in [mmt : Nat, no : Nat]
    BY <2>3, LenProperties
  <2>5. chat_ls' \in Seq([mmt : Nat, no : Nat])
    <3>1. Append(chat_ls, [mmt |-> mmt, no |-> Len(chat_ls)]) \in Seq([mmt : Nat, no : Nat])
      BY <2>3, <2>4, AppendProperties
    <3>2. \/ chat_ls' = Append(chat_ls, [mmt |-> mmt, no |-> Len(chat_ls)])
          \/ chat_ls' = chat_ls
      BY <2>1, Zenon
    <3> QED
      BY <2>3, <3>1, <3>2
  <2>6. pc' \in Parsing \cup Ended /\ pc' # "action"
    BY <2>1 DEF Parsing, Ended
  <2>7. /\ pc' \in Parsing \cup Ended \cup { "parsed" }
        /\ pc' \in Parsing => pos' <= Lim
        /\ pc' = "action" => cur' \in Joiners
    BY <2>2, <2>6
  <2>8. /\ UNCHANGED <<build, mmt, paused, deselect, rest_size, blk_end, flen, cur>>
        /\ UNCHANGED <<fld_end, len, action_ls, apm, oom, leave_mmt, saver, last>>
        /\ UNCHANGED <<blk_bad, fld_bad>>
    BY <1>6 DEF ChatBlk, block, field, clock, tally, leavers
  <2> QED
    BY <2>2, <2>5, <2>7, <2>8, Zenon DEF TypeOK
<1>7. CASE CutChatBlk
  <2>1. { 0, 1, 3, 4, 8 } \in SUBSET Nat /\ pos + 1 \in Nat
    BY <1>0, SMT
  <2>2. pos' \in Nat /\ pos' <= Lim
    BY <1>7, <2>1, StopsInside DEF CutChatBlk
  <2> QED
    BY <1>7, <2>2, MoveTyped DEF CutChatBlk, AtBlockId
<1>8. CASE ChatBlkNoMemory
  <2>1. pos' \in Nat
    BY <1>0, <1>8, SMT DEF ChatBlkNoMemory
  <2> QED
    BY <1>8, <2>1, MoveTyped DEF ChatBlkNoMemory
<1> QED
  BY <1>1, <1>2, <1>3, <1>4, <1>5, <1>6, <1>7, <1>8 DEF Blocks

\* save_time_blk.
LEMMA TypeFields == TypeOK /\ Fields => TypeOK'
<1> SUFFICES ASSUME TypeOK, Fields PROVE TypeOK'
  OBVIOUS
<1>0. pos \in Nat /\ Lim \in Nat /\ (pc \in Parsing => pos <= Lim)
  BY SizesAssumption DEF TypeOK
<1>1. CASE TimeBlk
  <2>1. PICK size \in RestSizes, inc \in TimeIncs :
          /\ mmt' = ClockAfter(inc)
          /\ rest_size' = Minus(size, 2)
          /\ blk_end' = pos' + size - 2 /\ blk_bad' = 0
    BY <1>1 DEF TimeBlk
  <2>2. size \in Nat /\ size < UINT /\ inc \in Nat /\ 2 \in Nat /\ 2 <= UINT
    BY SizesAssumption, SMT DEF UShort
  <2>3. rest_size' \in Nat /\ rest_size' < UINT
    BY <2>1, <2>2, MinusProps
  <2>4. mmt' \in Nat
    BY <2>1, <2>2, SMT DEF ClockAfter, TypeOK
  <2>5. pos' \in Nat /\ pos' <= Lim /\ blk_end' \in Nat /\ blk_bad' \in Nat
    BY <1>0, <1>1, <2>1, <2>2, SMT DEF TimeBlk, TypeOK
  <2>6. pc' \in Parsing /\ pc' # "action"
    BY <1>1 DEF TimeBlk, Parsing
  <2>7. /\ pc' \in Parsing \cup Ended \cup { "parsed" }
        /\ pc' \in Parsing => pos' <= Lim
        /\ pc' = "action" => cur' \in Joiners
    BY <2>5, <2>6
  <2>8. /\ UNCHANGED <<build, paused, deselect, flen, cur, fld_end, len, action_ls>>
        /\ UNCHANGED <<apm, oom, chat_ls, leave_mmt, saver, last, fld_bad>>
    BY <1>1 DEF TimeBlk, field, tally, leavers
  <2> QED
    BY <2>3, <2>4, <2>5, <2>7, <2>8, Zenon DEF TypeOK
<1>2. CASE CutTimeBlk
  <2>1. { 0, 2 } \in SUBSET Nat /\ pos + 1 \in Nat
    BY <1>0, SMT
  <2>2. pos' \in Nat
    BY <1>2, <2>1, StopsInside DEF CutTimeBlk
  <2> QED
    BY <1>2, <2>2, MoveTyped DEF CutTimeBlk
<1>3. CASE EndTimeBlk
  <2>1. pc' \in Parsing /\ pc' # "action" /\ pc \in Parsing
    BY <1>3 DEF EndTimeBlk, Parsing
  <2>2. /\ UNCHANGED <<build, pos, mmt, paused, deselect, rest_size, flen, cur, fld_end>>
        /\ UNCHANGED <<len, action_ls, apm, oom, chat_ls, leave_mmt, saver, last, fld_bad>>
        /\ blk_end' = 0 /\ blk_bad' = 0
    BY <1>3 DEF EndTimeBlk, field, clock, tally, leavers
  <2>3. 0 \in Nat
    BY SMT
  <2> QED
    BY <1>0, <2>1, <2>2, <2>3, Zenon DEF TypeOK
<1>4. CASE OpenField
  <2>1. PICK l \in FieldLens, joiner \in Joiners \cup { NULL } :
          IF joiner = NULL
          THEN pc' = "error" /\ UNCHANGED <<field, len>>
          ELSE /\ pc' = "action" /\ cur' = joiner
               /\ flen' = l /\ len' = l /\ fld_end' = pos' + l /\ fld_bad' = 0
    BY <1>4 DEF OpenField
  <2>2. l \in Nat /\ l < UShort /\ l < UINT
    BY SizesAssumption, SMT DEF UShort
  <2>3. pos' \in Nat /\ pos' <= Lim /\ pos' + l \in Nat
    BY <1>0, <1>4, <2>2, SMT DEF OpenField, TypeOK
  <2>4. CASE joiner = NULL
    <3>1. pc' \in Ended /\ pc' # "action"
      BY <2>1, <2>4 DEF Ended
    <3>2. /\ UNCHANGED <<build, mmt, paused, deselect, rest_size, blk_end, flen, cur>>
          /\ UNCHANGED <<fld_end, len, action_ls, apm, oom, chat_ls, leave_mmt>>
          /\ UNCHANGED <<saver, last, blk_bad, fld_bad>>
      BY <1>4, <2>1, <2>4 DEF OpenField, block, field, clock, tally, leavers
    <3> QED
      BY <2>3, <3>1, <3>2, Zenon DEF TypeOK
  <2>5. CASE joiner # NULL
    <3>1. pc' \in Parsing /\ joiner \in Joiners
      BY <2>1, <2>5 DEF Parsing
    <3>2. /\ UNCHANGED <<build, mmt, paused, deselect, rest_size, blk_end, action_ls>>
          /\ UNCHANGED <<apm, oom, chat_ls, leave_mmt, saver, last, blk_bad>>
      BY <1>4 DEF OpenField, block, clock, tally, leavers
    <3>3. flen' = l /\ len' = l /\ cur' = joiner /\ fld_end' \in Nat
          /\ fld_bad' = 0 /\ 0 \in Nat
      BY <2>1, <2>3, <2>5, SMT
    <3> QED
      BY <2>2, <2>3, <3>1, <3>2, <3>3, Zenon DEF TypeOK
  <2> QED
    BY <2>4, <2>5
<1>5. CASE CutField
  <2>1. { 0, 1 } \in SUBSET Nat
    BY SMT
  <2>2. pos' \in Nat
    BY <1>0, <1>5, <2>1, StopsInside DEF CutField
  <2> QED
    BY <1>5, <2>2, MoveTyped DEF CutField
<1>6. CASE CloseField
  <2>1. FieldSize \in Nat /\ FieldSize <= UINT
    BY SizesAssumption, SMT DEF UShort, FieldSize, TypeOK
  <2>2. rest_size' \in Nat /\ rest_size' < UINT
    BY <1>6, <2>1, MinusProps DEF CloseField, TypeOK
  <2>3. pc' \in Parsing /\ pc' # "action" /\ pc \in Parsing
    BY <1>6 DEF CloseField, Parsing
  <2>4. 0 \in Nat /\ 0 < UShort
    BY SMT DEF UShort
  <2>5. /\ UNCHANGED <<build, pos, mmt, paused, deselect, blk_end, len, action_ls>>
        /\ UNCHANGED <<apm, oom, chat_ls, leave_mmt, saver, last, blk_bad>>
        /\ cur' = NULL /\ flen' = 0 /\ fld_end' = 0 /\ fld_bad' = 0
    BY <1>6 DEF CloseField, clock, tally, leavers
  <2> QED
    BY <1>0, <2>2, <2>3, <2>4, <2>5, Zenon DEF TypeOK
<1> QED
  BY <1>1, <1>2, <1>3, <1>4, <1>5, <1>6 DEF Fields

LEMMA DivNat ==
    ASSUME NEW n \in Nat, NEW d \in Nat \ { 0 }
    PROVE  n \div d \in Nat
  BY SMT

\* eval_apm.
LEMMA TypeApm == TypeOK /\ (SkipApm \/ EvalApm) => TypeOK'
<1> SUFFICES ASSUME TypeOK, SkipApm \/ EvalApm PROVE TypeOK'
  OBVIOUS
<1>1. CASE SkipApm
  BY <1>1, SMT DEF SkipApm, TypeOK, Parsing, Ended, block, field, clock, tally, leavers
<1>2. CASE EvalApm
  <2>1. apm' \in [Joiners -> Nat]
    <3>1. CASE \E j \in Joiners \ Observers : leave_mmt[j] = 0
      BY <1>2, <3>1 DEF EvalApm, TypeOK
    <3>2. CASE ~\E j \in Joiners \ Observers : leave_mmt[j] = 0
      <4>1. ASSUME NEW j \in Joiners, j \notin Observers
            PROVE  (apm[j] * MsInMinute) \div leave_mmt[j] \in Nat
        <5>1. leave_mmt[j] \in Nat \ { 0 } /\ apm[j] \in Nat
          BY <3>2, <4>1 DEF TypeOK
        <5>2. apm[j] * MsInMinute \in Nat
          BY <5>1, SMT DEF MsInMinute
        <5> QED
          BY <5>1, <5>2, DivNat
      <4>2. apm' = [j \in Joiners |-> IF j \in Observers THEN apm[j]
                                       ELSE (apm[j] * MsInMinute) \div leave_mmt[j]]
        BY <1>2, <3>2 DEF EvalApm
      <4>3. \A j \in Joiners : apm[j] \in Nat
        BY DEF TypeOK
      <4> QED
        BY <4>1, <4>2, <4>3
    <3> QED
      BY <3>1, <3>2
  <2>2. /\ pc' \in { "returned", "wild_apm" }
        /\ UNCHANGED <<build, pos, clock, deselect, block, field, len, action_ls, oom,
                       chat_ls, leavers>>
    BY <1>2 DEF EvalApm
  <2> QED
    BY <2>1, <2>2 DEF TypeOK, Parsing, Ended, block, field, clock, leavers
<1> QED
  BY <1>1, <1>2

LEMMA TypeNext == TypeOK /\ [Next]_vars => TypeOK'
<1>1. UNCHANGED vars /\ TypeOK => TypeOK'
  BY DEF vars, TypeOK, Parsing, Ended
<1> QED
  BY <1>1, TypeBlocks, TypeFields, TypeActions, TypeApm DEF Next, Terminated

\* Every value stays in the range of its C type, and the cursor is inside the
\* stream as long as the parser runs.
THEOREM TypeCorrect == Spec => []TypeOK
  BY TypeInit, TypeNext, PTL DEF Spec

-----------------------------------------------------------------------------
(***************************************************************************)
(* The size counters.                                                      *)
(***************************************************************************)

\* Charging m bytes to a counter that is at its end e, or has wrapped around
\* once, leaves it so: it cannot wrap around a second time in a stream that is
\* short against UINT.
LEMMA Wrap ==
    ASSUME NEW c \in Int, NEW m \in Nat, NEW l \in Nat, NEW e \in Nat,
           l < UINT, c + m < UINT, c + l - e \in { 0, UINT }
    PROVE  (c + m) + Minus(l, m) - e \in { 0, UINT }
<1>1. UINT \in Nat
  BY SizesAssumption
<1>2. CASE l >= m
  BY <1>1, <1>2, SMT DEF Minus
<1>3. CASE ~(l >= m)
  BY <1>1, <1>3, SMT DEF Minus
<1> QED
  BY <1>2, <1>3

\* What the counters take for the cursor is bounded by the stream.
LEMMA ChargedBound ==
    ASSUME TypeOK, Accounting, pc \in Parsing
    PROVE  /\ BlkCharged \in Nat /\ BlkCharged < UINT
           /\ pc = "action" => FldCharged \in Nat /\ FldCharged < UINT
<1>1. /\ pos \in Nat /\ pos <= Lim /\ Lim \in Nat /\ UINT \in Nat /\ 2 * Lim < UINT
      /\ blk_bad \in Nat /\ fld_bad \in Nat /\ 4 * blk_bad <= pos
      /\ pc = "action" => fld_bad <= blk_bad
  BY SizesAssumption, SMT DEF UShort, TypeOK, Accounting
<1> QED
  BY <1>1, SMT DEF FldCharged, BlkCharged, Overcharge

\* A counter at 0 is a counter at its end.
LEMMA FieldAtEnd ==
    ASSUME TypeOK, Accounting, pc = "action", len = 0
    PROVE  FldCharged = fld_end
<1>1. FldCharged \in Nat /\ FldCharged < UINT
  BY ChargedBound DEF Parsing
<1>2. FldCharged + len - fld_end \in { 0, UINT } /\ fld_end \in Nat /\ UINT \in Nat
  BY SizesAssumption DEF Accounting, TypeOK
<1> QED
  BY <1>1, <1>2, SMT

LEMMA BlockAtEnd ==
    ASSUME TypeOK, Accounting, pc = "field", rest_size = 0
    PROVE  BlkCharged = blk_end
<1>1. BlkCharged \in Nat /\ BlkCharged < UINT
  BY ChargedBound DEF Parsing
<1>2. BlkCharged + rest_size - blk_end \in { 0, UINT } /\ blk_end \in Nat /\ UINT \in Nat
  BY SizesAssumption DEF Accounting, TypeOK
<1> QED
  BY <1>1, <1>2, SMT

\* process_action_field: a turn takes as much from len as the field's counter takes
\* the cursor to have moved.
LEMMA AccountingActions == TypeOK /\ Accounting /\ Actions => Accounting'
<1> SUFFICES ASSUME TypeOK, Accounting, Actions PROVE Accounting'
  OBVIOUS
<1>1. CASE GaveUp
  BY <1>1 DEF GaveUp, Accounting, Parsing
<1>2. CASE \E n \in Nat : Charged(n)
  <2>1. PICK n \in Nat : Charged(n)
    BY <1>2
  <2>2. /\ pc = "action" /\ pc \in Parsing
        /\ UNCHANGED <<rest_size, blk_end, flen, fld_end>>
    BY ActionsKeep DEF Parsing
  <2>3. /\ pos \in Nat /\ blk_bad \in Nat /\ fld_bad \in Nat
        /\ fld_bad <= blk_bad /\ 4 * blk_bad <= pos
    BY <2>2 DEF TypeOK, Accounting
  <2>4. PICK p \in Nat : p = pos' /\ p > pos /\ p <= Lim
    BY <2>1 DEF Charged
  <2>5. \/ p = pos + 1 + n /\ blk_bad' = blk_bad /\ fld_bad' = fld_bad
        \/ p = pos + 4 /\ n = 5 /\ blk_bad' = blk_bad + 1 /\ fld_bad' = fld_bad + 1
    BY <2>1, <2>4 DEF Charged, SameBad
  <2>6. PICK b \in Nat, f \in Nat : b = blk_bad' /\ f = fld_bad'
    <3>1. blk_bad + 1 \in Nat /\ fld_bad + 1 \in Nat
      BY <2>3, SMT
    <3> QED
      BY <2>3, <2>5, <3>1
  <2>7. \/ p = pos + 1 + n /\ b = blk_bad /\ f = fld_bad
        \/ p = pos + 4 /\ n = 5 /\ b = blk_bad + 1 /\ f = fld_bad + 1
    BY <2>5, <2>6
  <2>8. f <= b /\ 4 * b <= p /\ b - f = blk_bad - fld_bad
    BY <2>3, <2>4, <2>7, SMT
  <2>9. p + 2 * f = FldCharged + (1 + n)
    BY <2>3, <2>7, SMT DEF FldCharged, Overcharge
  <2>10. FldCharged \in Int /\ 1 + n \in Nat /\ FldCharged + (1 + n) < UINT
    <3>1. Lim \in Nat /\ UINT \in Nat /\ 2 * Lim < UINT
      BY SizesAssumption, SMT DEF UShort
    <3>2. p + 2 * f < UINT
      <4>1. p \in Nat /\ b \in Nat /\ f \in Nat /\ f <= b /\ 4 * b <= p /\ p <= Lim
        BY <2>4, <2>8
      <4>2. p + 2 * f <= 2 * Lim
        BY <3>1, <4>1, SMT
      <4> QED
        BY <3>1, <4>1, <4>2, SMT
    <3>3. FldCharged \in Int /\ 1 + n \in Nat
      BY <2>3, SMT DEF FldCharged, Overcharge
    <3> QED
      BY <2>9, <3>2, <3>3
  <2>11. (FldCharged + (1 + n)) + Minus(len, 1 + n) - fld_end \in { 0, UINT }
    <3>1. len \in Nat /\ len < UINT /\ fld_end \in Nat
      BY DEF TypeOK
    <3>2. FldCharged + len - fld_end \in { 0, UINT }
      BY <2>2 DEF Accounting
    <3> HIDE DEF FldCharged
    <3> QED
      BY <2>10, <3>1, <3>2, Wrap
  <2>12. FldCharged' + len' - fld_end' \in { 0, UINT }
    <3>1. FldCharged' = p + 2 * f
      BY <2>4, <2>6 DEF FldCharged, Overcharge
    <3>2. len' = Minus(len, 1 + n)
      BY <2>1 DEF Charged
    <3> HIDE DEF FldCharged
    <3> QED
      BY <2>2, <2>9, <2>11, <3>1, <3>2
  <2>13. (fld_end - flen - 3) + Overcharge * (b - f) + rest_size - blk_end \in { 0, UINT }
    BY <2>2, <2>8 DEF Accounting
  <2>14. pc' = "action"
    BY <2>1 DEF Charged
  <2> QED
    BY <2>2, <2>4, <2>6, <2>8, <2>12, <2>13, <2>14 DEF Accounting, Overcharge
<1> QED
  BY <1>1, <1>2, ActionTurns DEF Turn

\* A step of save_dyn_blk_seq, seen from the cursor.
Moved ==
    /\ pc \in { "alloc", "block" } /\ pc' \in { "block", "error", "parsed" }
    /\ pos' \in Nat /\ pos' >= pos /\ UNCHANGED <<blk_bad, fld_bad, blk_end>>

LEMMA BlocksMove == TypeOK /\ Blocks => Moved
<1> SUFFICES ASSUME TypeOK, Blocks PROVE Moved
  OBVIOUS
<1>0. pos \in Nat
  BY DEF TypeOK
<1>1. CASE AllocTable
  BY <1>0, <1>1, SMT DEF AllocTable, Moved, block, field
<1>2. CASE EndOfStream
  BY <1>0, <1>2, SMT DEF EndOfStream, Moved, block, field
<1>3. CASE UnknownBlk
  BY <1>0, <1>3, SMT DEF UnknownBlk, AtBlockId, Moved, block, field
<1>4. CASE SkipBlk
  BY <1>0, <1>4, SMT DEF SkipBlk, SkipSizes, AtBlockId, Moved, block, field
<1>5. CASE LeaveBlk
  <2>1. pos' \in Nat /\ pos' >= pos
    BY <1>0, <1>5, SMT DEF LeaveBlk
  <2>2. pc' \in { "block", "error", "parsed" }
    BY <1>5 DEF LeaveBlk
  <2> QED
    BY <1>5, <2>1, <2>2 DEF LeaveBlk, AtBlockId, Moved, block, field
<1>6. CASE ChatBlk
  <2>1. pos' \in Nat /\ pos' >= pos
    BY <1>0, <1>6, SizesAssumption, SMT DEF ChatBlk
  <2>2. pc' \in { "block", "error", "parsed" }
    BY <1>6 DEF ChatBlk
  <2> QED
    BY <1>6, <2>1, <2>2 DEF ChatBlk, AtBlockId, Moved, block, field
<1>7. CASE CutChatBlk
  <2>1. { 0, 1, 3, 4, 8 } \in SUBSET Nat /\ pos + 1 \in Nat
    BY <1>0, SMT
  <2>2. pos' \in Nat /\ pos' >= pos + 1
    BY <1>7, <2>1, StopsInside DEF CutChatBlk
  <2>3. pos' >= pos
    BY <1>0, <2>2, SMT
  <2> QED
    BY <1>7, <2>2, <2>3 DEF CutChatBlk, AtBlockId, Moved, block, field
<1>8. CASE ChatBlkNoMemory
  BY <1>0, <1>8, SMT DEF ChatBlkNoMemory, AtBlockId, Moved, block, field
<1> QED
  BY <1>1, <1>2, <1>3, <1>4, <1>5, <1>6, <1>7, <1>8 DEF Blocks

\* Between two time blocks there is nothing to account for but the bad records so far.
LEMMA AccountingBlocks == TypeOK /\ Accounting /\ Blocks => Accounting'
<1> SUFFICES ASSUME TypeOK, Accounting, Blocks PROVE Accounting'
  OBVIOUS
<1>1. Moved
  BY BlocksMove
<1>2. 4 * blk_bad <= pos
  BY <1>1 DEF Moved, Accounting, Parsing
<1>3. PICK p \in Nat : p = pos' /\ p >= pos
  BY <1>1 DEF Moved
<1>4. 4 * blk_bad <= p
  BY <1>2, <1>3, SMT DEF TypeOK
<1> QED
  BY <1>1, <1>3, <1>4 DEF Moved, Accounting

\* save_time_blk: the head of a block and of a field set the counters, and the end
\* of a field charges it to its block.
LEMMA AccountingFields == TypeOK /\ Accounting /\ Fields => Accounting'
<1> SUFFICES ASSUME TypeOK, Accounting, Fields PROVE Accounting'
  OBVIOUS
<1>0. /\ pos \in Nat /\ Lim \in Nat /\ UINT \in Nat
      /\ blk_bad \in Nat /\ fld_bad \in Nat
      /\ rest_size \in Nat /\ rest_size < UINT
      /\ fld_end \in Nat /\ blk_end \in Nat /\ flen \in Nat
  BY SizesAssumption DEF TypeOK
<1>1. CASE TimeBlk
  <2>1. PICK size \in RestSizes :
          rest_size' = Minus(size, 2) /\ blk_end' = pos' + size - 2 /\ blk_bad' = 0
    BY <1>1 DEF TimeBlk
  <2>2. size \in Nat /\ size < UINT /\ 2 \in Nat /\ 2 <= UINT
    BY SizesAssumption, SMT DEF UShort
  <2>3. Minus(size, 2) - size + 2 \in { 0, UINT } /\ Minus(size, 2) \in Nat
    BY <2>2, MinusProps
  <2>4. PICK p \in Nat : p = pos' /\ p = pos + 5
    BY <1>0, <1>1, SMT DEF TimeBlk
  <2>5. p + Minus(size, 2) - (p + size - 2) \in { 0, UINT }
    BY <1>0, <2>2, <2>3, SMT
  <2>6. pc' = "field" /\ pc \in Parsing
    BY <1>1 DEF TimeBlk, AtBlockId, Parsing
  <2>7. BlkCharged' + rest_size' - blk_end' \in { 0, UINT }
    <3>1. BlkCharged' = p
      BY <2>1, <2>4 DEF BlkCharged, Overcharge
    <3> QED
      BY <2>1, <2>4, <2>5, <3>1
  <2> QED
    BY <2>1, <2>4, <2>6, <2>7, SMT DEF Accounting
<1>2. CASE CutTimeBlk
  BY <1>2 DEF CutTimeBlk, Accounting, Parsing
<1>3. CASE EndTimeBlk
  <2>1. pc' = "block" /\ pos' = pos /\ blk_bad' = 0
    BY <1>3 DEF EndTimeBlk
  <2> QED
    BY <1>0, <2>1, SMT DEF Accounting
<1>4. CASE OpenField
  <2>1. CASE pc' = "error"
    BY <2>1 DEF Accounting, Parsing
  <2>2. CASE pc' # "error"
    <3>1. PICK l \in FieldLens :
            /\ pc' = "action" /\ flen' = l /\ len' = l
            /\ fld_end' = pos' + l /\ fld_bad' = 0
      BY <1>4, <2>2 DEF OpenField
    <3>2. l \in Nat
      BY SizesAssumption
    <3>3. /\ pc = "field" /\ pc \in Parsing /\ pos' = pos + 3
          /\ rest_size' = rest_size /\ blk_end' = blk_end /\ blk_bad' = blk_bad
      BY <1>4 DEF OpenField, Parsing, block
    <3>4. PICK p \in Nat : p = pos' /\ p = pos + 3
      BY <1>0, <3>3, SMT
    <3>5. p + l - (p + l) \in { 0, UINT }
      BY <1>0, <3>2, SMT
    <3>6. FldCharged' + len' - fld_end' \in { 0, UINT }
      <4>1. FldCharged' = p
        BY <3>1, <3>4 DEF FldCharged, Overcharge
      <4> QED
        BY <3>1, <3>4, <3>5, <4>1
    <3>7. ((p + l) - l - 3) + 2 * (blk_bad - 0) + rest_size - blk_end \in { 0, UINT }
      BY <1>0, <3>2, <3>3, <3>4, SMT DEF Accounting, BlkCharged, Overcharge
    <3>8. (fld_end' - flen' - 3) + 2 * (blk_bad' - fld_bad') + rest_size' - blk_end'
             \in { 0, UINT }
      BY <3>1, <3>3, <3>4, <3>7
    <3>9. 4 * blk_bad <= p /\ 0 <= blk_bad
      BY <1>0, <3>3, <3>4, SMT DEF Accounting
    <3> QED
      BY <3>1, <3>3, <3>4, <3>6, <3>8, <3>9 DEF Accounting, Overcharge
  <2> QED
    BY <2>1, <2>2
<1>5. CASE CutField
  BY <1>5 DEF CutField, Accounting, Parsing
<1>6. CASE CloseField
  <2>1. /\ pc = "action" /\ pc \in Parsing /\ len = 0 /\ pc' = "field"
        /\ rest_size' = Minus(rest_size, flen + 3)
        /\ pos' = pos /\ blk_bad' = blk_bad /\ blk_end' = blk_end
    BY <1>6 DEF CloseField, FieldSize, Parsing
  <2>2. FldCharged = fld_end
    BY <2>1, FieldAtEnd
  <2>3. (fld_end - flen - 3) + Overcharge * (blk_bad - fld_bad) + rest_size - blk_end
           \in { 0, UINT }
    BY <2>1 DEF Accounting
  <2> DEFINE c == BlkCharged - (flen + 3)
  <2>4. (fld_end - flen - 3) + Overcharge * (blk_bad - fld_bad) = c
    BY <1>0, <2>2, SMT DEF FldCharged, BlkCharged, Overcharge
  <2>5. /\ c \in Int /\ flen + 3 \in Nat /\ c + (flen + 3) = BlkCharged
        /\ c + rest_size - blk_end \in { 0, UINT }
    BY <1>0, <2>3, <2>4, SMT DEF BlkCharged, Overcharge
  <2>6. BlkCharged < UINT
    BY <2>1, ChargedBound
  <2> HIDE DEF c
  <2>7. (c + (flen + 3)) + Minus(rest_size, flen + 3) - blk_end \in { 0, UINT }
    BY <1>0, <2>5, <2>6, Wrap
  <2>8. BlkCharged' + rest_size' - blk_end' \in { 0, UINT }
    <3>1. BlkCharged' = BlkCharged
      BY <2>1 DEF BlkCharged, Overcharge
    <3> QED
      BY <2>1, <2>5, <2>7, <3>1
  <2> QED
    BY <2>1, <2>8 DEF Accounting
<1> QED
  BY <1>1, <1>2, <1>3, <1>4, <1>5, <1>6 DEF Fields

LEMMA AccountingInit == Init => Accounting
  BY SMT DEF Init, Accounting, Parsing

LEMMA AccountingNext == TypeOK /\ Accounting /\ [Next]_vars => Accounting'
<1> SUFFICES ASSUME TypeOK, Accounting, [Next]_vars PROVE Accounting'
  OBVIOUS
<1>1. CASE SkipApm \/ EvalApm
  BY <1>1 DEF SkipApm, EvalApm, Accounting, Parsing
<1>2. CASE Terminated \/ UNCHANGED vars
  BY <1>2 DEF Terminated, vars, Accounting, FldCharged, BlkCharged, Overcharge
<1> QED
  BY <1>1, <1>2, AccountingBlocks, AccountingFields, AccountingActions DEF Next

\* rest_size and len are the distances to the ends of the block and of the field,
\* up to one wrap-around, whatever the stream declares.
THEOREM AccountingCorrect == Spec => []Accounting
<1>1. Init => TypeOK /\ Accounting
  BY TypeInit, AccountingInit
<1>2. TypeOK /\ Accounting /\ [Next]_vars => TypeOK' /\ Accounting'
  BY TypeNext, AccountingNext
<1> QED
  BY <1>1, <1>2, PTL DEF Spec

-----------------------------------------------------------------------------
(***************************************************************************)
(* The ends of fields, of blocks and of the stream.                        *)
(***************************************************************************)

\* The steps of save_time_blk, seen from where they lead.
LEMMA FieldsLead ==
    ASSUME TypeOK, Fields
    PROVE  /\ pc \in { "block", "field", "action" }
           /\ pc' \in { "field", "action", "error", "block" }
           /\ pc = "action" => pc' = "field" /\ len = 0
           /\ pc' = "block" => pc = "field" /\ rest_size = 0
           /\ UNCHANGED leavers
<1>1. CASE TimeBlk \/ CutTimeBlk
  BY <1>1 DEF TimeBlk, CutTimeBlk, AtBlockId
<1>2. CASE EndTimeBlk
  BY <1>2 DEF EndTimeBlk, BlkDone
<1>3. CASE OpenField \/ CutField
  BY <1>3 DEF OpenField, CutField
<1>4. CASE CloseField
  BY <1>4 DEF CloseField
<1> QED
  BY <1>1, <1>2, <1>3, <1>4 DEF Fields

\* The steps of process_action_field never leave it with success.
LEMMA ActionsLead ==
    ASSUME TypeOK, Actions
    PROVE  pc = "action" /\ pc' \in { "action", "error", "wild_call" } /\ UNCHANGED leavers
  BY ActionTurns, ActionsKeep DEF Turn, GaveUp, Charged, leavers

\* A field is left with the cursor two bytes before the end its head declared for each
\* selection record of a bad mode in it, and exactly at that end if it has none; so is a
\* time block.
THEOREM ClosesCorrect == Spec => ClosesShort
<1> DEFINE Step == /\ pc = "action" /\ pc' = "field" => pos = fld_end - Overcharge * fld_bad
                   /\ pc = "field" /\ pc' = "block" => pos = blk_end - Overcharge * blk_bad
<1>1. TypeOK /\ Accounting /\ [Next]_vars => [Step]_vars
  <2> SUFFICES ASSUME TypeOK, Accounting, Next PROVE Step
    OBVIOUS
  <2>1. CASE Blocks
    BY <2>1, BlocksMove DEF Moved
  <2>2. CASE Fields
    <3>1. pos \in Nat /\ fld_bad \in Nat /\ blk_bad \in Nat
      BY DEF TypeOK
    <3>2. pc = "action" /\ pc' = "field" => FldCharged = fld_end
      BY <2>2, FieldsLead, FieldAtEnd
    <3>3. pc = "field" /\ pc' = "block" => BlkCharged = blk_end
      BY <2>2, FieldsLead, BlockAtEnd
    <3>4. /\ FldCharged - Overcharge * fld_bad = pos
          /\ BlkCharged - Overcharge * blk_bad = pos
      BY <3>1, SMT DEF FldCharged, BlkCharged, Overcharge
    <3> QED
      BY <3>2, <3>3, <3>4
  <2>3. CASE Actions
    BY <2>3, ActionsLead
  <2>4. CASE SkipApm \/ EvalApm \/ Terminated
    BY <2>4 DEF SkipApm, EvalApm, Terminated, Ended, vars
  <2> QED
    BY <2>1, <2>2, <2>3, <2>4 DEF Next
<1> QED
  BY <1>1, TypeCorrect, AccountingCorrect, PTL DEF Spec, ClosesShort

LEMMA SuccessInit == Init => SuccessAtEnd
  BY DEF Init, SuccessAtEnd

\* save_leave_blk, the only block that can be the last one.
LEMMA SuccessLeave == TypeOK /\ SuccessAtEnd /\ LeaveBlk => SuccessAtEnd'
<1> SUFFICES ASSUME TypeOK, SuccessAtEnd, LeaveBlk PROVE SuccessAtEnd'
  OBVIOUS
<1>1. saver = {} /\ mmt' = mmt
  BY DEF LeaveBlk, AtBlockId, SuccessAtEnd, clock
<1>2. CASE pc' # "parsed"
  BY <1>1, <1>2 DEF LeaveBlk, SuccessAtEnd, leavers
<1>3. CASE pc' = "parsed"
  <2>1. PICK joiner \in Joiners :
          /\ leave_mmt' = [leave_mmt EXCEPT ![joiner] = mmt]
          /\ last' = joiner /\ saver' = saver \cup { joiner } /\ pos' = Lim
    BY <1>3 DEF LeaveBlk, AtLim
  <2>2. leave_mmt'[joiner] = mmt
    BY <2>1 DEF TypeOK
  <2> QED
    BY <1>1, <1>3, <2>1, <2>2 DEF SuccessAtEnd
<1> QED
  BY <1>2, <1>3

LEMMA SuccessNext == TypeOK /\ SuccessAtEnd /\ [Next]_vars => SuccessAtEnd'
<1> SUFFICES ASSUME TypeOK, SuccessAtEnd, [Next]_vars PROVE SuccessAtEnd'
  OBVIOUS
<1>1. CASE Blocks
  <2>1. CASE LeaveBlk
    BY <2>1, SuccessLeave
  <2>2. CASE ~LeaveBlk
    <3> DEFINE Kept == pc' \in { "block", "error" } /\ saver' = saver
    <3>1. AllocTable => Kept
      BY DEF AllocTable, leavers
    <3>2. EndOfStream => Kept
      BY DEF EndOfStream, leavers
    <3>3. UnknownBlk => Kept
      BY DEF UnknownBlk, leavers
    <3>4. ChatBlkNoMemory => Kept
      BY DEF ChatBlkNoMemory, leavers
    <3>5. SkipBlk => Kept
      BY DEF SkipBlk, leavers
    <3>6. ChatBlk => Kept
      BY DEF ChatBlk, leavers
    <3>7. CutChatBlk => Kept
      BY DEF CutChatBlk, AtBlockId, leavers
    <3>8. Kept
      BY <1>1, <2>2, <3>1, <3>2, <3>3, <3>4, <3>5, <3>6, <3>7 DEF Blocks
    <3>9. pc \in { "alloc", "block" }
      BY <1>1, BlocksMove DEF Moved
    <3> QED
      BY <3>8, <3>9 DEF SuccessAtEnd
  <2> QED
    BY <2>1, <2>2
<1>2. CASE Fields
  BY <1>2, FieldsLead DEF SuccessAtEnd, leavers
<1>3. CASE Actions
  BY <1>3, ActionsLead DEF SuccessAtEnd, leavers
<1>4. CASE SkipApm \/ EvalApm
  BY <1>4 DEF SkipApm, EvalApm, SuccessAtEnd, leavers, clock
<1>5. CASE Terminated \/ UNCHANGED vars
  BY <1>5 DEF Terminated, vars, SuccessAtEnd
<1> QED
  BY <1>1, <1>2, <1>3, <1>4, <1>5 DEF Next

\* save_dyn_blk_seq succeeds only behind a leave block that ends with the stream,
\* and the leaver it names is the one who saved the replay.
THEOREM SuccessCorrect == Spec => []SuccessAtEnd
<1>1. Init => SuccessAtEnd
  BY SuccessInit
<1> QED
  BY <1>1, SuccessNext, TypeCorrect, PTL DEF Spec

-----------------------------------------------------------------------------
(***************************************************************************)
(* The dynamic part is a sequence of blocks: DynStream implements          *)
(* BlockGrammar.                                                           *)
(***************************************************************************)
Where ==
    IF pc \in { "alloc", "block" } THEN "between"
    ELSE IF pc \in { "field", "action" } THEN "inside"
    ELSE IF pc \in { "error", "wild_call" } THEN "rejected"
    ELSE "accepted"

Seen == <<Where, pos, blk_bad, blk_end>>

\* A step of BlockGrammar, or none, for the position that the parser shows.
BlockStep == BlockGrammar!Next \/ UNCHANGED Seen

\* Giving up.
LEMMA RejectStep ==
    ASSUME pc \in Parsing, pc' \in { "error", "wild_call" }, pos' >= pos,
           UNCHANGED <<blk_bad, blk_end>>
    PROVE  BlockStep
  BY DEF BlockStep, BlockGrammar!Next, BlockGrammar!Reject, Parsing

LEMMA GrammarActions == TypeOK /\ Actions => BlockStep
<1> SUFFICES ASSUME TypeOK, Actions PROVE BlockStep
  OBVIOUS
<1>1. pc = "action" /\ blk_end' = blk_end
  BY ActionsKeep
<1>2. CASE GaveUp
  BY <1>1, <1>2, RejectStep DEF GaveUp, SameBad, Parsing
<1>3. CASE \E n \in Nat : Charged(n)
  <2>1. pc' = "action" /\ pos' \in (pos + 1)..Lim /\ blk_bad' \in { blk_bad, blk_bad + 1 }
    BY <1>3, SizesAssumption, SMT DEF Charged, SameBad, TypeOK
  <2> QED
    BY <1>1, <2>1 DEF BlockStep, BlockGrammar!Next, BlockGrammar!Consume
<1> QED
  BY <1>2, <1>3, ActionTurns DEF Turn

LEMMA GrammarFields == TypeOK /\ Accounting /\ Fields => BlockStep
<1> SUFFICES ASSUME TypeOK, Accounting, Fields PROVE BlockStep
  OBVIOUS
<1>0. pos \in Nat /\ blk_bad \in Nat /\ Lim \in Nat
  BY SizesAssumption DEF TypeOK
<1>1. CASE TimeBlk
  <2>1. PICK size \in RestSizes : blk_end' = pos' + size - 2
    BY <1>1 DEF TimeBlk
  <2>2. /\ pc = "block" /\ pc' = "field" /\ blk_bad' = 0
        /\ pos' = pos + 5 /\ pos' <= Lim
    BY <1>1, SMT DEF TimeBlk, AtBlockId
  <2>3. PICK p \in Nat : p = pos'
    BY <1>0, <2>2, SMT
  <2>4. /\ p + size - 2 >= p - 2
        /\ p + size - 2 <= p + 65533
    BY <1>0, SizesAssumption, SMT DEF UShort
  <2>5. blk_end' >= pos' - 2 /\ blk_end' <= pos' + 65533
    BY <2>1, <2>3, <2>4
  <2> QED
    BY <2>2, <2>5 DEF BlockStep, BlockGrammar!Next, BlockGrammar!Open,
       BlockGrammar!TimeHeadLen
<1>2. CASE CutTimeBlk
  <2>1. { 0, 2 } \in SUBSET Nat /\ pos + 1 \in Nat
    BY <1>0, SMT
  <2>2. pos' >= pos + 1 /\ pos' \in Nat
    BY <1>2, <2>1, StopsInside DEF CutTimeBlk
  <2>3. pos' >= pos
    BY <1>0, <2>2, SMT
  <2> QED
    BY <1>2, <2>3, RejectStep DEF CutTimeBlk, AtBlockId, Parsing, block
<1>3. CASE EndTimeBlk
  <2>1. pos = blk_end - 2 * blk_bad
    <3>1. BlkCharged = blk_end
      BY <1>3, BlockAtEnd DEF EndTimeBlk, BlkDone
    <3> QED
      BY <1>0, <3>1, SMT DEF BlkCharged, Overcharge
  <2> QED
    BY <1>3, <2>1 DEF EndTimeBlk, BlockStep, BlockGrammar!Next, BlockGrammar!Close
<1>4. CASE OpenField
  <2>1. /\ pc = "field" /\ UNCHANGED <<blk_bad, blk_end>>
        /\ pc' \in { "error", "action" }
    BY <1>4 DEF OpenField, block
  <2>2. pos' \in (pos + 1)..Lim /\ pos' >= pos
    BY <1>0, <1>4, SMT DEF OpenField
  <2>3. CASE pc' = "error"
    BY <2>1, <2>2, <2>3, RejectStep DEF Parsing
  <2>4. CASE pc' = "action"
    BY <2>1, <2>2, <2>4 DEF BlockStep, BlockGrammar!Next, BlockGrammar!Consume
  <2> QED
    BY <2>1, <2>3, <2>4
<1>5. CASE CutField
  <2>1. { 0, 1 } \in SUBSET Nat
    BY SMT
  <2>2. pos' >= pos
    BY <1>0, <1>5, <2>1, StopsInside DEF CutField
  <2> QED
    BY <1>5, <2>2, RejectStep DEF CutField, Parsing, block
<1>6. CASE CloseField
  BY <1>6 DEF CloseField, BlockStep, Seen, Where
<1> QED
  BY <1>1, <1>2, <1>3, <1>4, <1>5, <1>6 DEF Fields

LEMMA GrammarBlocks == TypeOK /\ Blocks => BlockStep
<1> SUFFICES ASSUME TypeOK, Blocks PROVE BlockStep
  OBVIOUS
<1>0. /\ pos \in Nat /\ Lim \in Nat
      /\ pc \in { "alloc", "block" } /\ pc' \in { "block", "error", "parsed" }
      /\ pos' \in Nat /\ pos' >= pos
  BY SizesAssumption, BlocksMove DEF TypeOK, Moved
<1>1. UNCHANGED <<blk_bad, blk_end>>
  BY BlocksMove DEF Moved
<1>2. CASE pc' = "error"
  BY <1>0, <1>1, <1>2, RejectStep DEF Parsing
<1>3. CASE pc' = "block"
  <2>1. pos' = pos \/ pos' \in (pos + 1)..Lim
    BY <1>0, <1>3, TypeBlocks, SMT DEF TypeOK, Parsing
  <2> QED
    BY <1>0, <1>1, <1>3, <2>1
       DEF BlockStep, Seen, Where, BlockGrammar!Next, BlockGrammar!Skip, BlockGrammar!IdLen
<1>4. CASE pc' = "parsed"
  <2>1. pos' = pos + 14 /\ pos' = Lim
    BY <1>4 DEF Blocks, AtLim, AllocTable, EndOfStream, UnknownBlk, SkipBlk, LeaveBlk,
       ChatBlk, CutChatBlk, ChatBlkNoMemory, AtBlockId
  <2> QED
    BY <1>0, <1>1, <1>4, <2>1
       DEF BlockStep, BlockGrammar!Next, BlockGrammar!Accept, BlockGrammar!LeaveLen
<1> QED
  BY <1>0, <1>2, <1>3, <1>4

LEMMA GrammarNext == TypeOK /\ Accounting /\ [Next]_vars => BlockStep
<1> SUFFICES ASSUME TypeOK, Accounting, [Next]_vars PROVE BlockStep
  OBVIOUS
<1>1. CASE SkipApm \/ EvalApm
  BY <1>1 DEF SkipApm, EvalApm, BlockStep, Seen, Where, block
<1>2. CASE Terminated \/ UNCHANGED vars
  BY <1>2 DEF Terminated, vars, BlockStep, Seen, Where
<1> QED
  BY <1>1, <1>2, GrammarBlocks, GrammarFields, GrammarActions DEF Next

\* Blocks follow each other without a gap, time blocks are left where they end by their
\* heads, but for two bytes per selection record of a bad mode, and success is behind a
\* last block that ends with the stream.
THEOREM GrammarCorrect == Spec => Grammar
<1>1. Init => BlockGrammar!Init
  BY DEF Init, BlockGrammar!Init
<1>2. TypeOK /\ Accounting /\ [Next]_vars => [BlockGrammar!Next]_(BlockGrammar!vars)
  BY GrammarNext DEF BlockStep, Seen, Where, BlockGrammar!vars
<1> QED
  BY <1>1, <1>2, TypeCorrect, AccountingCorrect, PTL DEF Spec, Grammar, BlockGrammar!Spec

-----------------------------------------------------------------------------
(***************************************************************************)
(* The lists and the clock.                                                *)
(***************************************************************************)

\* An entry of the present moment goes to the end.
LEMMA AppendInOrder ==
    ASSUME NEW S, \A s \in S : s.mmt \in Nat,
           NEW ls \in Seq(S), NEW e \in S, NEW now \in Nat, e.mmt = now, InOrder(ls, now)
    PROVE  InOrder(Append(ls, e), now)
<1> DEFINE new == Append(ls, e)
<1>1. /\ DOMAIN new = 1..(Len(ls) + 1) /\ DOMAIN ls = 1..Len(ls) /\ Len(ls) \in Nat
      /\ \A i \in 1..Len(ls) : new[i] = ls[i]
      /\ new[Len(ls) + 1] = e
  BY AppendProperties, LenProperties
<1> HIDE DEF new
<1>2. \A i \in 1..Len(ls) : ls[i].mmt \in Nat /\ ls[i].mmt <= now
  BY <1>1, ElementOfSeq DEF InOrder
<1>3. \A i \in DOMAIN new : new[i].mmt <= now
  BY <1>1, <1>2, SMT
<1>4. ASSUME NEW i \in DOMAIN new, NEW j \in DOMAIN new, i <= j
      PROVE  new[i].mmt <= new[j].mmt
  <2>1. CASE j = Len(ls) + 1
    BY <1>1, <1>3, <2>1
  <2>2. CASE j # Len(ls) + 1
    <3>1. i \in 1..Len(ls) /\ j \in 1..Len(ls)
      BY <1>1, <1>4, <2>2, SMT
    <3> QED
      BY <1>1, <1>4, <3>1 DEF InOrder
  <2> QED
    BY <2>1, <2>2
<1> QED
  BY <1>3, <1>4 DEF InOrder, new

LEMMA AddInOrder ==
    ASSUME TypeOK, pc = "action", NEW ls \in Seq(Entry), NEW ok \in BOOLEAN,
           InOrder(ls, mmt)
    PROVE  InOrder(AddAction(ls, ok), mmt)
<1>1. [joiner |-> cur, mmt |-> mmt] \in Entry /\ mmt \in Nat
  BY DEF TypeOK, Entry
<1>2. \A e \in Entry : e.mmt \in Nat
  BY DEF Entry
<1>3. InOrder(Append(ls, [joiner |-> cur, mmt |-> mmt]), mmt)
  BY <1>1, <1>2, AppendInOrder
<1> QED
  BY <1>3 DEF AddAction

\* The clock moves on, the list stays.
LEMMA LaterInOrder ==
    ASSUME NEW S, \A s \in S : s.mmt \in Nat, NEW ls \in Seq(S),
           NEW now \in Nat, NEW later \in Nat, now <= later, InOrder(ls, now)
    PROVE  InOrder(ls, later)
<1>1. \A i \in DOMAIN ls : ls[i].mmt \in Nat /\ ls[i].mmt <= now
  BY ElementOfSeq, LenProperties DEF InOrder
<1>2. \A i \in DOMAIN ls : ls[i].mmt <= later
  BY <1>1, SMT
<1> QED
  BY <1>2 DEF InOrder

\* What a turn of process_action_field appends: nothing, an entry, or two.
LEMMA ActionsInOrder ==
    ASSUME TypeOK, InOrder(action_ls, mmt), Actions
    PROVE  InOrder(action_ls', mmt)
<1>1. pc = "action"
  BY ActionsKeep
<1>2. action_ls \in Seq(Entry)
  BY DEF TypeOK, Entry
<1>3. action_ls' = action_ls => InOrder(action_ls', mmt)
  OBVIOUS
<1>4. (\E ok \in MallocResults : CountAndLog(ok)) => InOrder(action_ls', mmt)
  BY <1>1, <1>2, SizesAssumption, AddInOrder DEF CountAndLog
<1>5. CASE Ability1Action
  <2>1. PICK ok1 \in BOOLEAN, ok2 \in BOOLEAN :
          action_ls' = AddAction(AddAction(action_ls, ok1), ok2)
    BY <1>5, SizesAssumption DEF Ability1Action
  <2>2. AddAction(action_ls, ok1) \in Seq(Entry) /\ InOrder(AddAction(action_ls, ok1), mmt)
    BY <1>1, <1>2, AddTyped, AddInOrder
  <2>3. InOrder(AddAction(AddAction(action_ls, ok1), ok2), mmt)
    BY <1>1, <2>2, AddInOrder
  <2> QED
    BY <2>1, <2>3
<1>6. CASE CutActionId \/ BadActionId \/ UnusedActionId \/ StringAction
           \/ CutItemsAction \/ BadModeAction \/ UncountedAction
  BY <1>3, <1>6 DEF CutActionId, BadActionId, UnusedActionId, StringAction,
     CutItemsAction, BadModeAction, UncountedAction, tally
<1>7. CASE CountedFirstAction \/ CountedAfterAction \/ SubgroupAction
           \/ AssignGroupHotkeyAction \/ SelectAction \/ DeselectAction
  BY <1>3, <1>4, <1>7 DEF CountedFirstAction, CountedAfterAction, SubgroupAction,
     AssignGroupHotkeyAction, SelectAction, DeselectAction, tally
<1> QED
  BY <1>5, <1>6, <1>7 DEF Actions

\* A message of the present moment, with the next number.
LEMMA ChatInOrder ==
    ASSUME TypeOK, Chronological, ChatBlk
    PROVE  /\ InOrder(chat_ls', mmt)
           /\ \A i \in DOMAIN chat_ls' : chat_ls'[i].no = i - 1
<1> DEFINE S == [mmt : Nat, no : Nat]
           e == [mmt |-> mmt, no |-> Len(chat_ls)]
           new == Append(chat_ls, e)
<1>1. chat_ls \in Seq(S) /\ mmt \in Nat /\ \A s \in S : s.mmt \in Nat
  BY DEF TypeOK
<1>2. e \in S /\ e.mmt = mmt /\ e.no = Len(chat_ls) /\ Len(chat_ls) \in Nat
  BY <1>1, LenProperties
<1>3. InOrder(new, mmt)
  <2> HIDE DEF S, e
  <2> QED
    BY <1>1, <1>2, AppendInOrder DEF Chronological
<1>4. \A i \in DOMAIN new : new[i].no = i - 1
  <2> HIDE DEF S, e
  <2>1. /\ DOMAIN new = 1..(Len(chat_ls) + 1) /\ DOMAIN chat_ls = 1..Len(chat_ls)
        /\ \A i \in 1..Len(chat_ls) : new[i] = chat_ls[i]
        /\ new[Len(chat_ls) + 1] = e
    BY <1>1, <1>2, AppendProperties, LenProperties
  <2>2. \A i \in 1..Len(chat_ls) : chat_ls[i].no = i - 1
    BY <2>1 DEF Chronological
  <2> HIDE DEF new
  <2> QED
    BY <1>2, <2>1, <2>2, SMT
<1>5. chat_ls' = new \/ chat_ls' = chat_ls
  BY DEF ChatBlk
<1> QED
  BY <1>3, <1>4, <1>5 DEF Chronological

LEMMA ChronologicalInit == Init => Chronological
  BY SMT DEF Init, Chronological, InOrder

LEMMA ChronologicalBlocks == TypeOK /\ Chronological /\ Blocks => Chronological'
<1> SUFFICES ASSUME TypeOK, Chronological, Blocks PROVE Chronological'
  OBVIOUS
<1>1. UNCHANGED <<mmt, action_ls, chat_ls, leave_mmt>> => Chronological'
  BY DEF Chronological, InOrder
<1>2. CASE LeaveBlk
  <2>1. UNCHANGED <<mmt, action_ls, chat_ls>>
    BY <1>2 DEF LeaveBlk, clock, tally
  <2>2. \A j \in Joiners : leave_mmt[j] <= mmt
    BY DEF Chronological
  <2>3. mmt <= mmt
    BY SMT DEF TypeOK
  <2>4. leave_mmt \in [Joiners -> Nat]
    BY DEF TypeOK
  <2>5. \/ leave_mmt' = leave_mmt
        \/ \E joiner : leave_mmt' = [leave_mmt EXCEPT ![joiner] = mmt]
    BY <1>2 DEF LeaveBlk, leavers
  <2>6. \A j \in Joiners : leave_mmt'[j] <= mmt
    BY <2>2, <2>3, <2>4, <2>5
  <2> QED
    BY <2>1, <2>6 DEF Chronological, InOrder
<1>3. CASE ChatBlk
  <2>1. UNCHANGED <<mmt, action_ls, leave_mmt>>
    BY <1>3 DEF ChatBlk, clock, tally, leavers
  <2> QED
    BY <1>3, <2>1, ChatInOrder DEF Chronological
<1>4. AllocTable \/ EndOfStream => Chronological'
  BY <1>1 DEF AllocTable, EndOfStream, clock, tally, leavers
<1>5. UnknownBlk \/ SkipBlk => Chronological'
  BY <1>1 DEF UnknownBlk, SkipBlk, clock, tally, leavers
<1>6. CutChatBlk => Chronological'
  BY <1>1 DEF CutChatBlk, clock, tally, leavers
<1>7. ChatBlkNoMemory => Chronological'
  BY <1>1 DEF ChatBlkNoMemory, clock, tally, leavers
<1> QED
  BY <1>2, <1>3, <1>4, <1>5, <1>6, <1>7 DEF Blocks

\* The clock moves on at the head of a time block, and never back.
LEMMA ChronologicalFields == TypeOK /\ Chronological /\ Fields => Chronological'
<1> SUFFICES ASSUME TypeOK, Chronological, Fields PROVE Chronological'
  OBVIOUS
<1>1. UNCHANGED <<action_ls, chat_ls, leave_mmt>>
  BY DEF Fields, TimeBlk, CutTimeBlk, EndTimeBlk, OpenField, CutField, CloseField,
         tally, leavers
<1>2. PICK later \in Nat : later = mmt' /\ mmt <= later
  <2>1. mmt \in Nat
    BY DEF TypeOK
  <2>2. CASE TimeBlk
    <3>1. PICK inc \in TimeIncs : mmt' = ClockAfter(inc)
      BY <2>2 DEF TimeBlk
    <3>2. ClockAfter(inc) \in Nat /\ mmt <= ClockAfter(inc)
      BY <2>1, SizesAssumption, SMT DEF ClockAfter
    <3> QED
      BY <3>1, <3>2
  <2>3. CASE mmt' = mmt
    BY <2>1, <2>3, SMT
  <2> QED
    BY <2>2, <2>3
       DEF Fields, CutTimeBlk, EndTimeBlk, OpenField, CutField, CloseField, clock
<1>3. InOrder(action_ls, later) /\ InOrder(chat_ls, later)
  <2>1. /\ action_ls \in Seq(Entry) /\ \A e \in Entry : e.mmt \in Nat
        /\ mmt \in Nat
    BY DEF TypeOK, Entry
  <2>2. /\ chat_ls \in Seq([mmt : Nat, no : Nat])
        /\ \A s \in [mmt : Nat, no : Nat] : s.mmt \in Nat
    BY DEF TypeOK
  <2>3. InOrder(action_ls, mmt) /\ InOrder(chat_ls, mmt)
    BY DEF Chronological
  <2>4. InOrder(action_ls, later)
    BY <1>2, <2>1, <2>3, LaterInOrder
  <2>5. InOrder(chat_ls, later)
    BY <1>2, <2>1, <2>2, <2>3, LaterInOrder
  <2> QED
    BY <2>4, <2>5
<1>4. \A j \in Joiners : leave_mmt[j] <= later
  BY <1>2, SMT DEF TypeOK, Chronological
<1> QED
  BY <1>1, <1>2, <1>3, <1>4 DEF Chronological

LEMMA ChronologicalNext == TypeOK /\ Chronological /\ [Next]_vars => Chronological'
<1> SUFFICES ASSUME TypeOK, Chronological, [Next]_vars PROVE Chronological'
  OBVIOUS
<1>1. CASE Actions
  <2>1. UNCHANGED <<mmt, chat_ls, leave_mmt>>
    BY <1>1, ActionsKeep
  <2>2. InOrder(action_ls', mmt)
    BY <1>1, ActionsInOrder DEF Chronological
  <2> QED
    BY <2>1, <2>2 DEF Chronological
<1>2. UNCHANGED <<mmt, action_ls, chat_ls, leave_mmt>> => Chronological'
  BY DEF Chronological
<1>3. CASE SkipApm \/ EvalApm
  BY <1>2, <1>3 DEF SkipApm, EvalApm, clock, tally, leavers
<1>4. CASE Terminated \/ UNCHANGED vars
  BY <1>2, <1>4 DEF Terminated, vars
<1> QED
  BY <1>1, <1>3, <1>4, ChronologicalBlocks, ChronologicalFields DEF Next

\* Actions, messages and leavers are in the order of the game clock, however the
\* stream interleaves blocks, fields, pauses and failures.
THEOREM ChronologicalCorrect == Spec => []Chronological
<1>1. Init => Chronological
  BY ChronologicalInit
<1> QED
  BY <1>1, ChronologicalNext, TypeCorrect, PTL DEF Spec

-----------------------------------------------------------------------------
(***************************************************************************)
(* The log of actions and the counters of the joiners.                     *)
(***************************************************************************)
LogCount(ls, j) == Cardinality({ i \in DOMAIN ls : ls[i].joiner = j })

\* An entry of the log is counted for its joiner and for no other.
LEMMA LogAppend ==
    ASSUME NEW ls \in Seq(Entry), NEW e \in Entry, NEW j
    PROVE  /\ LogCount(ls, j) \in Nat /\ Append(ls, e) \in Seq(Entry)
           /\ LogCount(Append(ls, e), j)
                = LogCount(ls, j) + (IF e.joiner = j THEN 1 ELSE 0)
<1> DEFINE P == { i \in DOMAIN ls : ls[i].joiner = j }
           new == Append(ls, e)
           Q == { i \in DOMAIN new : new[i].joiner = j }
<1>1. DOMAIN ls = 1..Len(ls) /\ Len(ls) \in Nat
  BY LenProperties
<1>2. /\ new \in Seq(Entry) /\ Len(new) = Len(ls) + 1 /\ new[Len(ls) + 1] = e
      /\ \A i \in 1..Len(ls) : new[i] = ls[i]
  BY AppendProperties
<1>3. DOMAIN new = 1..(Len(ls) + 1)
  BY <1>2, LenProperties
<1>4. IsFiniteSet(P) /\ Cardinality(P) \in Nat
  <2>1. IsFiniteSet(1..Len(ls)) /\ P \in SUBSET (1..Len(ls))
    BY <1>1, FS_Interval
  <2> QED
    BY <2>1, FS_Subset, FS_CardinalityType
<1> HIDE DEF new
<1>5. Cardinality(Q) = Cardinality(P) + (IF e.joiner = j THEN 1 ELSE 0)
  <2>1. CASE e.joiner = j
    <3>1. Q = P \cup { Len(ls) + 1 } /\ Len(ls) + 1 \notin P
      BY <1>1, <1>2, <1>3, <2>1
    <3> HIDE DEF P, Q
    <3> QED
      BY <1>4, <2>1, <3>1, FS_AddElement
  <2>2. CASE e.joiner # j
    <3>1. Q = P
      BY <1>1, <1>2, <1>3, <2>2
    <3> HIDE DEF P, Q
    <3> QED
      BY <1>4, <2>2, <3>1
  <2> QED
    BY <2>1, <2>2
<1> QED
  BY <1>2, <1>4, <1>5 DEF LogCount, new

\* The handlers that log twice are registered from 1.13 on.
LEMMA TwiceFrom113 ==
    ASSUME TypeOK, "ability_1_ge_113" \in Handlers[build]
    PROVE  ~(build < 6037)
<1>1. "ability_1_ge_113" \in Registered(build)
  BY DEF TypeOK, Handlers
<1>2. PICK entry \in ActionTable(build) : entry[2] = "ability_1_ge_113"
  BY <1>1 DEF Registered
<1>3. entry \notin Common
  BY <1>2 DEF Common
<1>4. entry \notin SubmenuEntries(build)
  BY <1>2 DEF SubmenuEntries
<1>5. entry \notin SubgroupEntries(build) /\ entry \notin ItemEntries(build)
  BY <1>2 DEF SubgroupEntries, ItemEntries
<1>6. entry \in AbilityEntries(build)
  BY <1>2, <1>3, <1>4, <1>5 DEF ActionTable
<1> QED
  BY <1>2, <1>6, SizesAssumption DEF AbilityEntries, TypeOK

\* What a step does to log and counters: nothing; one action with one entry, if there
\* is memory; or, from 1.13 on, one action with two.
LoggedOnce == CountAction /\ \E ok \in BOOLEAN :
    action_ls' = AddAction(action_ls, ok) /\ oom' = (oom \/ ~ok)

LoggedTwice == CountAction /\ ~(build < 6037) /\ \E ok1, ok2 \in BOOLEAN :
    /\ action_ls' = AddAction(AddAction(action_ls, ok1), ok2)
    /\ oom' = (oom \/ ~ok1 \/ ~ok2)

LogStep == UNCHANGED tally \/ LoggedOnce \/ LoggedTwice

LEMMA CountAndLogSteps ==
    ASSUME NEW ok \in MallocResults, CountAndLog(ok)
    PROVE  LogStep
  BY SizesAssumption DEF CountAndLog, LogStep, LoggedOnce

LEMMA ActionsLog == TypeOK /\ Actions => LogStep /\ pc = "action" /\ build' = build
<1> SUFFICES ASSUME TypeOK, Actions PROVE LogStep /\ pc = "action" /\ build' = build
  OBVIOUS
<1>1. CASE CutActionId \/ BadActionId \/ UnusedActionId \/ UncountedAction
             \/ StringAction \/ CutItemsAction \/ BadModeAction
  BY <1>1 DEF CutActionId, BadActionId, UnusedActionId, UncountedAction, StringAction,
              CutItemsAction, BadModeAction, AtActionId, LogStep
<1>2. CASE CountedFirstAction
  BY <1>2, CountAndLogSteps DEF CountedFirstAction, AtActionId
<1>3. CASE Ability1Action
  BY <1>3, TwiceFrom113, SizesAssumption
     DEF Ability1Action, AtActionId, LogStep, LoggedTwice
<1>4. CASE CountedAfterAction
  BY <1>4, CountAndLogSteps DEF CountedAfterAction, AtActionId, LogStep
<1>5. CASE SubgroupAction
  BY <1>5, CountAndLogSteps DEF SubgroupAction, AtActionId, LogStep
<1>6. CASE AssignGroupHotkeyAction
  BY <1>6, CountAndLogSteps DEF AssignGroupHotkeyAction, AtActionId, LogStep
<1>7. CASE SelectAction \/ DeselectAction
  BY <1>7, CountAndLogSteps DEF SelectAction, DeselectAction, AtActionId, LogStep
<1> QED
  BY <1>1, <1>2, <1>3, <1>4, <1>5, <1>6, <1>7 DEF Actions

\* As long as memory lasts an action has its entry, or its two.
LEMMA LogGrows ==
    ASSUME TypeOK, LogStep, pc = "action", ~oom', NEW j \in Joiners
    PROVE  \/ Logged(j)' = Logged(j) /\ apm'[j] = apm[j]
           \/ Logged(j)' = Logged(j) + 1 /\ apm'[j] = apm[j] + 1
           \/ Logged(j)' = Logged(j) + 2 /\ apm'[j] = apm[j] + 1 /\ ~(build < 6037)
<1> DEFINE e == [joiner |-> cur, mmt |-> mmt]
           once == Append(action_ls, e)
           twice == Append(once, e)
<1>1. e \in Entry /\ action_ls \in Seq(Entry) /\ apm \in [Joiners -> Nat] /\ e.joiner = cur
  BY DEF TypeOK, Entry
<1> HIDE DEF e
<1>2. /\ LogCount(action_ls, j) \in Nat /\ once \in Seq(Entry)
      /\ LogCount(once, j) = LogCount(action_ls, j) + (IF cur = j THEN 1 ELSE 0)
  BY <1>1, LogAppend
<1> HIDE DEF once
<1>3. LogCount(twice, j) = LogCount(once, j) + (IF cur = j THEN 1 ELSE 0)
  BY <1>1, <1>2, LogAppend
<1> HIDE DEF twice
<1>4. Logged(j) = LogCount(action_ls, j) /\ Logged(j)' = LogCount(action_ls', j)
  BY DEF Logged, LogCount
<1>5. CASE UNCHANGED tally
  BY <1>4, <1>5 DEF tally
<1>6. CASE LoggedOnce
  <2>1. action_ls' = once
    BY <1>6 DEF LoggedOnce, AddAction, once, e
  <2>2. apm'[j] = IF cur = j THEN apm[j] + 1 ELSE apm[j]
    BY <1>1, <1>6 DEF LoggedOnce, CountAction
  <2> QED
    BY <1>2, <1>4, <2>1, <2>2
<1>7. CASE LoggedTwice
  <2>1. action_ls' = twice
    <3>1. PICK ok1, ok2 \in BOOLEAN :
            /\ action_ls' = AddAction(AddAction(action_ls, ok1), ok2)
            /\ oom' = (oom \/ ~ok1 \/ ~ok2)
      BY <1>7 DEF LoggedTwice
    <3>2. ok1 = TRUE /\ ok2 = TRUE
      BY <3>1, Zenon
    <3> QED
      BY <3>1, <3>2 DEF AddAction, once, twice, e
  <2>2. apm'[j] = IF cur = j THEN apm[j] + 1 ELSE apm[j]
    BY <1>1, <1>7 DEF LoggedTwice, CountAction
  <2>3. ~(build < 6037)
    BY <1>7 DEF LoggedTwice
  <2> QED
    BY <1>2, <1>3, <1>4, <2>1, <2>2, <2>3
<1> QED
  BY <1>5, <1>6, <1>7 DEF LogStep

LEMMA LogActions == TypeOK /\ LogMatchesApm /\ Actions => LogMatchesApm'
<1> SUFFICES ASSUME TypeOK, LogMatchesApm, Actions, ~oom', NEW j \in Joiners
             PROVE  /\ Logged(j)' >= apm'[j]
                    /\ Logged(j)' <= (IF build' < 6037 THEN apm'[j] ELSE 2 * apm'[j])
  BY DEF LogMatchesApm
<1>1. LogStep /\ pc = "action" /\ build' = build
  BY ActionsLog
<1>2. ~oom
  <2>1. CASE UNCHANGED tally
    BY <2>1 DEF tally
  <2>2. CASE LoggedOnce
    BY <2>2, Zenon DEF LoggedOnce
  <2>3. CASE LoggedTwice
    <3>1. PICK ok1, ok2 \in BOOLEAN : oom' = (oom \/ ~ok1 \/ ~ok2)
      BY <2>3 DEF LoggedTwice
    <3> QED
      BY <3>1, Zenon
  <2> QED
    BY <1>1, <2>1, <2>2, <2>3 DEF LogStep
<1>3. /\ Logged(j) >= apm[j]
      /\ Logged(j) <= (IF build < 6037 THEN apm[j] ELSE 2 * apm[j])
  BY <1>1, <1>2 DEF LogMatchesApm
<1>4. Logged(j) \in Nat /\ apm[j] \in Nat
  <2>1. action_ls \in Seq(Entry) /\ [joiner |-> j, mmt |-> 0] \in Entry
    BY DEF TypeOK, Entry
  <2>2. LogCount(action_ls, j) \in Nat
    BY <2>1, LogAppend
  <2> QED
    BY <2>2 DEF Logged, LogCount, TypeOK
<1>5. \/ Logged(j)' = Logged(j) /\ apm'[j] = apm[j]
      \/ Logged(j)' = Logged(j) + 1 /\ apm'[j] = apm[j] + 1
      \/ Logged(j)' = Logged(j) + 2 /\ apm'[j] = apm[j] + 1 /\ ~(build < 6037)
  BY <1>1, LogGrows
<1> QED
  BY <1>1, <1>3, <1>4, <1>5

\* The steps that are no actions count and log nothing; EvalApm turns the counters
\* into something else, and the parser has returned then.
LEMMA LogRests ==
    ASSUME LogMatchesApm, UNCHANGED <<build, action_ls, apm, oom>>, pc # "returned"
    PROVE  LogMatchesApm'
  BY DEF LogMatchesApm, Logged

LEMMA LogNext == TypeOK /\ LogMatchesApm /\ [Next]_vars => LogMatchesApm'
<1> SUFFICES ASSUME TypeOK, LogMatchesApm, [Next]_vars PROVE LogMatchesApm'
  OBVIOUS
<1>1. CASE Actions
  BY <1>1, LogActions
<1>2. CASE Blocks
  <2>1. UNCHANGED <<build, tally>> /\ pc # "returned"
    <3>1. CASE AllocTable \/ EndOfStream \/ UnknownBlk
      BY <3>1 DEF AllocTable, EndOfStream, UnknownBlk, AtBlockId
    <3>2. CASE SkipBlk \/ LeaveBlk
      BY <3>2 DEF SkipBlk, LeaveBlk, AtBlockId
    <3>3. CASE ChatBlk
      BY <3>3 DEF ChatBlk, AtBlockId
    <3>4. CASE CutChatBlk
      BY <3>4 DEF CutChatBlk, AtBlockId, StopsIn, tally
    <3>5. CASE ChatBlkNoMemory
      BY <3>5 DEF ChatBlkNoMemory, AtBlockId
    <3> QED
      BY <1>2, <3>1, <3>2, <3>3, <3>4, <3>5 DEF Blocks
  <2> QED
    BY <2>1, LogRests DEF tally
<1>3. CASE Fields
  <2>1. UNCHANGED <<build, tally>> /\ pc # "returned"
    BY <1>3 DEF Fields, TimeBlk, CutTimeBlk, EndTimeBlk, OpenField, CutField, CloseField,
                AtBlockId
  <2> QED
    BY <2>1, LogRests DEF tally
<1>4. CASE SkipApm
  BY <1>4 DEF SkipApm, LogMatchesApm
<1>5. CASE EvalApm
  BY <1>5, LogRests DEF EvalApm, LogMatchesApm
<1>6. CASE Terminated \/ UNCHANGED vars
  BY <1>6 DEF Terminated, vars, LogMatchesApm, Logged
<1> QED
  BY <1>1, <1>2, <1>3, <1>4, <1>5, <1>6 DEF Next

LEMMA LogInit == Init => LogMatchesApm
<1> SUFFICES ASSUME Init, NEW j \in Joiners
             PROVE  Logged(j) = 0 /\ apm[j] = 0
  BY DEF LogMatchesApm
<1>1. { i \in DOMAIN action_ls : action_ls[i].joiner = j } = {}
  BY DEF Init
<1> QED
  BY <1>1, FS_EmptySet DEF Init, Logged

\* However an action's record ends, and in whatever order its handler counts and logs,
\* the log has one entry for each action that is counted, or two from 1.13 on, as long
\* as memory lasts (add_action, actions.c).
THEOREM LogCorrect == Spec => []LogMatchesApm
<1>1. TypeOK /\ LogMatchesApm /\ [Next]_vars => LogMatchesApm'
  BY LogNext
<1> QED
  BY <1>1, LogInit, TypeCorrect, PTL DEF Spec

-----------------------------------------------------------------------------
(***************************************************************************)
(* The steps that are left.                                                *)
(***************************************************************************)

LEMMA DepthIs ==
    /\ Depth["alloc"] = 1 /\ Depth["block"] = 0 /\ Depth["field"] = 1
    /\ Depth["action"] = 2
  BY DEF Depth

\* A step nearer to the end of the stream, or out of a loop at the same place.
Nearer == pc' \in Parsing => pos' + Depth[pc] > pos + Depth[pc']

LEMMA NearerIsLess ==
    ASSUME TypeOK, TypeOK', pc \in Parsing, Nearer
    PROVE  StepsLeft' < StepsLeft
<1>1. /\ Lim \in Nat /\ pos \in Nat /\ pos <= Lim
      /\ pos' \in Nat /\ (pc' \in Parsing => pos' <= Lim)
  BY SizesAssumption DEF TypeOK
<1>2. PICK d \in Nat : d = Depth[pc]
  BY DepthIs DEF Parsing
<1>3. StepsLeft = (Lim - pos) + d + 2
  BY <1>2 DEF StepsLeft
<1>4. CASE pc' \in Parsing
  <2>1. PICK e \in Nat : e = Depth[pc']
    BY <1>4, DepthIs DEF Parsing
  <2>2. StepsLeft' = (Lim - pos') + e + 2
    BY <1>4, <2>1 DEF StepsLeft
  <2>3. pos' + d > pos + e
    BY <1>2, <1>4, <2>1 DEF Nearer
  <2>4. (Lim - pos') + e + 2 < (Lim - pos) + d + 2
    <3>1. PICK p \in Nat : p = pos'
      BY <1>1
    <3>2. p + d > pos + e
      BY <2>3, <3>1
    <3>3. (Lim - p) + e + 2 < (Lim - pos) + d + 2
      BY <1>1, <3>2
    <3> QED
      BY <3>1, <3>3
  <2> QED
    BY <1>3, <2>2, <2>4
<1>5. CASE pc' \notin Parsing
  <2>1. StepsLeft' \in { 0, 1 }
    BY <1>5 DEF StepsLeft
  <2> QED
    BY <1>1, <1>3, <2>1
<1> QED
  BY <1>4, <1>5

\* save_dyn_blk_seq: a block that is not left with an error has at least its id.
LEMMA FurtherIsNearer ==
    ASSUME pos \in Nat, pos' \in Nat, pos' > pos, pc \in Parsing, pc' = pc
    PROVE  Nearer
<1>1. PICK d \in Nat : d = Depth[pc]
  BY DepthIs DEF Parsing
<1>2. PICK p \in Nat : p = pos'
  OBVIOUS
<1>3. p + d > pos + d
  BY <1>1, <1>2
<1> QED
  BY <1>1, <1>2, <1>3 DEF Nearer

LEMMA BlocksNearer == TypeOK /\ Blocks => Nearer
<1> SUFFICES ASSUME TypeOK, Blocks PROVE Nearer
  OBVIOUS
<1>0. pos \in Nat /\ pos' \in Nat
  BY BlocksMove DEF TypeOK, Moved
<1>1. CASE AllocTable
  BY <1>0, <1>1, DepthIs DEF AllocTable, Nearer, Parsing
<1>2. ASSUME pc = "block", pc' \in { "block", "error", "parsed" }, pos' > pos
      PROVE  Nearer
  <2>1. CASE pc' = "block"
    BY <1>0, <1>2, <2>1, FurtherIsNearer DEF Parsing
  <2> QED
    BY <1>2, <2>1 DEF Nearer, Parsing
<1>3. ASSUME pc' = "error" PROVE Nearer
  BY <1>3 DEF Nearer, Parsing
<1>4. CASE EndOfStream \/ UnknownBlk \/ ChatBlkNoMemory
  <2>1. EndOfStream => pc' = "error"
    BY DEF EndOfStream
  <2>2. UnknownBlk => pc' = "error"
    BY DEF UnknownBlk
  <2>3. ChatBlkNoMemory => pc' = "error"
    BY DEF ChatBlkNoMemory
  <2> QED
    BY <1>3, <1>4, <2>1, <2>2, <2>3
<1>5. CASE SkipBlk
  <2>1. pos' > pos
    BY <1>0, <1>5, SMT DEF SkipBlk, SkipSizes
  <2> QED
    BY <1>2, <1>5, <2>1 DEF SkipBlk, AtBlockId
<1>6. CASE LeaveBlk
  <2>1. pos' > pos
    BY <1>0, <1>6, SMT DEF LeaveBlk
  <2>2. pc' \in { "block", "error", "parsed" }
    BY <1>6 DEF LeaveBlk
  <2> QED
    BY <1>2, <1>6, <2>1, <2>2 DEF LeaveBlk, AtBlockId
<1>7. CASE ChatBlk
  <2>1. pos' > pos
    BY <1>0, <1>7, SizesAssumption, SMT DEF ChatBlk
  <2>2. pc' \in { "block", "error", "parsed" }
    BY <1>7 DEF ChatBlk
  <2> QED
    BY <1>2, <1>7, <2>1, <2>2 DEF ChatBlk, AtBlockId
<1>8. CASE CutChatBlk
  <2>1. { 0, 1, 3, 4, 8 } \in SUBSET Nat /\ pos + 1 \in Nat
    BY <1>0, SMT
  <2>2. pos' \in Nat /\ pos' >= pos + 1
    BY <1>8, <2>1, StopsInside DEF CutChatBlk
  <2>3. pos' > pos
    BY <1>0, <2>2, SMT
  <2> QED
    BY <1>2, <1>8, <2>3 DEF CutChatBlk, AtBlockId
<1> QED
  BY <1>1, <1>4, <1>5, <1>6, <1>7, <1>8 DEF Blocks

\* save_time_blk: heads are read on the way in, and nothing on the way out.
LEMMA FieldsNearer == TypeOK /\ Fields => pc \in Parsing /\ Nearer
<1> SUFFICES ASSUME TypeOK, Fields PROVE pc \in Parsing /\ Nearer
  OBVIOUS
<1>0. pos \in Nat
  BY DEF TypeOK
<1>1. CASE TimeBlk
  <2>1. pos' = pos + 5 /\ pc' = "field" /\ pc = "block"
    BY <1>1 DEF TimeBlk, AtBlockId
  <2> QED
    BY <1>0, <2>1, DepthIs DEF Nearer, Parsing
<1>2. CASE CutTimeBlk \/ CutField
  BY <1>2 DEF CutTimeBlk, CutField, AtBlockId, Nearer, Parsing
<1>3. CASE EndTimeBlk
  BY <1>0, <1>3, DepthIs DEF EndTimeBlk, Nearer, Parsing
<1>4. CASE OpenField
  <2>1. pos' = pos + 3 /\ pc' \in { "error", "action" } /\ pc = "field"
    BY <1>4 DEF OpenField
  <2> QED
    BY <1>0, <2>1, DepthIs DEF Nearer, Parsing
<1>5. CASE CloseField
  BY <1>0, <1>5, DepthIs DEF CloseField, Nearer, Parsing
<1> QED
  BY <1>1, <1>2, <1>3, <1>4, <1>5 DEF Fields

\* process_action_field: a turn that goes on has read at least the id.
LEMMA ActionsNearer == TypeOK /\ Actions => pc \in Parsing /\ Nearer
<1> SUFFICES ASSUME TypeOK, Actions PROVE pc \in Parsing /\ Nearer
  OBVIOUS
<1>1. pc = "action" /\ pos \in Nat
  BY ActionsLead DEF TypeOK
<1>2. CASE GaveUp
  BY <1>1, <1>2 DEF GaveUp, Nearer, Parsing
<1>3. ASSUME NEW n \in Nat, Charged(n) PROVE Nearer
  <2>1. pc' = "action" /\ pos' \in Nat /\ pos' > pos
    BY <1>3 DEF Charged
  <2> QED
    BY <1>1, <2>1, FurtherIsNearer DEF Parsing
<1> QED
  BY <1>1, <1>2, <1>3, ActionTurns DEF Turn, Parsing

\* The parser is done after at most Lim + 4 steps, whatever the stream says.
THEOREM LinearCorrect == Spec => LinearTime
<1>1. TypeOK /\ TypeOK' /\ [Next]_vars => [StepsLeft' < StepsLeft]_vars
  <2> SUFFICES ASSUME TypeOK, TypeOK', Next, ~(UNCHANGED vars)
               PROVE  StepsLeft' < StepsLeft
    OBVIOUS
  <2>1. CASE Blocks
    <3>1. pc \in Parsing
      BY <2>1, BlocksMove DEF Moved, Parsing
    <3> QED
      BY <2>1, <3>1, BlocksNearer, NearerIsLess
  <2>2. CASE Fields
    BY <2>2, FieldsNearer, NearerIsLess
  <2>3. CASE Actions
    BY <2>3, ActionsNearer, NearerIsLess
  <2>4. CASE SkipApm \/ EvalApm
    <3>1. pc = "parsed" /\ pc' \in { "returned", "wild_apm" }
      BY <2>4 DEF SkipApm, EvalApm
    <3> QED
      BY <3>1 DEF StepsLeft, Parsing
  <2> QED
    BY <2>1, <2>2, <2>3, <2>4 DEF Next, Terminated
<1>2. TypeOK' => StepsLeft' \in Nat
  <2> SUFFICES ASSUME TypeOK' PROVE StepsLeft' \in Nat
    OBVIOUS
  <2>1. CASE pc' \in Parsing
    <3>1. PICK p \in Nat : p = pos' /\ p <= Lim
      BY <2>1 DEF TypeOK
    <3>2. PICK d \in { 0, 1, 2 } : d = Depth[pc']
      BY <2>1 DEF Depth, Parsing
    <3>3. StepsLeft' = (Lim - p) + d + 2
      BY <2>1, <3>1, <3>2 DEF StepsLeft
    <3>4. Lim \in Nat /\ p \in Nat /\ p <= Lim /\ d \in Nat
      BY <3>1, <3>2, SizesAssumption
    <3>5. (Lim - p) + d + 2 \in Nat
      BY <3>4
    <3> QED
      BY <3>3, <3>5
  <2>2. CASE pc' \notin Parsing
    BY <2>2 DEF StepsLeft
  <2> QED
    BY <2>1, <2>2
<1> QED
  BY <1>1, <1>2, TypeCorrect, PTL DEF Spec, LinearTime
=============================================================================
