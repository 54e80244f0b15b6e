----------------------------- MODULE MCDynStream -----------------------------
(***************************************************************************)
(* Small instances of DynStream for TLC.                                   *)
(*                                                                         *)
(* Grammar instance: what the cursor and the two counters do.  A time      *)
(* block with one ability record and the final leave block fill the stream *)
(* exactly, and so do two leave blocks; a block may declare a size below   *)
(* its own head, a field may be empty, shorter or longer than its actions. *)
(* Memory never fails, and time always advances.                           *)
(*                                                                         *)
(* Tally instance: what is counted, logged and timed.  Fields of one byte  *)
(* in blocks of one field, time that may stand still, memory that may fail *)
(* at every malloc, one player and one observer.                           *)
(*                                                                         *)
(* Bad mode instance: the stream of the grammar instance, and only heads   *)
(* that agree: a block of one field, a field of one record of six bytes.   *)
(***************************************************************************)
EXTENDS DynStream

CONSTANTS j1, j2

MCUINT      == 2^20     \* far beyond what a short stream can count down to
MCJoiners   == { j1, j2 }
MCObservers == { j2 }
MCBuilds    == { 6030, 6059 }   \* 1.06 and 1.21

GrammarLim       == 28
GrammarRestSizes == { 0, 11 }
GrammarFieldLens == { 0, 6 }
GrammarItemCnts  == { 0, 1 }
GrammarTimeIncs  == { 250 }

BadModeRestSizes == { 11 }
BadModeFieldLens == { 6 }

TallyLim       == 23
TallyRestSizes == { 6 }
TallyFieldLens == { 1 }
TallyItemCnts  == { 0 }
TallyTimeIncs  == { 0, 250 }
=============================================================================
