# bractio: models, checks and proofs

bractio reads replays of Warcraft III. `libbract` takes a replay file apart
(headers, compressed segments, the decoded stream of records) and offers what it
found (players, chat, actions, actions per minute) to its client, of which
`src/src/bractio.c` is one. This directory holds TLA+ models of the parts of the
library whose behaviour over many steps is hard to test, TLC configurations that
check them on small instances, and proofs, checked by TLAPS, of what holds for every instance.

Paths below are relative to `src/libbract/` unless they say otherwise.

## 1. The system

`bract_wc3_init` allocates a context, `bract_wc3_operate` (bract.c) runs the whole
pipeline once, and `bract_wc3_deinit` frees whatever the pipeline left behind:

    read main header, sub-header -> check -> read segment headers and bodies
      -> decode_sgmts (zlib) -> process_stream:
           static blocks -> joiner table -> dynamic blocks (actions, chat, clock)
      -> eval_apm

Everything is called in one thread, synchronously, with error codes handed up. There are
no messages, locks or callbacks except comparison and free functions. What the components share is
memory: the stream's cursor `strm->pos`, which every reader moves; the joiner
records, which the static part creates and the action handlers count into; and the two
lists, filled by the parser and read by the client. The hard behaviours are therefore
*long sequences of legal reads* over input of any content, unsigned counters that wrap,
cursors that are remembered across calls, and memory that fails in the middle.

| component | state | operations | what makes it correct |
|---|---|---|---|
| dynamic block parser: second half of stream.c, str.c | cursor, `rest_size` and `len`, game clock, deselect and pause flags | `save_dyn_blk_seq`, the block readers, `save_time_blk`, `process_action_field`, `eval_apm`, `safe_mem_read`, `safe_pos_fw` | the cursor stays in the stream; the counters agree with the cursor; success means the stream was used up; the parser ends |
| action handlers: actions.c | the counters and the log | one handler per action id | log and counters agree; each handler reports what it read |
| action table: arr.c | an array of handler pointers | `arr_alloc`, `arr_add`, `arr_get` | an id without a handler is recognised |
| game clock: mmt.c | total and units | `moment_zero`, `moment_inc`, `moment_min` | units and total name the same moment |
| unrolled list: ulist.c | chain of records, remembered record | `ulist_alloc`, `ulist_append`, `ulist_get`, `ulist_dealloc` | behaves as a sequence; every item is freed once |
| static blocks and joiners: first half of stream.c | person, slot and joiner tables | `save_static_blk_seq`, `form_joiner_tbl` | mandatory blocks occur once; joiners match persons and slots |
| pointer table: table.c | array, count, length | `tbl_alloc`, `tbl_push`, `tbl_sort`, `tbl_dealloc` | sorted permutation; nothing outside the array is touched |
| lifecycle: bract.c, init_deinit.c, buffer.c | which resources exist | `init`, `operate`, `deinit` | everything allocated is freed once, at whatever step `operate` failed |
| headers and checks: read.c, check.c | header records | readers and range checks | what passes the checks is usable by the steps that follow |
| decoding: decode.c | option string, segment output | `decode_sgmts`, the option string decoder | decoded bytes fit their buffer |
| attributes, usage: attr.c, usage.c | path and task word | setters | - |
| command line tool: src/src/bractio.c | request flags | option parsing, printing | what is printed was requested and computed |

PROJECT.json lists the hazards of this code, each at its line, with the properties that
would catch it, or the reason why none can.

## 2. The modules

| module | models | builds on |
|---|---|---|
| `ActionTable` | the registrations of `prep_action_ptrs` per game build, the size and the kind of each handler | - |
| `BlockGrammar` | abstract specification: the dynamic part as seen from outside | - |
| `DynStream` | `save_dyn_blk_seq` with all it calls, then `eval_apm` | `ActionTable`, `BlockGrammar` |
| `MCDynStream` | three instances of `DynStream` | `DynStream` |
| `DynStreamProofs` | theorems about `DynStream` | `DynStream` |
| `Moment`, `MCMoment`, `MomentProofs` | mmt.c, its instance, its theorems | - |
| `AppendList` | abstract specification: a sequence that grows at its end | - |
| `UList`, `MCUList`, `UListProofs` | ulist.c, its instance, its theorems | `AppendList` |
| `PointerTable` | abstract specification: a sequence that grows, is sorted, and is emptied once | - |
| `Table`, `MCTable`, `TableProofs` | table.c, its instance, its theorems | `PointerTable` |
| `OptsDecode`, `OptsDecodeProofs` | the decoder of the option string and what save_host_blk reads from its result; its theorems | - |
| `StaticBlocks`, `MCStaticBlocks` | `process_stream` up to save_dyn_blk_seq, with `form_joiner_tbl`, and what deinit frees of it | `OptsDecode`, whose steps are steps of the host block; what `Table` shows of tables |
| `StaticBlocksProofs` | theorems about `StaticBlocks` | `StaticBlocks`, and `OptsDecodeProofs` for the decoder |
| `Headers` | check.c, and the fields of both headers (read.c, bract.h) | - |
| `Lifecycle`, `LifecycleProofs` | init, operate, the getters' needs, deinit; its theorems | `Headers` |
| `Clients`, `MCClients` | the library with bractio.c, or with another client that operates a context once | `Lifecycle` |
| `ClientsProofs` | theorems about `Clients` | `Clients`, and `LifecycleProofs` for the library |

### DynStream

*Data.* The parser never reads a byte of the stream twice, so the bytes are not kept: each
value is chosen by `\E` when it is read, and what remains of the stream is its length
`Lim` and the cursor `pos`. Which reads fit is decided as `safe_mem_read` and
`safe_pos_fw` decide it. The former moves the cursor field by field and stops at the first
field that does not fit (`StopsIn`); the latter moves the cursor *first* and tests it
then, so that a failed skip leaves it behind the end (`Skip`).

*Control.* `pc` says where the parser stands: `alloc` (the action table is allocated),
`block` (a block id is next), `field` (the head of save_time_blk's loop), `action` (the
head of process_action_field's loop), `parsed` (behind the loop, before eval_apm) and four
ends. One action of the model is one block, one block head, one action field head or one
action record with its whole handler.

| TLA+ | code |
|---|---|
| `rest_size`, `flen`, `len` | `rest_size` and `len` of save_time_blk, `len` of process_action_field |
| `Minus(a, b)` | unsigned subtraction, modulo `UINT` |
| `mmt`, `paused`, `deselect` | `mmt.total_ms`, `state.paused`, `state.deselect` |
| `cur` | the joiner found for the id in the field head |
| `action_ls`, `chat_ls` | the two lists, as the sequences UList is shown to implement |
| `apm`, `leave_mmt`, `saver` | the fields of each joiner |
| `EndOfStream`, `UnknownBlk`, `SkipBlk`, `LeaveBlk`, `ChatBlk`, `CutChatBlk`, `ChatBlkNoMemory` | the branches of save_dyn_blk_seq |
| `TimeBlk`, `CutTimeBlk`, `OpenField`, `CutField`, `CloseField`, `EndTimeBlk` | save_time_blk |
| `CutActionId`, `BadActionId`, `UnusedActionId` | the exits of process_action_field |
| `UncountedAction` ... `BadModeAction` | handlers, grouped by what they do with the counters: nothing, count first, count only a complete record, or special |
| `SkipApm`, `EvalApm` | the end of bract_wc3_operate |

`blk_end`, `fld_end`, `blk_bad`, `fld_bad` and `oom` are history variables. `blk_end` and `fld_end` are
positions in the stream: where the open block and field end as their heads declared it. `blk_bad` and
`fld_bad` count the selection records of a bad mode in the open block and field, each of which is charged two bytes
(`Overcharge`) more than was read of it. The properties say where they speak of the cursor and where of bytes charged.

Two things in this code are easily misread and are modelled as they are.
`action_change_selection` answers a bad mode with an error code, 5, that its
caller takes for five bytes used (three were read). And a chat block that is cut short, or
gets no memory for its text, is answered with success, so that the next block id is read from the middle
of the message (`CutChatBlk`).

### Moment

One step per turn of the loop in `moment_inc`. `eras` is a history variable: how often the
hours wrapped around, because the last carry is dropped.

### UList

Records are numbered in the order of their allocation and 0 is the null pointer; `next`,
`arr`, `item_cnt` are the heap. `ulist_get` is one step that enters, and then either one
step of answer or a walk with one step per record; `ulist_dealloc` frees one record per
step, reading `next` before it frees. `released` is a history variable.
Calls do not overlap: the library has one thread.

### Table

The array has the indices of the C array, 0 to `len - 1`, and cells that were never written hold
`Junk`. `tbl_push` is one step with its `tbl_expand`; `tbl_sort` is one step per
comparison (`TakeNext`, `Shift`, `Insert`), and `tbl_dealloc` one step per item. `InsertFirst` is
the case in which the inner loop has gone past the first cell: the condition
`cmp_fn(*i, tmp) > 0 && i >= first` evaluates the comparison first, so the cell *before*
the array is read. Either this is harmless and the loop ends (`Place`), or anything may happen (the
end `wild_read`). `snapshot` is a history variable.

### StaticBlocks

Values are chosen when they are read, as in `DynStream`, and a block is one step, with one more action per
way to fail that leaves something behind. The id that ends the guest blocks is read, put back and
read again; it is kept in `blk_id` until then (`PutBack`). Names are numbered by their allocation, so that it can be
said who owns them; what the characters are does not matter, and neither do the fields that are only stored.

| TLA+ | code |
|---|---|
| `nfo` | which element of `nfo_seq` the loop of save_static_blk_seq is at |
| `HostBlk`, `GuestBlk`, `JoinScrnBlk` and their `Bad`, `Cut` variants | save_static_blk and the block readers |
| `NoMoreGuests`, `OtherBlk` | an unexpected id where the block is optional, and where it is mandatory |
| `AddJoiner` | one turn of the first loop of form_joiner_tbl |
| `JoinGuest`, `JoinHost`, `CompleteJoiner`, `CompleteFails` | one turn of the second |
| `SortJoiners` | tbl_sort, as `PointerTable` specifies it |
| `Deinit`, `FreePerson`, `FreeJoiner`, `AllFreed` | the order in which bract_wc3_deinit frees host, persons and joiners; tbl_dealloc takes one item after the other from the end of its array |

Three ways to fail are easily missed. A guest block that turns out to be bad behind its name frees the person
without the name (`lost`). `complete_joiner` has room for an id of two digits, and for a
longer one it fails with a name that is stored already. And `tbl_alloc` may return a pointer
it has just freed (the end `dangling`).

The host block is not one step. `HostBlk` reads up to the encoded string and hands it to `OptsDecode`
(`Decoder == INSTANCE OptsDecode` over the same variables); the steps of that module are then steps of this one
(`DecodeStep`) until the two strings are found (`HostDone`), or one of them is cut or refused memory (`HostFails`).

### OptsDecode

The encoded string is the sequence of its bytes without the final `'\0'`. `decode_opts_map_creator_str` is one step
per turn of its loop: `KeyByte` takes a key and sets the bit to 2, `DataByte` writes a character, less one where the
key's bit is 0, and shifts the bit until it leaves the eight bits of an unsigned char, which makes the next byte a key.
`Terminate` writes the `'\0'`. Then `SkipOpts` is save_game_opts, which adds 13 to the cursor whatever the length of
the buffer, and `NextCell`, `EndOfStr` and `CutStr` are the loop of safe_str_len. Cells of the buffer that the decoder
did not write (it writes fewer than it reads) hold anything: `MayBeEnd` and `MayBeChar` are both true of them.

### Headers and Lifecycle

`Headers` keeps of each header the fields that a check or a later step looks at. `range_strm_offset` and
`check_task` are written as the code computes them, not as they were meant (see section 5).

`Lifecycle` abstracts memory to *how many* there are of each resource (`live`, a history variable) and *which
pointers are set* (`ptr`). `Container` says which structure holds each pointer. Every allocation of the pipeline may
fail, every read may find the file cut, every header may be out of range, and each early return of
bract_wc3_operate leaves things as they are. What the parts of process_stream do inside is the subject of
`StaticBlocks` and `DynStream`; here they succeed, fail, or have an undefined end (`wild`): `save_static_blk_seq` when
the step over the options reads behind a short buffer, `FormJoiners` when the sort reads before the table,
`save_dyn_blk_seq` when an id has no handler, and `Finish` when a leave time of 0 is divided by.

A context is operated at most once, as bractio does it. The code does not demand this: bract_wc3_operate does not look at
whether the context has been used (bract.c:29). A second call, on what the first one left, is not modelled.

| TLA+ | code |
|---|---|
| `pc` | the statement of bract_wc3_operate, or of process_stream, that is next |
| `ret`, `Return` | the error code, and every `return` |
| `CutFile`, `read_rep_main_hdr`, `read_rep_sub_hdr` | read_rep_hdr and the checks it calls |
| `ReadSgmt`, `SgmtFails`, `SgmtBodyFails` | one turn of read_rep_body, and its exits |
| `strm_len`, `PrepStrm`, `DecodeSgmt`, `DecodeFails`, `Decoded` | the stream from its allocation to `lim` |
| `AllocRfnd` ... `save_dyn_blk_seq` | rfnd_alloc and process_stream |
| `Finish` | eval_apm, or nothing |
| `Ready(q)`, `MayAsk(q)` | what a getter reads, and its assert |
| `DeinitOrder`, `FreeNext` | deinit, one pointer at a time |
| `null_write`, `null_read`, `abort`, `dangling`, `wild` | ends of the program: ignored results of body_alloc and host_blk_alloc, deinit(NULL), failed asserts, tbl_alloc without memory, undefined behaviour |

`sgmt` and `ecd_data` are counted and held by the segment table; every other resource has one pointer.

### Clients

The tool asks for all tasks whatever the user wants; the options decide what it prints. `req` begins with junk, since
main does not initialise it. The *other* client, any program that operates a context at most once, passes any task word,
asks what the asserts of the getters allow, and lets go when it likes. `opts` and `asked` are history variables.

## 3. What the runs check

### dyn_grammar (`MCDynStream`, `MCDynGrammar.cfg`)

Questions: do the counters and the cursor stay together, and when does parsing succeed?

* `TypeOK`: types and ranges; while the parser runs the cursor is in the stream.
* `Accounting`: `rest_size` and `len` are the distances from the cursor to the declared ends of
  the open block and field, *or* those distances wrapped around once, when the contents ran
  over the end. There is no third possibility. The distances are in bytes charged, which is the cursor plus two
  for each selection record of a bad mode: of what such a record does to the cursor this property does not speak.
* `ClosesShort`, which does: when a field or block is left, the cursor stands two bytes before the declared end for each
  selection record of a bad mode in it, and exactly at that end if there is none. So one that was overrun is never left
  with success, also where its size is below the minimum and wraps at once. That the end is
  reached in *every* case, which is what the two asserts in stream.c stand for, is false: see `bad_mode` below.
* `SuccessAtEnd`: success is only behind a leave block that ends with the stream; its leaver,
  and no one else, is the saver and left at the final time.
* `Grammar`: `DynStream` implements `BlockGrammar`. With `where`, the cursor and the declared end
  in view, everything the parser does is skipping a block, opening, consuming and closing a time block,
  accepting, or rejecting. A block closes where its head says, but for the two bytes per record of a bad mode (`bad`).

Bounds: a stream of 28 bytes (`Lim`), which a time block with one ability record and the
final leave block fill exactly, as do two leave blocks, so every ending is met; declared
sizes {0, 11} for blocks and {0, 6} for fields, so a block can be declared below its own
head (0), a field empty, and both right, too short and too long for what they contain.
One old and one new build (1.06 and 1.21, between them all handlers of the model's groups),
a player and an observer. `UINT` is 2^20, which a stream of 28 bytes cannot count down to;
that is the only thing the proofs ask of it (2 * `Lim` + 65538). About a million states.

### dyn_tally (`MCDynStream`, `MCDynTally.cfg`)

Questions: do log, counters and clock tell the same story when memory fails, and does the
parser always end?

* `LogMatchesApm`: as long as no log entry was refused for want of memory, each player's entries
  number exactly the counted actions before 1.13, and between one and two times as many from
  then on (`action_ability_1_ge_113` counts one and logs two). It says nothing of a log with refused entries, nor
  of *which* actions should count: that the deselect flag is kept per stream leaves log and counter in agreement.
* `Chronological`: both lists are in the order of the clock, messages are numbered without
  a gap, nobody leaves in the future, also across paused blocks, cut chat blocks and failing allocations.
* `LinearTime`: every step takes one from a bound on the steps to come, the bytes behind the cursor and the depth in
  the nested loops. So no turn of a loop is free, and a stream is done with after `Lim` + 4 steps at the most.
* `Termination`: under weak fairness of `Next` the parser ends, although its loops are
  controlled by counters that wrap.

Bounds: 23 bytes, blocks of one field of one byte, so that two time blocks with an action each or
one and a leave block fit; time increments 0 and 250; every malloc may fail.

### unused_id, bad_mode and apm_defined (expected violations)

* `UnusedIdRefused` is what arr.c:35 says of `arr_get` ("NULL if idx is unused"). The cells
  of the table are never cleared, so the run finds a stream that makes the parser call an indeterminate
  pointer. The outcome is a choice in the model, because reading such a cell may as well yield NULL.
* `ClosesAtDeclaredEnd` is what the asserts behind the two loops stand for (stream.c:772, 825): when they are left, the
  field or block has been read to the end that its head declared. The run finds a block of one field of one selection
  record of a bad mode, all sizes right. action_change_selection answers it with an error code, 5
  (actions.c:438), its caller takes that for five bytes used where three were read, `len` reaches 0, and the field is left
  two bytes early, which are then read as something else. The asserts hold, of the counters.
* `ApmDefined` is what README.rst:20 promises of all players. `eval_apm` divides by a leave time
  that is 0 for a player without a leave block. The run finds a stream that parses and has one.

### ulist (`MCUList`)

* `ChainOK`: the records form one chain in the order of allocation, all full but the last, and the counters say so.
* `CursorOK`: the remembered record is the one that bears the remembered number, whatever
  mixture of appends and retrievals moved it, and a walk never passes its target.
* `AllReleased`: deallocation hands every item to `free_data_fn` once, in order.
* `IsAppendList`: refinement of `AppendList`, hence every retrieval answers the
  item appended at that index, and NULL behind the end.
* `CallsReturn`: every retrieval and every deallocation ends.

Bounds: two items per record and seven appends give four records, the last one partial or
full, so that walks of two steps from the cursor and from the head happen
in a list that still grows. The code's `arr_size` is 50, and only its relation to `cnt` matters.

### moment (`MCMoment`)

* `ClockAgrees`: total = units + pending carry, after every turn of the loop; between calls
  nothing is pending.

Bounds: the radices of the code, 61 minutes of game time, increments of 999 (every
residue of milliseconds) and 65535 (the largest a block can carry). The hours' radix is out of a run's reach and is covered by the proof.

### table (`MCTable`, `MCTable.cfg`)

Question: is the table what its clients take it for, at every moment of a sort?

* `PartlySorted` and `NothingLost` are the invariants of insertion sort: what lies before the element to be inserted is sorted
  around a hole, and the table with the hole filled by that element holds what it held before.
* `IsPointerTable`: refinement of `PointerTable`, hence a sort yields a *stable* sorted permutation,
  pushes keep order across the growing of the array, and deallocation frees every item once, the last one first.
* `CallsReturn`: every sort and every deallocation that was begun comes to its end.

Bounds: five items, two of which have the same key, in every order; initial lengths 0, 1 and 2 with a default
length of 2, so that the array grows once or twice on the way. About 10,000 states.

### static (`MCStaticBlocks`, `MCStaticBlocks.cfg`)

Question: who owns a name, and who becomes a joiner, whatever the stream says and whatever fails?

* `Contiguous`: blocks lie side by side, although an id is read twice.
* `OwnedOnce`: at every step each name belongs to exactly one person or joiner or to the host, or is freed; the only
  names without an owner are those of a guest block that failed, of which there is at most one before everything stops.
* `ReleasedOnce`: so deinit frees each of them once, also after an error in the middle of `form_joiner_tbl`.
* `JoinersMatchSlots`: in the end there is one joiner per used slot, sorted by id; a joiner has no name only if
  one before it with the same id has taken it; the host is found by its id.
* `Termination`: the repeatable block and the loops end. Its part about data, `Advances`, is proved (section 4).
* `DecodedSoFar` (of `OptsDecode`): at every turn of the decoder's loop what it wrote is what the layout of the string
  says, groups of a key and seven characters. The reference definition `Plain` takes the group and the bit from the
  position of a character; the code carries key and bit from byte to byte.
* `OptsInBuffer`: the step over the options may leave the buffer, but nothing is read from there, and where both
  strings end in what the decoder wrote, no cell it did not write is read.

Bounds: 92 bytes, in which the host, two guests and three slots fit (the least with which an id may be doubled
among persons *and* among slots), or four guests that end exactly with the stream; ids that may coincide, and one
of three digits; builds with the shortest and the longest slot record; every malloc may fail. Four option strings: an empty one
(read behind its buffer), one shorter than the options, one that decodes to the options alone, so that what follows
was never written, and one with a path and an empty creator, as games write it. About 1.5 million states.

### table_sort (expected violation)

* `ComparesElements`: the comparison in `tbl_sort` is given elements of the table only. Two items in descending
  order suffice to break it.

### lifecycle (`MCClients`, `MCLifecycle.cfg`)

Question: what is left behind by an operate that fails at any of its steps, and what do deinit and the client make of it?

* `PointersMatch`: at every step, failures and the middle of deinit included, a pointer is set exactly if there is
  something to free behind it, and the structure that holds the pointer is still there. The exception is named: the
  data of a segment that was cut (`Lost`).
* `AllFreed`: after deinit everything is freed, once, but for those data (`Release` below zero would break `TypeOK`).
* `AnswersReady`: after a successful operate, every getter of the requested tasks finds its field written and its
  pointers set. It rests on the range checks: only sub-header version 1 writes the release, and only version 1 passes.
* `ApmHasJoiners`: eval_apm has a joiner table, which rests on check_task refusing the APM without the stream.
* `LimDecoded`: what process_stream may read was written by decode_sgmts, unless the header promised more than the
  segments hold. The code does not compare the two.
* `StatusIsHonest`: the tool's exit status says whether the file was read, all requests printed and all freed.
* `PrintedIsThere`: whenever the tool prints a line, the assert of the getter holds and what the getter reads is there. The
  request flags say nothing of tasks: that they fit rests on the one task word of demo_lib (bractio.c:77) and on what an
  operate with it leaves.
* `Termination`: the tool ends. What the library has to do with it, `Advances`, is proved (section 4).
* `TypeOK`, `CTypeOK`: types of the library's and of the client's variables.

Bounds: up to two segments of decoded size 1 or 2, so that `dcd_data_size` (2, 3, 5) is less than, equal to or more
than their sum; headers on both sides of every check; task words 0 to 8 and 15 (every set of the three tasks and
ones with a fourth bit); two options of the user; every malloc may fail. About 195,000 states.

### old_header (expected violation)

`OldHeaderAccepted`: a main header as bract.h describes it is not out of range. The run finds one of version 0 with
offset 0x40, which check.c:70 refuses.

### Fairness

`DynStream` assumes `WF_vars(Next)`: one thread runs the parser, none of its steps waits for
anything, and malloc and the handlers return. `UList` assumes weak fairness of the steps inside a call, not
that anybody calls, and `Table` likewise. `StaticBlocks` assumes `WF_vars(Next)` for
the reason `DynStream` does, and `Clients` assumes `WF_all_vars(CNext)`: one thread, file operations that return.
`OptsDecode` and `Lifecycle` state none of their own; their steps end within `StaticBlocks` and `Clients`. `Moment` has no liveness property.

Deadlock is checked in every run: the ends of the models stutter explicitly (`Terminated`, `Gone`, `Stop`, `Ended`).

## 4. What is proved

For every value of the constants that satisfies the ASSUMEs, without bound on stream length or input.

`DynStreamProofs`, from `SizesAssumption` (two-byte values are below 65536; the counter is
wider than twice the stream plus 65538, which 2^32 is for the streams a 32-bit header field can
describe below 2 GiB) and `JoinersAssumption`:

1. `TypeCorrect`: `Spec => []TypeOK`. Inductive as it stands. One step per action of `Next`.
2. `AccountingCorrect`: `Spec => []Accounting`. The conjunct `4 * blk_bad <= pos` is the strengthening:
   a record in a bad mode moves the cursor by 4 bytes and is charged for 6, so
   what was charged is bounded by 1.5 `Lim`. With it a counter can never be charged past its *second* wrap, and
   `FldCharged + len - fld_end` is 0 or `UINT`. The lemma about `Minus` and wrapping carries each step.
3. `ClosesCorrect`: `Spec => ClosesShort`, a statement about the cursor. It is a consequence of `Accounting` at the states
   where a counter is 0: the wrapped
   alternative would put the end `UINT` bytes away from the cursor, further than any declared size reaches.
   What is left between the cursor and the end are the bytes that bad-mode records were charged and did not read.
4. `SuccessCorrect` and `ChronologicalCorrect`: inductive together with `TypeOK`. The lemma about
   `InOrder` says that appending an entry stamped now keeps a list in order.
5. `LogCorrect`: `LogMatchesApm` is inductive with `TypeOK`. A step leaves log and counters alone, or makes one action and one
   entry, or, from 1.13 on, one action and two (`LogStep`); `TwiceFrom113` reads the last off the action table, and `LogAppend`
   says what an append does to the number of a joiner's entries.
6. `LinearCorrect`: by `TypeOK`, a step reads a byte inside the stream and goes at most one loop deeper, or leaves a
   loop. That the handlers may report an error code for a size does not matter: the cursor has moved by what was read.
7. `GrammarCorrect`: the refinement. Each action of `DynStream` maps to an action of `BlockGrammar` or a
   stutter; `CloseField` and `EndTimeBlk` need `Accounting`.

`MomentProofs`, from `IncsAssumption`: `TypeCorrect` and `ClockCorrect`. The invariant is `ClockAgrees` with the
carry weighted by the unit it goes to (`Pending`), without which it does not hold between two turns.

`TableProofs`, from `TableAssumption` (keys are integers, the default length is not 0): `TypeCorrect`,
`SortedCorrect` and `LostCorrect`. `TypeOK` is inductive, and with it so is each of the others. The argument is
that of insertion sort: an element moved up takes the hole one cell down and stays greater than the one to be
inserted (`ShiftKeepsOrder`, `ShiftKeeps`), and filling the hole puts that one between its neighbours
(`PlaceKeepsOrder`, `PlaceKeeps`). At `SortDone` this is: sorted, and nothing lost.
`PointerTableCorrect` is the refinement. What it needs besides is `RefInv`: if the element to be inserted is thought to be in the
hole (`Filled`), a turn of the inner loop changes two neighbours with different keys, so elements with equal keys
stay in the order they had when the sort began (`Stable`); and while tbl_dealloc runs the items behind `cnt` are
those it released, in reverse (`Released`).

`OptsDecodeProofs`, from no assumption: `TypeCorrect`, `DecodedCorrect` and `ReadCorrect`, for *every* encoded string.
`DecodedSoFar` is not inductive: it says nothing of `key` and `bit`. `InLayout` adds that the byte `ecd_pos` is in
group `ecd_pos \div 8`, that `key` is the first byte of this group and that `bit` is the one of the position in it,
0 at its end. With it `DataByte` writes `Plain` of the next position, and `KeyByte` begins a group; the rest is arithmetic of
quotients by 8 and 7. For `OptsInBuffer` the strengthening (`EndsAhead`) says that as many ends of strings lie ahead of
the cursor as there are strings to find, so the cursor cannot leave what was written.

`LifecycleProofs`, from `LifecycleAssumption`: `TypeCorrect`, `PointersCorrect`, `FreedCorrect`, `AnswersCorrect`,
`ApmCorrect` and `LimCorrect`, for all sets of headers, segment sizes, tasks and answers of malloc, hence for every number of segments.
The inductive invariant `Inv` says for each value of `pc`

* which pointers must be set and which may be (`PtrAt`), with the counts that go with them (`Heap`);
* what is known of the task and the header there (`Known`): behind the checks the version is 1 and the task one
  of the three masks; this is where the range checks enter `AnswersReady`;
* what a successful return has established (`Answered`), and where the lost data may exist (`LostAt`);
* how far deinit has got: every pointer before `at` in `DeinitOrder` is reset, and a structure is released after
  all that it holds (`DeinitAt`), so that at the end nothing is set;
* that no turn of strm_len or decode_sgmts is under way elsewhere (`DoneAt`).

`AdvancesCorrect`: a context never comes back to where it was. Every step leads to a later stage, or is a turn of a loop
(over segments, over what deinit frees) that has one turn less to go, by whatever way operate
failed. The proof needs of `Inv` the types of the counters only, and goes through the actions: all but four lead to a later
stage.

`LimCorrect` is about two sums, that of strm_len and that of decode_sgmts. A sum over a sequence would take an induction over
data. Instead `LimInv` says that there *are* sums, one for every number of segments (`SumsOf`): they grow by one when a
segment is read, each turn of a loop goes from one to the next, and both loops end at the same.

`UListProofs`, from `SizeAssumption` and `DataAssumption`: `TypeCorrect`, `ChainCorrect`, `CursorCorrect`,
`ReleasedCorrect` and `AppendListCorrect`, for every size of a record and every number of items. `ChainOK` and `CursorOK`
are inductive together with the types. `Filled` adds that each slot that `item_cnt` counts holds an item, without which a
retrieval might answer `NoData`; `FreedOK` says what ulist_dealloc has done when it is at `cur_rec`: the items of the
records before it (`CountTo`) are released in order, and both counters are down by as much. The arithmetic is in four
lemmas: a pair of a record and a slot is the quotient and the remainder of one place (`DivMod`, `Place`), an index below
`cnt` is in a filled slot (`InChain`), and the next item goes behind the last (`AtEnd`). With them an append changes no
place below `cnt` (`TailEnd`, `RecordEnd`), which is the refinement's step `Grow`; `CursorOK` makes every end of a
retrieval an `Answer`.

`StaticBlocksProofs`, from `StaticAssumption`: all seven invariants of the run, and `Advances`, for every length of the
stream and every number of guests and slots.

* `DecodedCorrect` and `ReadCorrect`: `OptsDecodeProofs` is instantiated, and `DecoderInv` says that its invariants hold
  whatever this module does around the decoder; a step is one of the decoder, a `Load`, or leaves it alone.
* `ContiguousCorrect`: `CursorInv`, inductive with the types of what is no table. An id that is put back moves neither
  `pos` nor `size`; every block moves both by its length.
* `TypeCorrect`, `OwnedCorrect`, `ReleasedCorrect`: `OwnInv`. `Counted` says how many owners *every* number has, one that
  was not allocated yet included (none), so that a new name adds one owner; `Named` says at which `pc` host and
  persons must have a name and when the joiners are none, `Loops` that the joiners from `idx` on are nameless, so that
  a name that is exported overwrites nothing. Owners are counted as occurrences in a column of a table, and four lemmas say
  what an append, a change at one place, and the removal of the last item do to such a count (`HeldAppend`,
  `HeldChange`, `HeldButLast`).
* `JoinersCorrect`: `MatchInv`. While joiners are added they match the slots before `idx` (`JoinersSoFar`), and a joiner
  that was visited without finding a name has one before it that found it (`NamedSoFar`, with `Taken`). For the sort: `Rank`, which
  is one more than the number of joiners that precede one, is a bijection of the places (`RankBijection`), so sorting
  changes no count and keeps equal ids in their order.
* `AdvancesCorrect`: every step leads to a later stage of process_stream or deinit, or leaves the loop there fewer turns:
  bytes and descriptions, cells of the option string and its buffer, slots, joiners, things to free. It needs `OwnInv` and
  `DecoderInv`. The turns left in the host block are those of two cursors, and the one in the buffer is bounded by `ReadInv`,
  also where the step over the options has taken it out of the buffer.

`ClientsProofs`, from `ClientsAssumption` (the tool's task word is one of those that clients pass; what `req` holds before it
is written are flags of questions) and `LifecycleAssumption`, for every sequence of options:

* `ClientsKeepLifecycle`: `CSpec => Spec`. A step of a client is a call that `Lifecycle` allows, a step of the library, or
  changes nothing of it. So `LibraryCorrect`: the theorems of `LifecycleProofs` hold of the system that the run checks.
* `ClientTypesCorrect`, `StatusCorrect`, `PrintsCorrect`: `CInv`, which goes with the tool from step to step. What was
  requested is in `req` (`Flagged`, one lemma per option); lines are printed only after a success (`PrintedAt`); the tool
  lets go with nothing left to print (`LetsGo`, since its order names every question); a success has a task, and the
  tool's is the one that covers all (`TaskAt`). The library's part is one lemma: while the client waits, operate returns
  "ok" from its last step only, and nothing leads from a returned operate to deinit but the client (`Waited`).

Every safety property of every passing run is stated by one of these theorems. Only model-checked are the liveness
properties, `Termination` and `CallsReturn`: liveness under fairness and ENABLED are out of the prover's reach. For the
parsers and the library `LinearCorrect` and the two theorems `AdvancesCorrect` are the part of `Termination` that is about the
data: every step but a stutter takes from what is left, so no behaviour goes on changing for ever. What TLC adds is that the
system does take its steps and is not stuck before an end. For `UList` and `Table` there is no such theorem. No run has
`Advances` among its properties, as what refutes it (`SameNfo`, `Again`) refutes `Termination` there.

Out of reach, too, are induction over data and anything defined with RECURSIVE; no module uses RECURSIVE.

## 5. What disagrees with the repository's own words

* `unused_id`: stream.c:759 and arr.c:35, see above.
* `bad_mode`: actions.c:438 and the asserts at stream.c:772 and 825, see above.
* `apm_defined`: stream.c:1212 and README.rst:20, see above.
* `table_sort`: table.c:31 and table.c:17, see above.
* `old_header`: check.c:70 and bract.h:36, see above.

Met on the way, and visible in the models without a run of their own:

* A note at form_joiner_tbl says that one of its tables may be empty (stream.c:133); with an empty slot table it gives up on
  the stream (stream.c:194, `NoSlots`), as nobody has seen one yet, says the comment there.
* deinit says it frees "all resources" (init_deinit.c:308); the data of a cut segment stay (read.c:308). `AllFreed`
  names this exception.
* deinit tests its argument for NULL after it has read from it (init_deinit.c:316), and the tool calls it with NULL
  when init fails (`DeinitNull`).
* `range_magic_id` compares as many characters as a pointer has bytes, and one (check.c:57): `MagicIds` has a value for it.
* Corrupt segments end in an assert more often than in an error code (decode.c:61-69, `DecodeFails`), and so does a
  header without segments (read.c:272).
* The manual page promises `--help`, which `getopt` does not know, and proc_args has a case `'n'` that is not among the
  options it gives to getopt; `req` is read before it is written (bractio.c:246).
* save_game_opts calls bit 5 the "6-th bit" for teams_together (stream.c:261), a bit that belongs to the observers' mask too.

## 6. What is not modelled

The *contents* of texts and records that are only stored: messages, names, slots, the values of the game's options;
printing and layout; zlib, of which `Lifecycle` knows the outcomes of one call of inflate; the setters of attr.c and
rep_err of usage.c, which have no behaviour of their own.

`process_stream` reads 4 bytes as an unsigned long into an `unsigned` (stream.c:1232); what that overwrites on
a build with wider longs is not part of the parser's state here. The clock of `DynStream` is the total only;
`Moment` is its detail, and overflow of the total (after 49 days of game time on a 32-bit build) is beyond both.

`Lifecycle`, `StaticBlocks` and `DynStream` are not one state machine: each takes what the one before it hands over
as an arbitrary input (the stream's bytes, the joiners), which includes whatever that one can produce. The ends of the
latter two, the undefined ones included, are the outcomes that `Lifecycle` gives to `save_static_blk_seq`, `FormJoiners`,
`save_dyn_blk_seq` and `Finish`. That
`lim` may lie behind the memory is in `Lifecycle` only (`ReadBehindStrm`); the parsers have a stream that ends at `Lim`.
A second bract_wc3_operate of one context is in none of them.

## 7. Running

    tlc -workers 2 -config MCDynGrammar.cfg MCDynStream
    tlc -workers 2 -config MCDynTally.cfg MCDynStream
    tlc -workers 2 -config MCUList.cfg MCUList
    tlc -workers 2 -config MCMoment.cfg MCMoment
    tlc -workers 2 -config MCTable.cfg MCTable
    tlc -workers 2 -config MCStaticBlocks.cfg MCStaticBlocks
    tlc -workers 2 -config MCLifecycle.cfg MCClients
    tlapm DynStreamProofs.tla
    tlapm MomentProofs.tla
    tlapm TableProofs.tla
    tlapm UListProofs.tla
    tlapm OptsDecodeProofs.tla
    tlapm StaticBlocksProofs.tla
    tlapm LifecycleProofs.tla
    tlapm ClientsProofs.tla

Operators whose comment starts "A mistake to check against" are alternative definitions: substituted for the one that
follows them they break a property, which shows that the property can fail (PROJECT.json, "mutants").
