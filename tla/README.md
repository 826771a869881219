# Verification of the Emacs for OS/2 sources

This directory holds TLA+ models of parts of the Emacs 20 sources in `src/`, the
configurations that check them with TLC, and theorems about them proved with TLAPS.
Line numbers refer to `src/`.

1. [The system](#1-the-system)
2. [Modules and code](#2-modules-and-code)
3. [What the runs check](#3-what-the-runs-check)
4. [Fairness](#4-fairness)
5. [What is proved](#5-what-is-proved)
6. [Disagreements between code and comments](#6-disagreements-between-code-and-comments)
7. [What is not modelled](#7-what-is-not-modelled)
8. [Plan](#8-plan)
9. [Running the checks](#9-running-the-checks)

## 1. The system

Emacs for OS/2 is two processes. The **Emacs process** (the C core: Lisp evaluator,
buffers, redisplay, keyboard) is single-threaded. **pmemacs** (`pmemacs.c`) owns the
Presentation Manager windows and has two threads that matter here: the *PM thread*,
which runs the message loop of all windows, and the *pipe thread*, which reads requests
from Emacs. The processes exchange fixed-size records over two pipes:

```
   Emacs process                                     pmemacs
 +-----------------+   requests (pmterm.c pm_send) +-------------+  WinPostMsg +-----------+
 | Lisp, redisplay | ----------------------------> | pipe thread | ----------> | PM thread |
 | pm_receive      | <---------------------------- |             | <---------- | (windows, |
 | PM_read_socket  |   answers and events          +-------------+   hevDone   |  mouse)   |
 +-----------------+ <---------------------------------------------------------+-----------+
        ^                               SIGINT for C-g                               |
        +----------------------------------------------------------------------------+
```

Within Emacs, "concurrency" is re-entry: `BLOCK_INPUT`/`UNBLOCK_INPUT` bracket regions
in which input must not be read, every `UNBLOCK_INPUT` (there is one in each `xmalloc`
and `xfree`) may call `reinvoke_input_signal` and so `PM_read_socket`, and a C-g arrives
as a signal at any moment, which either sets `quit-flag` or, while Emacs waits for
input, throws out of whatever is active.

### Inventory

*Modelled* means: by a module here. The other components are listed with what would
make them correct, since the plan works from that. *In part* means that some operations of the
component are not actions of its module; section 7 names them.

| component (files) | state | operations | interacts with | hard behaviours | correct when |
|---|---|---|---|---|---|
| **keyboard event buffer** (`keyboard.c` 2800-3200, 8416) - *modelled in part* | `kbd_buffer`, fetch and store pointers, the vector protecting frames, `internal_last_event_frame` | `kbd_buffer_store_event`, `kbd_buffer_get_event`, `discard-input`, frame selection | filled by `read_avail_input`, read by `read_char`; garbage collector marks the vector | pointers one past the end; the full buffer; special events not wiped; events of other frames | a FIFO; nothing delivered twice or to the wrong frame; frames of unread events protected |
| **drag and drop** (`pmemacs.c` 2227-2375, `pmfns.c` 1500) - *modelled* | `drop_list` and its indices and count, `drop_cookie`, `drop_mutex` | `drag_over`, `drag_drop`, `drop_color`, `send_drop`, `get_drop` | PM thread stores, pipe thread takes, Emacs asks | counter tested without the mutex; requests out of step with drops | an event's cookie gets that event's object; the PM thread never hangs |
| **input path** (`pmterm.c` 205-330 and 646-760, `blockinput.h`, `keyboard.c` 5394-5600 and 8573-8760) - *modelled in part* | pipe, `pm_queue`, `interrupt_input_blocked`, `interrupt_input_pending`, `waiting_for_input`, `quit-flag` | `pm_receive`, `pm_put_queue`, `pm_get_queue`, `PM_read_socket`, `reinvoke_input_signal`, the wait in `wait_reading_process_input` | pmemacs sends; every allocation may re-enter | re-entry between any two steps; C-g thrown through; events put aside while an answer is awaited | no key lost or reordered; every request gets its own answer |
| **scroll bars** (`pmterm.c` 1160-1440, `pmemacs.c` 2379-2540) - *modelled* | two linked lists per frame, `w->vertical_scroll_bar`, ids; in pmemacs the table of PM windows, deferred slider values | condemn, redeem, judge, create, move, update, close; drag, click | redisplay calls; ids cross the pipe | lists relinked in any order; ids reused; destruction posted, updates immediate | lists sound; an id names one bar on both sides; screen shows what was asked |
| **buffer text** (`insdel.c`, `buffer.h`) - *modelled in part* | memory with a gap, `GPT`, `Z`, `PT`, `beg_unchanged`, `end_unchanged`, modification counters | gap motion, `make_gap`, insertion, deletion, replacement, change in place, overlay changes | redisplay reads the notes; quits stop a gap motion | quit between chunks; gap of size zero; memory full half-way | the text is what the edits say; what redisplay keeps is unchanged |
| **undo and markers** (`undo.c`, `marker.c`, the recording in `insdel.c`) - *modelled in part* | `buffer-undo-list`, the chain of markers, `last_undo_buffer`, `last_point_position`, `pending-undo-list` | record, boundary, truncate, `primitive-undo`; move and adjust markers | every edit records; the garbage collector truncates; the file's time decides about "unmodified" | undoing records again; a series of undos while other things edit; errors half-way | undoing a unit gives back the text, markers and point of before it |
| **evaluator and binding stacks** (`eval.c`, `data.c`, `buffer.c`) - *modelled in part* | `specpdl`, `catchlist`, `handlerlist`, `lisp_eval_depth`, `quit-flag`; the value cells of buffer-local variables | bind, unbind, catch, throw, signal, unwind-protect; make, set and kill local values | everything | non-local exits through any depth, more of them while unwinding; one cache for all buffers and frames | every exit restores what its entry bound, once; a variable has the value of its buffer |
| **subprocesses** (`process.c`, `callproc.c`, `sysdep.c`) - *modelled in part* | process list, status, ticks, masks of `select`, filters, sentinels | start, output, status change, delete, wait, `call-process` | SIGCHLD at any moment; filters and sentinels run Lisp | deletion and waits inside a filter; status before the last output; signal before or inside `select` | every death is notified once, after the output |
| frames and windows of pmemacs (`pmemacs.c`, `pmfns.c`) | frame list, windows, sizes, fonts, menus, clipboard | create, show, size, destroy, popup, dialogs | both threads, both pipes | creation in stages; destruction with events in flight; full pipes | one answer per request; no event of a dead frame taken for a live one |
| command loop and key maps (`keyboard.c`, `keymap.c`, `macros.c`, `cmds.c`, `callint.c`, `bytecode.c`, `mocklisp.c`) | `unread-command-events`, macro state, `this-command-keys` | `read_char`, `read_key_sequence`, `command_loop_1` | event buffer, menus, timers | many sources of input in a fixed order; replay after a failed sequence | each event interpreted once |
| memory (`alloc.c`, `ralloc.c`, `gmalloc.c`, `vm-limit.c`) | heap blocks, mark bits, gcpro chain, relocatable blocs | allocate, mark, sweep, relocate | buffer text is a bloc | text moves under pointers into it; marks of weak structures | nothing reachable is freed; a bloc keeps its contents |
| region cache (`region-cache.c`) | boundaries, lazily recorded changes | `know_region_cache`, `invalidate_region_cache`, lookups | buffer text | gap-relative positions, deferred invalidation | what the cache knows is true of the text |
| text properties and intervals (`intervals.c`, `textprop.c`) | interval tree | split, merge, balance, adjust | buffer text | deletion across intervals | the intervals partition the text |
| files and locks (`fileio.c`, `filelock.c`, `dired.c`, `filemode.c`) | lock files, auto-save state | lock, unlock, steal, visit, save | other Emacs processes | crash with a lock held | one owner at a time |
| redisplay (`xdisp.c`, `dispnew.c`, `indent.c`, `scroll.c`, `term.c`, `xfaces.c`, ...) | desired and current matrices | `redisplay_internal`, `update_frame` | scroll bars, buffer notes | pre-emption by input | the screen shows the buffers |
| windows, frames, minibuffers (`window.c`, `frame.c`, `minibuf.c`) | window tree, sizes, selected window | split, delete, resize, configurations | scroll bars, event buffer | restoring dead windows | children tile their parent |
| menus (`xmenu.c`) | menu description | build, popup, dispatch | pmemacs | cancel versus selection | one result per popup |
| search, syntax, case (`search.c`, `regex.c`, `syntax.c`, ...) | pattern buffers | search, match, scan | buffer text | - | results agree with a definition |
| character sets, coding (`charset.c`, `coding.c`, `ccl.c`) | coding state | encode, decode | files, processes | characters split over reads | decoding inverts encoding |
| reader, printer, doc (`lread.c`, `print.c`, `doc.c`, `doprnt.c`) | obarray | read, print, intern | - | - | reading what was printed |
| Lisp library (`fns.c`, `floatfns.c`, `abbrev.c`) | none | pure functions | - | - | - |
| start-up, dumping (`emacs.c`, `unexecemx.c`, `emxdep.c`) | - | once | - | - | - |
| support code (`getloadavg.c`, `strftime.c`, `termcap.c`, `tparam.c`) | - | library replacements | - | - | - |

`src/RCS` holds old revisions of the same files; `src/m`, `src/s` and `src/bitmaps` hold
build configuration and images. They have no state of their own.

The hazards of this code, each at its line and with the properties that would catch
it, are listed in `PROJECT.json`.

## 2. Modules and code

| module | models | abstract specification | TLC module | proofs |
|---|---|---|---|---|
| `KbdBuffer` | the event ring of `keyboard.c` | `EventQueue`, a FIFO | `MCKbdBuffer` | `RingProofs` |
| `PmDrop` | drag and drop in `pmemacs.c` | - | `PmDrop` | `RingProofs` |
| `PmInput` | the way of an event from the pipe to `kbd_buffer` | - | `PmInput` | `PmInputProofs` |
| `PmScrollbar` | scroll bars on both sides of the pipes | - | `MCPmScrollbar` | `PmScrollbarProofs` |
| `GapBuffer` | `insdel.c` for a unibyte buffer | `EditedText`, a text without a gap | `MCGapBuffer` | `GapBufferProofs` |
| `UndoList` | `undo.c` and markers under the edits of `insdel.c` | - | `MCUndoList` | `UndoListProofs` |
| `LocalVariables` | the cache of one buffer- or frame-local variable, `data.c` | `VariableBindings`, the variable without a cache | `MCLocalVariables` | `LocalVariablesProofs` |
| `EvalStacks` | the stacks of `eval.c` under every kind of exit | `DynamicScope`, a stack of bindings | `EvalStacks` | `EvalStacksProofs` |
| `Subprocess` | `process.c`: children, SIGCHLD, waits, filters, sentinels | - | `Subprocess` | `SubprocessProofs` |

`PROJECT.json` maps every definition to the lines it stands for. Definitions whose
comment begins with "Variant" are wrong on purpose: they are what the code would do
with a plausible bug, and are used only to show that a property notices the bug.
Variables commented "history" exist for the properties; the code has no such state.

### KbdBuffer

The ring is a function on slots; the two pointers are indices from 0 to `Size`, because
the code lets a pointer rest one past the last slot and wraps it only when it is used.
The actions are `kbd_buffer_store_event` (`PutEvent` is its tail; `IgnoreSwitch` the
early return for a second `buffer_switch_event`; `StoreQuitChar` and
`StoreQuitCharWaiting` the quit character, which never enters the ring),
`kbd_buffer_get_event` with one action per kind of event at the front
(`GetNothing`, `GetSpecial`, `GetSwitchFrame`, `GetUserEvent`), `discard-input`, and the
effect of selecting a frame. `make_lispy_event` and the wait that precedes a fetch are
not here; the latter is in `PmInput`. When the store pointer is one past the end, the
test of `keyboard.c:2879` reads the memory after the array; both outcomes are allowed.

### PmDrop

The PM thread (`pm`), the pipe thread (`gd`) and Emacs take turns. Each critical section
is one or more steps between taking and releasing `mutex`, and the tests of `drop_count`
the PM thread makes without the mutex are steps of their own. Emacs asks about the
dropped object of the next event, ignores the event, or asks again about an older one.
An object is represented by its cookie. `get_drop` leaves the length of its answer
uninitialised when it finds nothing: the answer is then `None` or `Junk`.

### PmInput

Emacs has one thread but its procedures nest. `stack` holds the procedures of the event
code that are active, with the place each has reached and the event in its hands.
`AfterUnblock` pushes a call of `reinvoke_input_signal` at each `UNBLOCK_INPUT` that
finds input pending, so re-entry happens exactly where the code allows it: when an
event's queue cell is allocated, when it is freed, when a frame is redrawn, and when
Lisp allocates. `Interrupt` and `InterruptWait` are the two halves of
`interrupt_signal`. Events are "key" (becomes input), "paint", "stale" (of an unknown
frame) and "answer"; all others behave like one of these.

### PmScrollbar

Emacs, the pipe thread and the PM thread, with both pipes and the message queue between
the two threads as sequences. The lists are linked through `next` and `prev` as in the
code, so that `Redeem` and `Judge` are the pointer manipulations of
`PM_redeem_scroll_bar` and `PM_judge_scroll_bars`. Redisplay is the sequence condemn,
update each window of the frame in any order, judge; or the update of one window
without the other two. A slider has one value and a bar one place, standing for the
several numbers sent. A bar is numbered by creation, and its PM window with it, so that
"the id names the same bar on both sides" can be said.

### GapBuffer

The memory is a function on positions, the gap a range of it. `MovedLeft`, `MovedRight`,
`Enlarged`, `Filled` and `Emptied` are the byte copies of `gap_left`, `gap_right`,
`make_gap`, the insertion functions and `del_range_2`; the editing actions compose them
in the order of the code. `Stops` is where a quit can leave the gap: after a whole
number of chunks. `Noted` is what a motion writes into `beg_unchanged` and
`end_unchanged`. `textSeen` and `facesSeen` stand for the equality of the modification
counters with those of the last redisplay, which is all the code asks of them. `ahead`
is history: since the text was shown, `beg_unchanged` was at some time more than what is
before the gap, and then counts characters that an insertion at the gap makes wrong.
`EditedText` has no gap: its text is changed by inserting, replacing or translating
characters, and that is what `GapBuffer` is shown to implement.

### UndoList

The text is a sequence, since `GapBuffer` already shows that the gap does not matter; the
undo list is a sequence of records, newest first. The actions are the editing functions
with all they record (`Insert`, `Delete`, `Overwrite`, `Change`), an edit of another
buffer (`EditElsewhere`, which `last_undo_buffer` notices), the boundary of a command,
moving point, placing a marker, saving the file, truncation by the garbage collector, and
`Undo`, which is `primitive-undo` on the first unit of the pending list as `simple.el`
calls it (`undo-start`, `undo-more`; Lisp code, marked external). The pending list is
either a tail of the undo list or cut off from it by a truncation. `past` and `restPast`
are history, as long as the two lists: at the record that ends a unit, the buffer before
that unit. `UndoneRecords` gives the buffers after each of a list's records is undone, as
`Undo` does it, which records again; properties compare what it gives when nothing is
recorded (`Undone`) with the history. `astray` is history too: the markers that were set,
or collapsed by a change in place, while an adjustment of them was recorded, for which
nothing is promised (section 6).

### LocalVariables

One symbol, with the fields of its `Lisp_Buffer_Local_Value`: the value in `real`, the
cell it was loaded from (`elt`), and the buffer and frame that were current then. `fwd`
is a variable that C code uses directly. The actions are `symbol-value`, `default-value`,
`buffer-local-variables`, `set`, `set-default`, an assignment in C, `specbind` and its
end, the functions that make and kill local values, switching and killing buffers,
selecting frames, and `store_frame_param`. Buffers other than the current one are entered
through the same `Switched` the code's `set_buffer_internal_1` is. In
`VariableBindings` there is no cache; `astray` records that what was done may depend on
what happened to be cached, after which nothing is promised: a frame's parameter changed
behind the cache, an automatically local variable set or made local while a frame's
value is in effect, local values killed while the cache holds a frame's, or C code
assigning to a variable whose cache does not serve the current buffer.

### EvalStacks

`stack` is the C stack: the frames of `let`, `catch`, `condition-case`, `unwind-protect`,
of unwind forms and handlers being run, and of `unbind_to` itself, because the unwind
forms it runs are Lisp that may do everything again. `UnbindFrom` starts an `unbind_to`
with its first statement, which notes whether a quit is pending, and `HideQuit` is the one
that clears `Vquit_flag`: a C-g may come between them. `UnwindToCatch` is the jump of
`throw` and of `Fsignal`, which unbinds catch by catch down to its goal and then drops the
frames. Errors come from Lisp, from a C-g (`InterruptSignal`, at any moment, honoured by
the next form evaluated), from the nesting limit and from a full `specpdl`. A variable's
value is kept in `value`, the saved ones in `pdl`; the refinement mapping to
`DynamicScope` reads the stack of bindings off the two.

### Subprocess

`stack` holds the C functions in progress: commands and filters and sentinels (Lisp, each
of which may start, delete or wait for processes or call programs), `read_process_output`,
`wait_reading_process_input` for the keyboard and for `accept-process-output`,
`status_notify`, `call-process`. SIGCHLD is counted per death and its handler may run
between any two steps; it records the status and ends a `select` that has begun or, for
the keyboard, is about to begin. The way to `select` is in the steps of the code: the look
for changes, the copy of the mask (`CopyMask`), the redisplay of a garbaged frame, during
which the handler finds no time limit to zero (`Redisplay`, `Redisplayed`), and
`EnterSelect`; a frame's `missed` is history and says that SIGCHLD came during that
redisplay. `status_notify` walks `Vprocess_alist` by its links (`next`) while the
sentinels it calls unlink processes. `child` and `pipe` are the system's side.

## 3. What the runs check

Every property of a passing run has an entry under "mutants" in `PROJECT.json`: a
variant of a mapped definition under which TLC finds the property violated.

| run | properties | instance | result |
|---|---|---|---|
| `kbd_fifo` | `TypeOK`, `FlagIsExact`, `UnreadProtected`, `WipedOnceDelivered`, `FifoSpec`, `NeverMisdirected` | 3 slots, 2 frames, 6 events, 1 quit character, 1 discard | holds |
| `kbd_overwrite` | `NothingOverwritten` | the same without the quit character | violated |
| `drop_files` | `DropTypeOK`, `RingOrdered`, `RightAnswer`, `StoreCompletes` | ring of 3, drags of up to 3 files, 6 drops of which 1 color, 4 requests, fair threads | holds |
| `pm_input` | `NothingLost`, `PendingCoversQueue`, `AnswerMatched`, `RpcReturns` | 2 keys, 2 other events, 2 requests, 1 C-g at any moment, fair processes | holds |
| `sb_lists` | `TypeOK`, `ListsSound`, `NeverAborts`, `InSync` | 3 windows, 3 ids, 4 bars, 2 places, 4 window changes or redisplays | holds |
| `sb_events` | `IdsAgree`, `LiveBarGetsItsEvents` | 2 windows, 3 ids, 3 bars, 2 slider values, 2 clicks, 1 drag, 1 frame deletion | holds |
| `gap_buffer` | `TypeOK`, `SuffixShown`, `PrefixNearlyShown`, `ImplementsText` | 2 characters, texts up to 3, insertions up to 2, chunks and gaps of 1, 8 bytes of memory | holds |
| `undo` | `TextRestored`, `PlacesRestored`, `UnmodifiedIsSaved` | a file of 1 character, texts up to 2, 1 marker, 2 edits, 2 calls of `primitive-undo`, 1 save | holds |
| `local_vars` | `TypeOK`, `CVariableCurrent`, `BindingsKept` | 2 buffers, 2 frames, 2 values, 1 `let` | holds |
| `eval_stacks` | `TypeOK`, `LevelsRestored`, `CleanupOnce`, `QuitKept`, `DeepBinding` | 4 nested forms, 2 bindings or unwind forms, 1 variable, 2 tags | holds |
| `eval_unwind` | `UnwindFormsRun` | the same | violated |
| `procs` | `TypeOK`, `ToldOnce`, `NeverSleepsOnNews`, `OutputFirst`, `Told` | 2 processes, 1 chunk of output each, 5 functions in progress, fair scheduling | holds |

### What they show, and why the bounds are enough

**`kbd_fifo`, `kbd_overwrite`.** A ring of three slots has every relation between the
pointers: equal, apart, wrapped, one of them at slot 0 and one past the end. Six events
take both pointers around the ring, so each wrap happens after the other, or overflow it
twice. Two frames are what switch-frame events are about: one selected, one not.
`FlagIsExact`, `UnreadProtected` and `FifoSpec` are promised until an event arrives when
`Size - 1` are unread: the history variable `peak` is that dividing line. Below it the
ring *is* a FIFO, its emptiness test is exact and the collector's vector covers it; from
there on it is not, and `kbd_overwrite` shows the first thing to go wrong. That no event
is delivered twice (`WipedOnceDelivered`) survives even then. `NeverMisdirected` is
promised until a quit character arrives, for the reason given in section 6.

**`drop_files`.** Three slots and six drops wrap the ring twice with every split between
files dropped in one drag and in several; four requests allow an answered event, an
ignored one in front, an old one asked again and one more. For files the unlocked test of
`drag_over` is enough; a color is stored without a test, so `RingOrdered` and
`RightAnswer` are promised until the first color. `StoreCompletes` is not: the PM thread
must get the mutex whatever is stored.

**`pm_input`.** Two keys are needed for an order, two other events and two requests for
one re-entry inside another, one C-g to throw out of any of it. The stack is unbounded
in the model and stays shallow because a nested call finds nothing left to read.
`NothingLost` and `PendingCoversQueue` say what they say until a C-g arrives: a C-g
that throws out of `PM_read_socket` may lose the event in its hands, and nothing in the
code promises otherwise. `AnswerMatched` and `RpcReturns` hold with C-g at any moment.

**`sb_lists`, `sb_events`.** Three bars in a list give a first, a middle and a last
element to redeem, and a fourth needs an id that was given back; four changes are enough
to delete a window, redisplay, show it again and redisplay. `sb_events` adds what
`sb_lists` leaves out, on two windows: events, a drag, deletion of the frame and the
reuse of an id while events of its old owner are in the pipe. `InSync` is about
behaviours without drags, because the comments at `pmemacs.c:422` and 425 accept
deviations while one is in progress. `NeverAborts` is not checked with frame deletions,
which leak table entries (section 6).

**`gap_buffer`.** Texts up to three characters have a beginning, a middle and an end on
both sides of the gap; a chunk of one character makes every position of a gap motion one
a quit can stop at; a new gap and a spare space of one make the gap reach size zero,
where its anchor byte would be text, and make `make_gap` run often; a size limit of eight
makes it fail. Two characters tell a position from its neighbour. The run checks the text
against `EditedText`, and what redisplay may keep on the screen: exact for the end of the
text, up to one character at the beginning. What an insertion at a gap that lies before
the end of the noted beginning does (section 6) needs longer texts than these; the proof
of `PrefixNearlyShown`, which failed without the condition on `ahead`, found it.

**`undo`.** Two edits and two calls of `primitive-undo` give: an edit joined to the one
before, two units, an undo that continues a series, an undo of an undo, an edit between
them, an undo interrupted half-way, and a list cut off under a series. A save between the
edits makes the recorded time of one unit obsolete. The history variables `hasty` and
`halved` exclude from `UnmodifiedIsSaved` what the code cannot know: a file written twice
within a tick of its clock, and a unit of which only half was undone. `PlacesRestored` is
about markers nobody moved in between and that do not advance; for the others see
section 6. That a marker in text changed in place also makes an *earlier* adjustment of it
wrong takes three edits, which this run does not have: it was found while proving and by
random simulation of five characters, seven edits and six undos, and is why `Change` adds
such markers to `astray`.

**`local_vars`.** Two buffers and two frames are one that the cache was loaded for and one
that it was not; one `let` can end in another buffer than it began in. Every step of the
code must be the step of the same name in `VariableBindings`, a function that reads, sets
or removes exactly one cell: a cache that is stale, written back to the wrong cell or
written back too late makes some later step differ. `CVariableCurrent` is checked while
no frame has values of its own and the cached buffer lives.

**`eval_stacks`, `eval_unwind`.** Four nested forms are a catch, a binding, a form that is
left and one that is run meanwhile; two entries of `specpdl` are one to restore below
another, and a third is refused. The variable is `inhibit-quit` itself, since its value
decides what a C-g does. `QuitKept` names the two steps that forget a C-g, a throw out of
unwind forms and an `unbind_to` that had looked at the flag before the C-g came (section
6). `eval_unwind` shows that an unwind form is not run when the error that leaves the body
is the nesting limit: `Feval` refuses it for the same reason.

**`procs`.** Two processes are one whose filter or sentinel runs and one it waits for,
deletes or whose death comes meanwhile, before it or behind it in the list that
`status_notify` walks. One chunk of output each tells "before the last output" from
"after". Five functions in progress are a command that waits, a walk, a sentinel in it, a
wait in that and another sentinel in that. `ToldOnce` and `OutputFirst` leave out
processes reported by a walk within a walk's filter (section 6). `NeverSleepsOnNews`
leaves out a SIGCHLD that came during the redisplay just before `select`, for which the
handler has no time limit to zero (section 6). `Told` holds then too, because in the model a process that
died has closed its pipe, whose end ends `select`; section 7 says when it would not.
Deadlock is checked here: no combination of waits stops everything. In the other runs that
check is off, because the bounded inputs run out, and a system without input rightly
stops.

## 4. Fairness

* `PmInput!FairSpec`: `WF(Emacs)`, since the Emacs process is one loop that stops only
  in `select` and in a read of an empty pipe, where no action of it is enabled either;
  `WF(SendAnswer)`, since the pipe thread answers every request it takes from the pipe.
  Nothing is assumed about the user's events.
* `PmDrop!FairSpec`: weak fairness of the steps a thread makes while it holds the mutex
  or needs nothing from others; strong fairness of the two steps that take the mutex,
  because `DosRequestMutexSem` with an indefinite wait queues the thread and grants the
  mutex to it. Nothing is assumed about drops or requests.

* `Subprocess!FairSpec`: weak fairness of what Emacs does on its own, of the delivery of
  SIGCHLD (a pending signal is delivered, and the handler handles one child for each,
  `process.c:4259`), of the death of a child `call-process` waits for, and of the time
  limits of waits. Strong fairness of the steps with which Lisp ends: a command, filter
  or sentinel does return to its caller, though it may do other things before; and of the
  two places where the wait for the keyboard looks at processes, which it reaches only
  when the user pauses. Nothing is assumed about the children of `start-process`.

The other specifications have safety properties only and assume no fairness. `procs` and
`drop_files` check their safety properties under the fair specifications, which allow
the same finite behaviours.

## 5. What is proved

The theorems hold for every value of the constants that satisfies the named assumptions
of the modules (`SizeAssumption`, `FrameAssumption`, `DropMaxAssumption`,
`CharAssumption`, `VarAssumption`, `ProcAssumption`, `FrameOfAssumption`,
`CaseAssumption`, `BoundAssumption`, ...): positive sizes, bounds that are numbers, "no
frame" and its like distinct from the real ones, finite sets of processes and of markers,
every window in a frame, strings that are not empty, a case table that gives characters.
`KeepsRunning` alone assumes more, and says so: a finite set of windows, as many ids as
windows at least, and that no frame is deleted. The bounds themselves are arbitrary, so a
theorem is about any number of events, drops, characters, redisplays or nested calls.

| theorem | module | says | along |
|---|---|---|---|
| `TypeCorrect` | `RingProofs` | `[]TypeOK`: no store misses the ring, overflow or not | `TypeOK` is inductive |
| `DeliveredOnce` | `RingProofs` | `[]WipedOnceDelivered` | `Serial`: ids in the ring are distinct, given out, and not delivered if of user kind |
| `Directed` | `RingProofs` | `NeverMisdirected`, that is, until a quit character arrives | `LastKnown`: the frame of the last event is selected or was announced |
| `PointersExact`, `FramesProtected` | `RingProofs` | `[]FlagIsExact`, `[]UnreadProtected`, that is, while `peak < Size` | `FifoInv`, below |
| `ImplementsQueue` | `RingProofs` | `Spec => FifoSpec`, on the same condition | `FifoInv` and one lemma per step of the queue |
| `DropTypes` | `RingProofs` | `[]DropTypeOK`: the indices stay in the ring, colors or not | `DropTypeOK` is inductive |
| `NeverOverflows` | `RingProofs` | `[]RingOrdered`, that is, until the first color | `DropInv`, below |
| `AnswersRight` | `RingProofs` | `RightAnswer`, on the same condition | `DropInv` |
| `AnswersMatched` | `PmInputProofs` | `[]AnswerMatched`, with C-g at any moment | `Inv`: the shape of the stack, below |
| `QueueCovered` | `PmInputProofs` | `[]PendingCoversQueue`, that is, until a C-g | `Announced` and the shape |
| `KeysInOrder` | `PmInputProofs` | `[]NothingLost`, that is, until a C-g | `InOrder` and the shape |
| `TypeCorrect`, `ListsStaySound` | `PmScrollbarProofs` | `[]TypeOK`, `[]ListsSound` | `Inv`, below: each list is a linear order |
| `IdsStayAgreed`, `EventsFindTheirBar` | `PmScrollbarProofs` | `[]IdsAgree`, `LiveBarGetsItsEvents` | `Inv`: one destruction per id |
| `StaysInSync` | `PmScrollbarProofs` | `[]InSync`, that is, until the first drag | `Inv`: the last request about a bar |
| `KeepsRunning` | `PmScrollbarProofs` | `[]NeverAborts`, with as many ids as windows and no frame deleted | `Inv` and `Room`: no id is lost |
| `TypeCorrect` | `GapBufferProofs` | `[]TypeOK`: the gap is in the memory and no anchor in the text | one lemma per gap operation |
| `TextImplemented` | `GapBufferProofs` | `ImplementsText` | the same lemmas, per character |
| `SuffixIsShown` | `GapBufferProofs` | `[](SuffixShown /\ NothingUnseen)` | both together are inductive with `TypeOK` |
| `PrefixIsNearlyShown` | `GapBufferProofs` | `[]PrefixNearlyShown`, that is, unless `ahead` | `BeginningKept`, below |
| `TextComesBack` | `UndoListProofs` | `[]TextRestored` | `UndoInv`, below: stages between the units |
| `PlacesComeBack` | `UndoListProofs` | `[]PlacesRestored` | `UndoInv`: adjustments have their deletion |
| `OnlySavedUnmodified` | `UndoListProofs` | `[]UnmodifiedIsSaved`, that is, unless `hasty` or `halved` | `UndoInv`: times recorded are true |
| `TypeCorrect` | `LocalVariablesProofs` | `[]TypeOK`: the cache names only a buffer or a frame's value that is there | `Inv`, below |
| `CacheCurrent` | `LocalVariablesProofs` | `[]CVariableCurrent` | `Inv` |
| `CacheInvisible` | `LocalVariablesProofs` | `BindingsKept`, the refinement of `VariableBindings` | `Inv` and one lemma per function |
| `Types` | `EvalStacksProofs` | `[]TypeOK`: both limits hold, but for signals out of unwind forms | `Inv`, below: `Shallow` |
| `Restores` | `EvalStacksProofs` | `[]LevelsRestored` | `Inv`: every frame fits those under it |
| `CleansOnce` | `EvalStacksProofs` | `CleanupOnce` | `Inv`: `Owners` and `Cleaned` |
| `KeepsQuits` | `EvalStacksProofs` | `QuitKept`: two steps alone forget a C-g | `Inv`, by kinds of steps |
| `BindsDeeply` | `EvalStacksProofs` | `DeepBinding`, the refinement of `DynamicScope` | `Inv`, `VarsNamed` and one lemma per kind of step |
| `TypesHold` | `SubprocessProofs` | `[]TypeOK`: signals waiting, masks, output counted | `Inv`, below: `Counted`, `Books` |
| `SentinelRunsOnce`, `OutputComesFirst` | `SubprocessProofs` | `[]ToldOnce`, `OutputFirst` | `Inv`: the list is in the order of age |
| `NeverSleeps` | `SubprocessProofs` | `[]NeverSleepsOnNews`, that is, unless SIGCHLD came during the redisplay | `Inv`: `News`, `Fits` |

**The ring.** `FlagIsExact` is not inductive: it says nothing about how far the pointers
are apart. `FifoInv` adds that the store pointer is `unread` slots after the fetch
pointer, counted around the ring, and that the store pointer is at 0 only before the
first event (afterwards slot 0 is reached as one past the end). All of it is conditional on
`peak`, the most events ever unread, being less than `Size`. With fewer than `Size` unread
events, equal distance then means empty, and the slot written is not unread.

**Drops.** `RingOrdered` needs that an object about to be stored has room. `DropInv`
says that this is so from the unlocked test until the store, since only the PM thread
adds; that the mutex is held exactly in the critical sections; and where `get_drop` has
got to: the oldest object kept is the one after the newest that was answered, so the
loop that drops older ones finds the one it is asked for.

**Text.** Each gap operation gets a lemma that says which character is at each position
afterwards. Gap motion and `make_gap` keep them all, so the theorems about the text
reduce to `Filled`, `Emptied` and `Translated`. `SuffixShown` needs `NothingUnseen`,
since the notes may be reset to the place of the gap only when the text is what was
shown; the argument for the rest is that the smaller of `end_unchanged` and `Z - GPT`
never grows by a motion of the gap, wherever a quit stops it. `Spec` excludes the
failure of `make_gap` inside `replace_range`, without which the theorem would not hold
(section 6).

**Undo.** The properties speak of the buffer after each whole unit, and hold between two
actions only because of what is true after each single record. `UndoInv` says that there
are stages, a text and the places of the markers after every record, such that undoing
each record leads from one stage to the next (`Chain`), the first stage is the buffer as
it is, and those at the ends of units are what was remembered (`PastRecalled`;
`RestRecalled` for the rest of the list that a series of undos has come to). Only the
places of the markers that neither advance nor went astray count (`Steady`). An edit puts
stages in front, the oldest of which is the buffer before the edit (`Grows`): this is one
lemma per function that records, and an insertion that is joined to the record at the head
changes that record's first stage only. `Undo` goes through the stages and, record by
record, adds others for what it records itself (`Progress`); `Truncate` cuts the chain
where a unit ends (`CutAt`), and a pending list that is a tail of the undo list has its
boundaries at the same places (`SharedTail`). Three things more must be known of the
records. An adjustment of a marker follows in the list the deletion that caused it, with
nothing that changes the text between, so that when it is undone the marker is where the
text was put back (`Sound`). A time of the file was recorded with the text the file had
then, or stands in a unit whose undoing goes on (`Timed`); hence `UnmodifiedIsSaved`, a
part of `UndoInv`. And for point, the last record of its unit that moves it is known
(`Points`). TLC cannot evaluate the invariant as it stands, since it quantifies over
stages; before it was proved, it was checked on small instances with the stages that
undoing gives. The attempt to prove it showed that a change in place, like `set-marker`,
leads a marker astray when an adjustment of it is recorded.

**Variables.** The values of a variable are spread over the default, an alist in each
buffer, an alist in each frame, and the cache, which holds one of them and writes it
back only when it moves. `Inv` says that every one of these cells is sound (`TypeOK`);
that where the cache was used last, in a live buffer, it holds that buffer's value
always, and that frame's unless something led it astray (`Coherent`); and that the cache
of a C variable serves the current buffer (`Current`). The refinement maps the cells to
the values they stand for, the cached one taken from the cache. Lemmas about these three
maps say what each elementary motion does to them: writing back and loading change none,
setting changes exactly the one that is in effect, making a variable local adds one.
Each function of `data.c` is a composition of these, so it gets one lemma that both
keeps `Inv` and is the abstract step.

**The beginning of the screen.** That the characters before `beg_unchanged` are those
shown is not inductive and, without more, not true (section 6). `BeginningKept` says it of
all but the last of them while `beg_unchanged` was never beyond the gap: only then does
the minimum with the place of the gap, which redisplay takes, account for an insertion
at the gap that was not noted. The character lost is the one `gap_left` counts too many.

**The event code.** Everything about `PmInput` rests on the shape of the stack. A
procedure that reads the pipe was called by the wait for input or by
`reinvoke_input_signal`, one that puts an event aside by `pm_receive`, and nothing that
reads runs above a `pm_receive`, because input is blocked while it waits (`Shape`,
`Blocking`). So only the innermost procedure has an event in its hands, one that frees a
queue cell still has the first one (`CellHeld`), and there is exactly one answer under way
while `pm_receive` waits, else none (`OneAnswer`): it may not be taken by a nested
reader. `InOrder` reads the keys off the way they take, `kbd_buffer` first, then what each
active procedure holds, the queue, and the pipe, and says that they are the next ones in
the order of typing.

**Scroll bars.** `Lists` says that the bars on a list are ranked so that each link leads to
a lower rank and both links agree: that much is kept by taking a bar out and putting it in
front, and it makes `Chain`, which follows the links, enumerate exactly these bars. Which
bars they are is told by the windows. Between the two processes: while Emacs waits for a
new bar it sends nothing (`Creating`); a bar in use has an entry of the table, its own, and
one whose destruction is under way has no window and will give back an id that no other
request gives back (`Destroying`), so that an id cannot reach a second bar while the first
still uses it; and the last request about a bar under way, or the bar's PM window if there
is none, has what Emacs wants (`Synced`). For `KeepsRunning`, `Room` says that each
entry of the table is that of a bar in use, of the bar being made, or one that a request
under way gives back. When a creation comes to the PM thread nothing else is under way,
so a full table would need as many windows with bars as there are ids, and the window that
waits for its bar is one more.

**The stacks of the evaluator.** Each form remembers five levels, but a `throw` through
forms that run Lisp has none of them in its hands. `Inv` says where they are: each frame
began at the levels that the frame under it allows (`Sound`), the catches on the list
each remember the catches before it (`Chained`), and an unwind form on `specpdl` belongs
to an `unwind-protect` that lies between the catches with lower levels of `specpdl` and
those with higher ones (`Owners`), so that unwinding down to a catch runs the forms of
exactly the frames dropped. `Cleaned` says that a frame's forms are on `specpdl` or were
run once. `Shallow` is why the stacks are finite: an unwind form that signals takes an
entry of `specpdl` with each further level.

**Dynamic scope.** Emacs keeps only the present value of a variable and, on `specpdl`,
the values to put back. The mapping to `DynamicScope` takes the entries for variables
(`BoundOf`) and gives each binding the value saved by the next binding of the same
variable, the last one the present value (`Held`). A new binding then leaves what all
others hold as it was, since it saves the present value; the end of a binding is that step
read backwards, so one lemma serves both; an assignment changes what the last binding
holds. Every action of `EvalStacks` does one of these to `specpdl` and the values, or
pushes or takes off an unwind form, which the mapping does not see (`StepShapes`). The
assignment of `cmd_error` to `inhibit-quit` is one like any other.

**Subprocesses.** `status_notify` walks a list while the sentinels it calls take processes
off it. `Order` ranks processes by age: the list is in descending order, and the link
that a process keeps after it is taken off still leads to an older one with no listed
process between (`Skipless`). Then no walk can skip a process, and while `delete-process`
waits for its walk the process deleted is ahead of the walk, or its last output is
being read (`Deletes`), so that it is off the list when the walk is done. A process that
is off the list has been told of and has no more news (`Books`), which is why a sentinel
runs once. For `NeverSleeps`, a wait that another function interrupted looks again or does
not block (`Fits`); from its look at what changed to `select` nothing but SIGCHLD can come,
and that one zeroes the time limit or, during the redisplay, sets `missed` (`News`).

The prover has no induction over data; where a recursive definition must be followed for
any length (`Chain` of the scroll bars, `Kept`, `BoundOf`, `UndoneRecords`), the proof
takes the least number for which the statement would fail.

**Only model-checked:** `StoreCompletes`, `RpcReturns` and `Told`, because liveness under
fairness is out of the prover's reach; and the violations, which need no proof. Every
safety property of the passing runs has its theorem.

## 6. Disagreements between code and comments

Shown by a run (details in `PROJECT.json`, "findings"):

* `kbd_overwrite`: the full test of `keyboard.c:2889` misses a full ring whose fetch
  pointer is at slot 0, and the next events overwrite unread ones.
* `eval_unwind`: the unwind forms of `unwind-protect` are not run when the error that
  leaves its body is that `lisp_eval_depth` has reached its limit (`eval.c:1721`; the
  comment is at 999).

Known from the models, without a run of their own:

* A dropped color is stored without the test of `drop_count` and overwrites an object of
  the ring (`pmemacs.c:2369`).
* `gap_left` compares a position with a count (`insdel.c:149`), so `beg_unchanged` may be
  one too large.
* After a change in place behind the gap (`modify_region`, `insdel.c`; `modify_overlay`,
  `buffer.c:3066`) or a motion a quit stopped, `beg_unchanged` can be more than what is
  before the gap. Text then inserted at the gap is not noted, and redisplay takes the
  characters up to the new place of the gap for unchanged, the inserted ones included
  (`xdisp.c:2647-2655`; the comment at 245 says the smallest number of characters before
  the gap at any time). It takes a text of four characters or more.
* When `make_gap` fails inside `replace_range` (`insdel.c:1880`), the text has changed and
  `MODIFF` has not.
* After an overflow the ring can look empty although events are unread, and the other
  way round (`keyboard.c:473` says the comparison of the pointers is input being
  available).
* Two `buffer_switch_event`s can be stored in a row: the test reads the slot to be
  written, not the one before (`keyboard.c:2875-2879`).
* `discard-input` leaves the kinds of the events in the slots (`keyboard.c:455`).
* A quit character sets the frame of the last event but sends no switch-frame event, so
  the next key of that frame may be read in the selected one (`keyboard.c:2851-2860`).
* `pm-get-drop` about an object that is gone answers with an uninitialised length
  (`pmfns.c:1509`, `pmemacs.c:2349`).
* `select` can sleep while a key is in `pm_queue` (`process.c:2316`, `pmterm.c:663`).
* A C-g inside `xfree` under `pm_get_queue` throws to `read_char` past `UNBLOCK_INPUT`
  and leaves input blocked (`eval.c:1125`, `pmterm.c:230`).
* A slider can be updated while the user drags it: the flag is tested before the update
  by another thread than the one that sets it (`pmemacs.c:2386-2388`).
* Entries of `scrollbar_table` are not freed when a frame is deleted
  (`pmemacs.c:412` and 3616).
* An event of a bar that was closed has a nil window (`keyboard.c:434`,
  `pmterm.c:728`).

Undo and markers:

* Markers of insertion type t, and markers in text that is replaced in place, are not put
  back (`undo.c:147-150`, `insdel.c:394-397`); a marker that `set-marker` moved after an
  adjustment of it was recorded is moved again by undo, and so is one that a change in
  place or its undoing collapsed after that; the adjustments undo itself makes are not
  recorded.
* The first deletion recorded in an empty list does not record point.
* `replace_range` records the first change twice (`undo.c:61` and 127), so undoing half of
  its unit can mark a text unmodified that is not the file's.
* The loop of `undo.c:112-119` would run off a list of nothing but marker adjustments.
* Two saves within one tick of the file's clock cannot be told apart (`undo.c:430`).

Evaluator and variables:

* A C-g is forgotten when an unwind form throws (`eval.c:2736-2755`, compare 2943), and
  when it comes between the statements of `unbind_to` that note whether a quit is pending
  (2736) and clear `Vquit_flag` (2741). By `keyboard.c:8561` it makes `eval` throw when it
  gets a chance. `QuitKept` names these two steps and says that there is no other.
* `make-local-variable` copies the default from the cell, which is stale while the cache
  holds it (`data.c:1371`, compare 1312-1313).
* `kill-buffer` swaps out the variables of the killed buffer only if the cache names the
  buffer current at that moment, so a C variable can keep the dead buffer's value
  (`buffer.c:1953-1955`, `lisp.h:837-839`).
* A `let` of a variable that is local where set, followed by `setq`, sets a value local to
  the buffer; the end of the `let` restores that one, and the default stays bound
  (`data.c:1068`).
* `store_frame_param` changes frame parameters behind the cache (`frame.c:1902-1906`);
  selecting a frame swaps nothing in; setting an automatically local variable while a
  frame's value is in effect, and `kill-all-local-variables` with a permanent variable,
  depend on what is cached.

Subprocesses:

* A sentinel is called twice when a filter that `status_notify` calls for the last output
  waits and so enters `status_notify` again (`process.c:633-657`, 4392-4437).
* A SIGCHLD during the redisplay of a garbaged frame (`process.c:2538-2543`) zaps no
  timeout, since `clear_waiting_for_input` took it away, although by the comment at 2476
  it does so from the explicit check on. `select` then begins with the full time limit and
  a change of status unreported, which `NeverSleepsOnNews` leaves out (`missed`). What
  ends it is the end of file on the pipe of the process, which was in the mask copied
  before; where a child of the process holds the pipe open nothing does.
* `accept-process-output` can block for a process that died after the explicit check and
  before `select` (`process.c:2495`, 2529).
* A status change between the walk of `status_notify` and its last `update_tick = tick` is
  noticed late; after a stop it is swallowed.
* `call-process` can take the status of a child that is on no list any more
  (`process.c:4224`, `callproc.c:213`).
* A chunk that decodes to nothing ends the reading of the last output (`process.c:2993`,
  4405; compare 2832-2834). A live process that closed its output keeps `status_notify`
  from being reached. The drain loop of a wait for one process spins on -1
  (`process.c:2498-2515`).
* `set-process-filter` to t on a dead process sets a bit at index -1
  (`process.c:797-820`). A sentinel set inside the sentinel is undone when it returns.
* Deaths whose SIGCHLDs coalesce leave a child unreaped.

## 7. What is not modelled

Within the modelled components:

* keyboard ring: mouse movement, which is generated on reading and never stored;
  selection events, which do not exist under PM; the multi-keyboard code, which is not
  compiled; the `input_pending` cache; timers;
* input path: what each event does once it is dispatched (sizes, focus, menus),
  `immediate_quit`, subprocess output, a broken pipe;
* scroll bars: sizes in pixels, the invisible frame's PM window, slider arithmetic;
* drag and drop: rendering formats and the names of objects;
* buffer text: multibyte characters and byte combining, intervals, what
  overlays hold, narrowing, read-only buffers, hooks, and the functions that write into
  the gap themselves (`insert-file-contents`, `coding.c`); an insertion by `replace_range`
  for no text while the gap is empty, whose anchor, written without the usual test
  (`insdel.c:1869`), would overwrite the character after the gap: its callers (`cmds.c:471`,
  `editfns.c:2054`, 2151, 3053) name some text, which only a function called before the
  change can delete;
* undo: text properties, multibyte characters, narrowing, `transpose-regions`, and the
  changes `subst-char-in-region` makes without recording;
* evaluator: the debugger, `signal-hook-function`, the backtrace and gcpro lists (saved
  and restored like `lisp_eval_depth`), `bytecode.c`, keyboard-local variables;
  aliases and `makunbound`;
* subprocesses: stopped processes, network streams, ptys, sending to a process, timers,
  decoding, which is taken to give some text for every chunk, and the redisplay before
  `select`, which is taken to run no Lisp that starts, waits for or deletes processes; a
  process whose children hold its pipe open after it died, so that no end of file comes:
  if its SIGCHLD falls into that redisplay, its death is reported only when something else
  ends `select`.

The other components of the inventory have no module yet. Search, conversion, reading,
printing and the Lisp library are sequential computations on data, which tests reach
well; redisplay is that too, apart from its pre-emption; start-up runs before anything
can interleave with it.

## 8. Plan

In this order, the most state shared by several actors first. Each module gets its
abstract specification where one is named, and its proofs a module of their own.

1. `PmPipes`: the two pipes with a capacity, `WinPostMsg` and `hevDone`: who may wait
   for whom; whether everyone can wait for everyone. `PmFrame`: a frame's stages from
   `x-create-frame` to destruction, addresses used again. `PmMenu`: a popup answers
   exactly once, cancelled or not.
2. `ReadChar`: the order of the sources of `read_char`; composition of `PmInput`,
   `KbdBuffer` and the wait of `Subprocess`.
3. `RegionCache`: the lazily invalidated cache against a function of the text.
4. `GcMark`, `Ralloc`: reachability with gcpro; relocation under pointers.
5. `WindowTree`, `Intervals`: partitions kept by split and delete.
6. Auto-save and visited-file state of `fileio.c`. (`filelock.c` is compiled only with
   `CLASH_DETECTION`, which `s/emx.h` comments out.)

## 9. Running the checks

    tlc -workers 2 -config kbd_fifo.cfg MCKbdBuffer
    tlapm GapBufferProofs.tla

Each `.cfg` is named after its run; `PROJECT.json` gives the module. The proofs of all
eight proof modules together take about a quarter of an hour.
