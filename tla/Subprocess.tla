----------------------------- MODULE Subprocess -----------------------------
(***************************************************************************)
(* Asynchronous subprocesses (process.c): children that write and die, the *)
(* SIGCHLD handler, which may interrupt Emacs anywhere and only records,   *)
(* the waits that read output and report deaths, and the filters and       *)
(* sentinels they run, in which Lisp may wait, delete or call programs.    *)
(*                                                                         *)
(* `stack' holds the functions in progress, the innermost last.  Reads of  *)
(* the clock, keyboard macros and timers are left out, as are stopped      *)
(* processes, network streams and processes on ptys.  Every process has a  *)
(* filter and a sentinel; every chunk of output decodes to some text.      *)
(* A pipe ends with its child: no grandchild keeps it open.  The redisplay *)
(* before select runs no Lisp that waits or touches processes.             *)
(***************************************************************************)
EXTENDS Naturals, Sequences, FiniteSets

CONSTANTS
  Procs, Nil,      \* processes, and no process
  MaxOutput,       \* bound: chunks a child writes
  MaxFrames        \* bound: functions in progress when Lisp starts another

ASSUME ProcAssumption == Nil \notin Procs /\ IsFiniteSet(Procs)
ASSUME BoundAssumption == MaxOutput \in Nat /\ MaxFrames \in Nat

VARIABLES
  child, pipe,     \* the system's side: the state of a child, its unread chunks
  sigchld,         \* SIGCHLDs that wait for delivery
  synch,           \* call-process: its child, synch_process_retcode and _death
  proc,            \* struct Lisp_Process
  next,            \* Vprocess_alist: what follows Nil, the head, and each process
  ticks,           \* process_tick and update_tick
  stack,           \* functions in progress
  written,         \* history: chunks written
  heard,           \* history: chunks given to the filter
  told,            \* history: calls of the sentinel
  nested           \* history: processes reported by a walk within a walk's filter

system == <<child, pipe, sigchld, written>>
history == <<heard, told, nested>>
vars == <<system, synch, proc, next, ticks, stack, history>>

Frame(kind, p, stage) ==
  [kind |-> kind, proc |-> p, stage |-> stage, avail |-> {}, zapped |-> FALSE, missed |-> FALSE]
Top == stack[Len(stack)]
Pop == SubSeq(stack, 1, Len(stack) - 1)
At(stage) == [stack EXCEPT ![Len(stack)].stage = stage]

Init ==
  /\ child = [p \in Procs |-> "none"] /\ pipe = [p \in Procs |-> 0] /\ sigchld = 0
  /\ synch = [child |-> "none", retcode |-> "none", death |-> FALSE]
  /\ proc = [p \in Procs |-> [listed |-> FALSE, open |-> FALSE, mask |-> FALSE, tick |-> 0,
                              update |-> 0, raw |-> "none", status |-> "run", sentinel |-> TRUE]]
  /\ next = [p \in Procs \cup {Nil} |-> Nil]
  /\ ticks = [process |-> 0, update |-> 0]
  /\ stack = <<Frame("command", Nil, "run")>>
  /\ written = [p \in Procs |-> 0] /\ heard = [p \in Procs |-> 0] /\ told = [p \in Procs |-> 0]
  /\ nested = {}

-----------------------------------------------------------------------------
(* The system: a child writes, and dies with all it wrote in the pipe. *)
Write(p) ==
  /\ child[p] = "alive" /\ written[p] < MaxOutput
  /\ written' = [written EXCEPT ![p] = @ + 1]
  /\ pipe' = IF proc[p].open THEN [pipe EXCEPT ![p] = @ + 1] ELSE pipe
  /\ UNCHANGED <<child, sigchld, synch, proc, next, ticks, stack, history>>

Exit(p) ==
  /\ child[p] = "alive"
  /\ child' = [child EXCEPT ![p] = "exit"] /\ sigchld' = sigchld + 1
  /\ UNCHANGED <<pipe, written, synch, proc, next, ticks, stack, history>>

SynchExit ==
  /\ synch.child = "alive"
  /\ synch' = [synch EXCEPT !.child = "exit"] /\ sigchld' = sigchld + 1
  /\ UNCHANGED <<child, pipe, written, proc, next, ticks, stack, history>>

(* Variant: only a select that has begun is ended. *)
AwokenInSelect ==
  IF Top.kind \in {"keyboard", "accept"} /\ Top.stage = "select" THEN At("check") ELSE stack

(* sigchld_handler takes one child per signal.  It ends a select, and zeroes   *)
(* the timeout of a keyboard wait that has yet to call it, but not during the  *)
(* redisplay before it: input_available_clear_time is null then.  (A frame's   *)
(* `missed' is history: SIGCHLD came during that redisplay.)                   *)
Awoken ==
  CASE Top.kind \in {"keyboard", "accept"} /\ Top.stage = "select" ->
         [At("check") EXCEPT ![Len(stack)].missed = FALSE]
    [] Top.kind = "keyboard" /\ Top.stage \in {"check", "ready", "masked", "armed"} ->
         [stack EXCEPT ![Len(stack)].zapped = TRUE]
    [] Top.kind = "keyboard" /\ Top.stage = "redisplay" ->
         [stack EXCEPT ![Len(stack)].missed = TRUE]
    [] OTHER -> stack

SigchldListed(p) ==
  /\ sigchld > 0 /\ child[p] \in {"exit", "signal"} /\ proc[p].listed
  /\ sigchld' = sigchld - 1 /\ child' = [child EXCEPT ![p] = "reaped"]
  /\ ticks' = [ticks EXCEPT !.process = @ + 1]
  /\ proc' = [proc EXCEPT ![p].tick = ticks'.process, ![p].raw = child[p], ![p].mask = FALSE]
  /\ stack' = Awoken
  /\ UNCHANGED <<pipe, written, synch, next, history>>

(* A child of no process on the list is taken for that of call-process. *)
SigchldStray(p) ==
  /\ sigchld > 0 /\ child[p] \in {"exit", "signal"} /\ ~proc[p].listed
  /\ sigchld' = sigchld - 1 /\ child' = [child EXCEPT ![p] = "reaped"]
  /\ synch' = IF child[p] = "exit" THEN [synch EXCEPT !.retcode = "other"]
              ELSE [synch EXCEPT !.death = TRUE]
  /\ stack' = Awoken
  /\ UNCHANGED <<pipe, written, proc, next, ticks, history>>

SigchldSynch ==
  /\ sigchld > 0 /\ synch.child = "exit"
  /\ sigchld' = sigchld - 1
  /\ synch' = [synch EXCEPT !.child = "none", !.retcode = "own"]
  /\ stack' = Awoken
  /\ UNCHANGED <<child, pipe, written, proc, next, ticks, history>>

-----------------------------------------------------------------------------
(* Lisp: a command, a filter or a sentinel *)
LispRuns == Top.kind \in {"command", "filter", "sentinel"}
Calls(frames) == Len(stack) < MaxFrames /\ stack' = stack \o frames

StartProcess(p) ==
  /\ LispRuns /\ child[p] = "none"
  /\ child' = [child EXCEPT ![p] = "alive"]
  /\ proc' = [proc EXCEPT ![p].listed = TRUE, ![p].open = TRUE, ![p].mask = TRUE]
  /\ next' = [next EXCEPT ![Nil] = p, ![p] = next[Nil]]
  /\ UNCHANGED <<pipe, sigchld, written, synch, ticks, stack, history>>

(* kbd_buffer_get_event waits for input; a filter's command loop is left out. *)
ReadKeyboard ==
  /\ Top.kind = "command"
  /\ stack' = Append(stack, Frame("keyboard", Nil, "check"))
  /\ UNCHANGED <<system, synch, proc, next, ticks, history>>

AcceptProcessOutput(p) ==
  /\ LispRuns /\ proc[p].open /\ Calls(<<Frame("accept", p, "check")>>)
  /\ UNCHANGED <<system, synch, proc, next, ticks, history>>

CallProcess ==
  /\ LispRuns /\ synch.child = "none" /\ Calls(<<Frame("call", Nil, "run")>>)
  /\ synch' = [child |-> "alive", retcode |-> "none", death |-> FALSE]
  /\ UNCHANGED <<system, proc, next, ticks, history>>

ReturnCall ==
  /\ Top.kind = "call" /\ synch.child = "none"
  /\ stack' = Pop
  /\ UNCHANGED <<system, synch, proc, next, ticks, history>>

(* status_notify starts: it will have seen every change made so far. *)
NotifyFrame == Frame("notify", next[Nil], "visit")
Unlinked(p) ==
  IF proc[p].listed
  THEN [q \in DOMAIN next |-> IF next[q] = p /\ (q = Nil \/ proc[q].listed) THEN next[p]
                             ELSE next[q]]
  ELSE next

(* Variants: the process stays on the list; its descriptor stays in the masks. *)
RemoveProcessListed(p, record) ==
  /\ next' = next
  /\ proc' = [proc EXCEPT ![p] = [record EXCEPT !.open = FALSE, !.mask = FALSE]]
  /\ pipe' = [pipe EXCEPT ![p] = 0]
RemoveProcessMasked(p, record) ==
  /\ next' = Unlinked(p)
  /\ proc' = [proc EXCEPT ![p] = [record EXCEPT !.listed = FALSE, !.open = FALSE]]
  /\ pipe' = [pipe EXCEPT ![p] = 0]

RemoveProcess(p, record) ==
  /\ next' = Unlinked(p)
  /\ proc' = [proc EXCEPT ![p] = [record EXCEPT !.listed = FALSE, !.open = FALSE, !.mask = FALSE]]
  /\ pipe' = [pipe EXCEPT ![p] = 0]

(* delete-process: kill it, report that at once, and forget it. *)
DeleteProcess(p) ==
  /\ LispRuns /\ proc[p].open
  /\ Calls(<<Frame("delete", p, "run"), NotifyFrame>>)
  /\ IF child[p] = "alive"
     THEN child' = [child EXCEPT ![p] = "signal"] /\ sigchld' = sigchld + 1
     ELSE UNCHANGED <<child, sigchld>>
  /\ ticks' = [process |-> ticks.process + 1, update |-> ticks.process + 1]
  /\ proc' = [proc EXCEPT ![p].raw = "none", ![p].status = "signal", ![p].tick = ticks'.process]
  /\ UNCHANGED <<pipe, written, synch, next, history>>

DeleteDone ==
  /\ Top.kind = "delete"
  /\ RemoveProcess(Top.proc, proc[Top.proc])
  /\ stack' = Pop
  /\ UNCHANGED <<child, sigchld, written, synch, ticks, history>>

-----------------------------------------------------------------------------
(* read_process_output: the filter gets what is there. *)
Readable(p) == proc[p].open /\ pipe[p] > 0
ReadOutput(p, frames) ==
  /\ pipe' = [pipe EXCEPT ![p] = @ - 1] /\ heard' = [heard EXCEPT ![p] = @ + 1]
  /\ stack' = Append(frames, Frame("filter", p, "run"))
  /\ UNCHANGED <<child, sigchld, written, synch, proc, next, ticks, told, nested>>

ReturnFilter ==
  /\ Top.kind = "filter" /\ stack' = Pop
  /\ UNCHANGED <<system, synch, proc, next, ticks, history>>

(* wait_reading_process_input.  A keyboard wait first reports what changed, if *)
(* there is nothing to read.                                                    *)
Waits(kind, stage) == Top.kind = kind /\ Top.stage = stage
Ended(p) == child[p] # "alive" /\ pipe[p] = 0
Answers(p) == proc[p].open /\ (pipe[p] > 0 \/ Ended(p))
Changed == ticks.update # ticks.process

CheckNotifies ==
  /\ Waits("keyboard", "check") /\ Changed
  /\ \A p \in Procs : ~(proc[p].mask /\ Answers(p))
  /\ stack' = Append([At("ready") EXCEPT ![Len(stack)].zapped = TRUE], NotifyFrame)
  /\ ticks' = [ticks EXCEPT !.update = ticks.process]
  /\ UNCHANGED <<system, synch, proc, next, history>>

(* A process or the keyboard has something to read; the select will not wait. *)
CheckBusy ==
  /\ Waits("keyboard", "check") /\ Changed
  /\ stack' = [At("ready") EXCEPT ![Len(stack)].zapped = TRUE]
  /\ UNCHANGED <<system, synch, proc, next, ticks, history>>

CheckNothing ==
  /\ Waits("keyboard", "check") /\ ~Changed
  /\ stack' = At("ready")
  /\ UNCHANGED <<system, synch, proc, next, ticks, history>>

(* A wait for the output of a process looks at its status first. *)
Updated(p) == IF proc[p].raw = "none" THEN proc[p]
              ELSE [proc[p] EXCEPT !.status = proc[p].raw, !.raw = "none"]

CheckProcess ==
  /\ Waits("accept", "check")
  /\ proc' = [proc EXCEPT ![Top.proc] = Updated(Top.proc)]
  /\ stack' = At(IF proc'[Top.proc].status = "run" THEN "ready" ELSE "drain")
  /\ UNCHANGED <<system, synch, next, ticks, history>>

Drain ==
  /\ Waits("accept", "drain")
  /\ IF Readable(Top.proc) THEN ReadOutput(Top.proc, stack)
     ELSE stack' = Pop /\ UNCHANGED <<system, synch, proc, next, ticks, history>>

(* The descriptors in the mask now are those select will look at. *)
CopyMask ==
  /\ Top.kind \in {"keyboard", "accept"} /\ Top.stage = "ready"
  /\ stack' = [At("masked") EXCEPT ![Len(stack)].avail = {p \in Procs : proc[p].mask}]
  /\ UNCHANGED <<system, synch, proc, next, ticks, history>>

(* frame_garbaged: the wait for the keyboard, alone, displays first, and clears *)
(* waiting_for_input until it is done.                                          *)
Redisplay ==
  /\ Waits("keyboard", "masked")
  /\ stack' = At("redisplay")
  /\ UNCHANGED <<system, synch, proc, next, ticks, history>>

Redisplayed ==
  /\ Waits("keyboard", "redisplay")
  /\ stack' = At("armed")
  /\ UNCHANGED <<system, synch, proc, next, ticks, history>>

EnterSelect ==
  /\ Top.kind \in {"keyboard", "accept"} /\ Top.stage \in {"masked", "armed"}
  /\ stack' = At("select")
  /\ UNCHANGED <<system, synch, proc, next, ticks, history>>

Selected == {p \in Top.avail : Answers(p)}
AtHead == [At("check") EXCEPT ![Len(stack)].zapped = FALSE, ![Len(stack)].avail = {},
                              ![Len(stack)].missed = FALSE]

SelectReturns ==
  /\ Top.kind \in {"keyboard", "accept"} /\ Top.stage = "select"
  /\ Selected # {} \/ Top.zapped
  /\ stack' = IF Selected # {} THEN [At("serve") EXCEPT ![Len(stack)].avail = Selected]
              ELSE IF Top.kind = "accept" THEN Pop ELSE AtHead
  /\ UNCHANGED <<system, synch, proc, next, ticks, history>>

(* Input ends a keyboard wait before anything else is done, time the others. *)
InputArrives ==
  /\ Waits("keyboard", "select")
  /\ stack' = Pop
  /\ UNCHANGED <<system, synch, proc, next, ticks, history>>

TimeRunsOut ==
  /\ Waits("accept", "select")
  /\ stack' = Pop
  /\ UNCHANGED <<system, synch, proc, next, ticks, history>>

(* After a filter ran no other channel is read before the next select.  The     *)
(* wait for a process returns once its channel has nothing more to read.         *)
Serve(p) ==
  /\ Top.kind \in {"keyboard", "accept"} /\ Top.stage = "serve" /\ p \in Top.avail
  /\ LET got == Top.kind = "accept" /\ Top.proc = p
         again == [AtHead EXCEPT ![Len(stack)].zapped = (got \/ (Top.kind = "accept" /\ Top.zapped))]
     IN IF proc[p].mask /\ Readable(p) THEN ReadOutput(p, again)
        ELSE /\ stack' = IF Top.avail = {p} THEN again
                         ELSE [stack EXCEPT ![Len(stack)].avail = @ \ {p},
                                            ![Len(stack)].zapped = @ \/ got]
             /\ UNCHANGED <<system, synch, proc, next, ticks, history>>

-----------------------------------------------------------------------------
(* status_notify walks the list. *)
Visit ==
  /\ Top.kind = "notify" /\ Top.stage = "visit" /\ Top.proc # Nil
  /\ LET p == Top.proc IN
     IF proc[p].tick = proc[p].update
     THEN stack' = [stack EXCEPT ![Len(stack)].proc = next[p]] /\ UNCHANGED proc
     ELSE /\ proc' = [proc EXCEPT ![p].update = proc[p].tick]
          /\ stack' = At("read")
  /\ UNCHANGED <<system, synch, next, ticks, history>>

(* Variant: changes made during the walk count as reported. *)
NotifyDoneMarks ==
  /\ Top.kind = "notify" /\ Top.stage = "visit" /\ Top.proc = Nil
  /\ stack' = Pop
  /\ ticks' = [ticks EXCEPT !.update = ticks.process]
  /\ UNCHANGED <<system, synch, proc, next, history>>

NotifyDone ==
  /\ Top.kind = "notify" /\ Top.stage = "visit" /\ Top.proc = Nil
  /\ stack' = Pop
  /\ UNCHANGED <<system, synch, proc, next, ticks, history>>

(* Variant: what remains is not waited for. *)
ExhaustedAtOnce(p) == TRUE
Exhausted(p) == ~Readable(p)

(* What remains of the output is read first. *)
ReadRest ==
  /\ Top.kind = "notify" /\ Top.stage = "read" /\ Readable(Top.proc)
  /\ ReadOutput(Top.proc, stack)

(* A walk further out runs the filter of the process it is about to report. *)
WalkedBelow(p) ==
  \E i \in 1 .. Len(stack) - 1 : stack[i].kind = "notify" /\ stack[i].proc = p /\ stack[i].stage = "read"

(* Then the process is removed, and its sentinel called unless it runs already. *)
Report ==
  /\ Top.kind = "notify" /\ Top.stage = "read" /\ Exhausted(Top.proc)
  /\ LET p == Top.proc
         r == Updated(p)
     IN /\ RemoveProcess(p, [r EXCEPT !.update = r.tick, !.sentinel = FALSE])
        /\ IF proc[p].sentinel
           THEN /\ stack' = Append(At("visit"), Frame("sentinel", p, "run"))
                /\ told' = [told EXCEPT ![p] = @ + 1]
           ELSE /\ stack' = [At("visit") EXCEPT ![Len(stack)].proc = next[p]]
                /\ UNCHANGED told
  /\ nested' = nested \cup {p \in {Top.proc} : WalkedBelow(p)}
  /\ UNCHANGED <<child, sigchld, written, synch, ticks, heard>>

(* exec_sentinel puts the sentinel back; status_notify takes the next process. *)
ReturnSentinel ==
  /\ Top.kind = "sentinel"
  /\ proc' = [proc EXCEPT ![Top.proc].sentinel = TRUE]
  /\ stack' = [Pop EXCEPT ![Len(stack) - 1].proc = next[Top.proc]]
  /\ UNCHANGED <<system, synch, next, ticks, history>>

Emacs ==
  \/ ReadKeyboard \/ ReturnCall \/ DeleteDone \/ ReturnFilter
  \/ CheckNotifies \/ CheckBusy \/ CheckNothing \/ CheckProcess \/ Drain
  \/ CopyMask \/ Redisplay \/ Redisplayed \/ EnterSelect \/ SelectReturns
  \/ \E p \in Procs : Serve(p)
  \/ Visit \/ NotifyDone \/ ReadRest \/ Report \/ ReturnSentinel
Lisp ==
  \/ \E p \in Procs : StartProcess(p) \/ AcceptProcessOutput(p) \/ DeleteProcess(p)
  \/ CallProcess
Sigchld == SigchldSynch \/ \E p \in Procs : SigchldListed(p) \/ SigchldStray(p)
System == SynchExit \/ Sigchld \/ \E p \in Procs : Write(p) \/ Exit(p)

Next == Emacs \/ Lisp \/ System \/ InputArrives \/ TimeRunsOut

Spec == Init /\ [][Next]_vars

(* Signals arrive, Emacs runs, waits for output have time limits; Lisp ends the *)
(* command, filter or sentinel it runs, and the user pauses often enough for    *)
(* Emacs to look at its processes.                                              *)
Fairness ==
  /\ WF_vars(SynchExit) /\ WF_vars(SigchldSynch) /\ \A p \in Procs : WF_vars(SigchldListed(p))
  /\ WF_vars(Emacs) /\ WF_vars(TimeRunsOut)
  /\ SF_vars(ReadKeyboard \/ ReturnFilter \/ ReturnSentinel)
  /\ SF_vars(CheckNotifies) /\ SF_vars(SelectReturns)
FairSpec == Spec /\ Fairness

-----------------------------------------------------------------------------
(* Values and bounds; only processes with open pipes and on the list are in the *)
(* masks of select (process.c keeps input_wait_mask by hand).                   *)
TypeOK ==
  /\ child \in [Procs -> {"none", "alive", "exit", "signal", "reaped"}]
  /\ pipe \in [Procs -> 0 .. MaxOutput] /\ written \in [Procs -> 0 .. MaxOutput]
  /\ heard \in [Procs -> 0 .. MaxOutput] /\ told \in [Procs -> Nat]
  /\ sigchld \in 0 .. Cardinality(Procs) + 1
  /\ next \in [Procs \cup {Nil} -> Procs \cup {Nil}]
  /\ ticks.process \in Nat /\ ticks.update \in 0 .. ticks.process
  /\ \A i \in 1 .. Len(stack) : stack[i].proc \in Procs \cup {Nil}
  /\ \A p \in Procs : proc[p].mask => proc[p].open /\ proc[p].listed

(* However deletions, deaths and waits nest, the sentinel of a process runs     *)
(* once, unless status_notify was entered again from the filter it called for   *)
(* that process's last output.                                                  *)
ToldOnce == \A p \in Procs \ nested : told[p] <= 1

(* When the sentinel is called the filter has been given all the process wrote  *)
(* ("If process is still active, read any output that remains").                *)
OutputFirst ==
  [][\A p \in Procs \ nested' : told'[p] # told[p] => heard[p] = written[p]]_vars

(* The wait for the keyboard does not block in select while a change of status  *)
(* is unreported, wherever SIGCHLD came since the wait looked for changes, but  *)
(* for the redisplay just before select.                                        *)
NeverSleepsOnNews ==
  Waits("keyboard", "select") /\ ~Top.zapped /\ ~Top.missed => ~Changed

(* A process that died is reported to its sentinel.                             *)
Told == \A p \in Procs : child[p] \in {"exit", "signal"} ~> told[p] > 0
=============================================================================
