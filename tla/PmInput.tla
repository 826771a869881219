------------------------------- MODULE PmInput -------------------------------
(***************************************************************************)
(* How the Emacs process gets its events and answers from pmemacs, the     *)
(* Presentation Manager process at the other end of a pipe: pm_receive,    *)
(* the event queue and PM_read_socket of pmterm.c, BLOCK_INPUT and         *)
(* UNBLOCK_INPUT of blockinput.h, reinvoke_input_signal and                *)
(* read_avail_input of keyboard.c, the wait of wait_reading_process_input, *)
(* and the SIGINT by which pmemacs reports a C-g.                          *)
(*                                                                         *)
(* Emacs has one thread; `stack' holds its active procedures, innermost    *)
(* first, and is empty while Lisp runs.  UNBLOCK_INPUT may call            *)
(* reinvoke_input_signal, so every xmalloc and xfree is a place where the  *)
(* event code can be entered again.                                        *)
(***************************************************************************)
EXTENDS Integers, Sequences

CONSTANTS
  MaxKeys,    \* bound: keys typed
  MaxOthers,  \* bound: other events pmemacs sends
  MaxRpcs,    \* bound: requests with an answer
  MaxQuits    \* bound: C-g typed

VARIABLES
  pipe,     \* what pmemacs wrote to the pipe and Emacs has not read
  queue,    \* pm_queue_first: the events put aside by pm_receive
  kbd,      \* the number of events in kbd_buffer
  typed,    \* history: the keys stored in kbd_buffer, in order
  blocked,  \* interrupt_input_blocked
  pending,  \* interrupt_input_pending
  waiting,  \* waiting_for_input
  quit,     \* Vquit_flag
  stack,    \* the active procedures of the Emacs process
  serial,   \* pm_serial
  asked,    \* the request pmemacs has not answered, or 0
  keys, others, quits  \* events and C-g so far

input == <<pipe, queue, kbd, typed>>
flags == <<blocked, pending, waiting, quit>>
world == <<asked, keys, others, quits>>
vars == <<input, flags, stack, serial, world>>

(* "key" is an event that becomes input (PME_KEY, PME_BUTTON, ...), "paint"  *)
(* PME_PAINT, "stale" any event of a frame that pm_active_frame does not     *)
(* find, "answer" PME_ANSWER with its data.                                  *)
Message(kind, n) == [kind |-> kind, n |-> n]
NoMessage == Message("none", 0)

Frame(at, m, rest, paint) == [at |-> at, m |-> m, rest |-> rest, paint |-> paint]
Plain(at) == Frame(at, NoMessage, <<>>, FALSE)

Idle == stack = <<>>
Top == Head(stack)
Callers == Tail(stack)
Running(at) == ~Idle /\ Top.at = at

Init ==
  /\ pipe = <<>> /\ queue = <<>> /\ kbd = 0 /\ typed = <<>>
  /\ blocked = 0 /\ pending = FALSE /\ waiting = FALSE /\ quit = FALSE
  /\ stack = <<>> /\ serial = 0 /\ asked = 0
  /\ keys = 0 /\ others = 0 /\ quits = 0

-----------------------------------------------------------------------------
(* pmemacs: the PM thread sends events, the pipe thread answers requests.    *)

SendKey ==
  /\ keys < MaxKeys
  /\ keys' = keys + 1
  /\ pipe' = Append(pipe, Message("key", keys + 1))
  /\ UNCHANGED <<queue, kbd, typed, flags, stack, serial, asked, others, quits>>

SendOther(kind) ==
  /\ others < MaxOthers
  /\ others' = others + 1
  /\ pipe' = Append(pipe, Message(kind, 0))
  /\ UNCHANGED <<queue, kbd, typed, flags, stack, serial, asked, keys, quits>>

SendAnswer ==
  /\ asked # 0
  /\ asked' = 0
  /\ pipe' = Append(pipe, Message("answer", asked))
  /\ UNCHANGED <<queue, kbd, typed, flags, stack, serial, keys, others, quits>>

-----------------------------------------------------------------------------
(* UNBLOCK_INPUT that leaves the block count at `level', with `rest' to go   *)
(* on with afterwards.                                                       *)
AfterUnblock(level, rest) ==
  IF level = 0 /\ pending THEN <<Plain("reinvoke")>> \o rest ELSE rest

(* Variant: without BLOCK_INPUT. *)
CallRpcUnblocked(paint) ==
  /\ Idle
  /\ serial < MaxRpcs
  /\ serial' = serial + 1
  /\ asked' = serial + 1
  /\ stack' = <<Frame("receive", Message("answer", serial + 1), <<>>, paint)>>
  /\ UNCHANGED <<input, flags, keys, others, quits>>

(* Lisp calls a function such as pm-get-clipboard: BLOCK_INPUT, pm_send,     *)
(* pm_receive.  PAINT says whether it passes may_paint.                      *)
CallRpc(paint) ==
  /\ Idle
  /\ serial < MaxRpcs
  /\ serial' = serial + 1
  /\ asked' = serial + 1
  /\ blocked' = blocked + 1
  /\ stack' = <<Frame("receive", Message("answer", serial + 1), <<>>, paint)>>
  /\ UNCHANGED <<input, pending, waiting, quit, keys, others, quits>>

(* pm_receive: the answer it waits for, or, with another serial number, none *)
(* at all; either way it returns to its caller's UNBLOCK_INPUT.              *)
ReceiveAnswer ==
  /\ Running("receive")
  /\ pipe # <<>> /\ Head(pipe).kind = "answer"
  /\ pipe' = Tail(pipe)
  /\ blocked' = IF blocked > 0 THEN blocked - 1 ELSE 0
  /\ stack' = AfterUnblock(blocked', Callers)
  /\ UNCHANGED <<queue, kbd, typed, pending, waiting, quit, serial, world>>

ReceivePaint ==
  /\ Running("receive") /\ Top.paint
  /\ pipe # <<>> /\ Head(pipe).kind = "paint"
  /\ pipe' = Tail(pipe)
  /\ UNCHANGED <<queue, kbd, typed, flags, stack, serial, world>>

(* pm_put_queue: xmalloc ends with UNBLOCK_INPUT, then the event is linked.  *)
ReceiveOther ==
  /\ Running("receive")
  /\ pipe # <<>> /\ Head(pipe).kind # "answer"
  /\ ~(Top.paint /\ Head(pipe).kind = "paint")
  /\ pipe' = Tail(pipe)
  /\ stack' = AfterUnblock(blocked, <<Frame("link", Head(pipe), <<>>, FALSE)>> \o stack)
  /\ UNCHANGED <<queue, kbd, typed, flags, serial, world>>

Link ==
  /\ Running("link")
  /\ queue' = Append(queue, Top.m)
  /\ pending' = TRUE
  /\ stack' = Callers
  /\ UNCHANGED <<pipe, kbd, typed, blocked, waiting, quit, serial, world>>

-----------------------------------------------------------------------------
(* PM_read_socket, called by read_avail_input.                               *)

ReadBlocked ==
  /\ Running("read")
  /\ blocked > 0
  /\ pending' = TRUE
  /\ stack' = <<Plain("none")>> \o Callers
  /\ UNCHANGED <<input, blocked, waiting, quit, serial, world>>

(* pm_get_queue: copy the first event, free its cell, then unlink it.        *)
ReadQueue ==
  /\ Running("read")
  /\ blocked = 0 /\ queue # <<>>
  /\ pending' = FALSE
  /\ blocked' = blocked + 1
  /\ stack' = <<Frame("free", Head(queue), Tail(queue), FALSE)>> \o Callers
  /\ UNCHANGED <<input, waiting, quit, serial, world>>

Free ==
  /\ Running("free")
  /\ blocked' = blocked - 1
  /\ stack' = AfterUnblock(blocked', <<[Top EXCEPT !.at = "unlink"]>> \o Callers)
  /\ UNCHANGED <<input, pending, waiting, quit, serial, world>>

(* Variant: interrupt_input_pending is not set for the rest of the queue. *)
UnlinkForgetsRest ==
  /\ Running("unlink")
  /\ queue' = Top.rest
  /\ stack' = <<Frame("dispatch", Top.m, <<>>, FALSE)>> \o Callers
  /\ UNCHANGED <<pipe, kbd, typed, flags, serial, world>>

Unlink ==
  /\ Running("unlink")
  /\ queue' = Top.rest
  /\ pending' = (pending \/ Top.rest # <<>>)
  /\ stack' = <<Frame("dispatch", Top.m, <<>>, FALSE)>> \o Callers
  /\ UNCHANGED <<pipe, kbd, typed, blocked, waiting, quit, serial, world>>

(* Variant: the pipe is read although events wait in the queue. *)
ReadPipeFirst ==
  /\ Running("read")
  /\ blocked = 0 /\ pipe # <<>>
  /\ pending' = FALSE
  /\ pipe' = Tail(pipe)
  /\ stack' = <<Frame("dispatch", Head(pipe), <<>>, FALSE)>> \o Callers
  /\ UNCHANGED <<queue, kbd, typed, blocked, waiting, quit, serial, world>>

ReadPipe ==
  /\ Running("read")
  /\ blocked = 0 /\ queue = <<>> /\ pipe # <<>>
  /\ pending' = FALSE
  /\ pipe' = Tail(pipe)
  /\ stack' = <<Frame("dispatch", Head(pipe), <<>>, FALSE)>> \o Callers
  /\ UNCHANGED <<queue, kbd, typed, blocked, waiting, quit, serial, world>>

ReadNothing ==
  /\ Running("read")
  /\ blocked = 0 /\ queue = <<>> /\ pipe = <<>>
  /\ pending' = FALSE
  /\ stack' = <<Plain("none")>> \o Callers
  /\ UNCHANGED <<input, blocked, waiting, quit, serial, world>>

(* The event becomes input: count 1, and read_avail_input stores it. *)
DispatchKey ==
  /\ Running("dispatch") /\ Top.m.kind = "key"
  /\ typed' = Append(typed, Top.m.n)
  /\ kbd' = kbd + 1
  /\ stack' = <<Plain("some")>> \o Callers
  /\ UNCHANGED <<pipe, queue, flags, serial, world>>

(* The event is handled or dropped here: count 0.  Redrawing a frame, and    *)
(* discarding an answer, may allocate and so end with UNBLOCK_INPUT.         *)
DispatchOther ==
  /\ Running("dispatch") /\ Top.m.kind # "key"
  /\ \/ stack' = <<Plain("none")>> \o Callers
     \/ /\ Top.m.kind \in {"paint", "answer"}
        /\ stack' = AfterUnblock(blocked, <<Plain("none")>> \o Callers)
  /\ UNCHANGED <<input, flags, serial, world>>

-----------------------------------------------------------------------------
(* reinvoke_input_signal: read until a read yields no input.                 *)

Reinvoke ==
  /\ Running("reinvoke")
  /\ stack' = <<Plain("read")>> \o stack
  /\ UNCHANGED <<input, flags, serial, world>>

(* A read returns to the procedure that called it: the loop above goes on,   *)
(* and after "none" ends; the wait goes on with its next step.               *)
Return ==
  /\ ~Idle /\ Top.at \in {"some", "none"}
  /\ stack' =
       CASE Callers[1].at = "reinvoke" -> IF Top.at = "some" THEN Callers ELSE Tail(Callers)
         [] Callers[1].at = "check"    -> <<Plain("select")>> \o Tail(Callers)
         [] Callers[1].at = "ready"    -> <<Plain("decide")>> \o Tail(Callers)
  /\ UNCHANGED <<input, flags, serial, world>>

(* Lisp allocates: xmalloc ends with UNBLOCK_INPUT. *)
Allocate ==
  /\ Idle
  /\ blocked = 0 /\ pending
  /\ stack' = AfterUnblock(blocked, <<>>)
  /\ UNCHANGED <<input, flags, serial, world>>

-----------------------------------------------------------------------------
(* kbd_buffer_get_event and the wait for keyboard input it makes.            *)

TakeEvent ==
  /\ Idle
  /\ kbd > 0
  /\ kbd' = kbd - 1
  /\ UNCHANGED <<pipe, queue, typed, flags, stack, serial, world>>

(* set_waiting_for_input, then detect_input_pending. *)
StartWait ==
  /\ Idle
  /\ kbd = 0 /\ ~quit
  /\ waiting' = TRUE
  /\ stack' = <<Plain("check")>>
  /\ UNCHANGED <<input, blocked, pending, quit, serial, world>>

Detect(at) ==
  /\ Running(at)
  /\ kbd = 0 /\ ~quit
  /\ stack' = <<Plain("read")>> \o stack
  /\ UNCHANGED <<input, flags, serial, world>>

(* Variant: without clear_waiting_for_input. *)
SelectStillWaiting ==
  /\ Running("select")
  /\ kbd > 0 \/ pipe # <<>>
  /\ stack' = <<Plain("ready")>>
  /\ UNCHANGED <<input, flags, serial, world>>

(* select sleeps until the pipe is readable, unless input was detected;      *)
(* clear_waiting_for_input.                                                  *)
Select ==
  /\ Running("select")
  /\ kbd > 0 \/ pipe # <<>>
  /\ waiting' = FALSE
  /\ stack' = <<Plain("ready")>>
  /\ UNCHANGED <<input, blocked, pending, quit, serial, world>>

Decide ==
  /\ \/ Running("decide")
     \/ Running("ready") /\ (kbd > 0 \/ quit)
  /\ IF kbd > 0 \/ quit
     THEN stack' = <<>> /\ UNCHANGED waiting
     ELSE stack' = <<Plain("check")>> /\ waiting' = TRUE
  /\ UNCHANGED <<input, blocked, pending, quit, serial, world>>

-----------------------------------------------------------------------------
(* interrupt_signal: set quit-flag, or, while waiting, throw to read_char,   *)
(* whatever procedure is active; read_char clears quit-flag if quitting is   *)
(* inhibited.  A queue cell that was freed but not unlinked is read again:   *)
(* its contents may or may not have survived.                                *)
Interrupt ==
  /\ quits < MaxQuits
  /\ ~waiting
  /\ quits' = quits + 1
  /\ quit' = TRUE
  /\ UNCHANGED <<input, blocked, pending, waiting, stack, serial, asked, keys, others>>

InterruptWait ==
  /\ quits < MaxQuits
  /\ waiting
  /\ quits' = quits + 1
  /\ quit' \in BOOLEAN
  /\ waiting' = FALSE
  /\ stack' = <<>>
  /\ \/ UNCHANGED queue
     \/ /\ Running("free") \/ Running("unlink")
        /\ queue' = [queue EXCEPT ![1] = Message("stale", 0)]
  /\ UNCHANGED <<pipe, kbd, typed, blocked, pending, serial, asked, keys, others>>

(* QUIT: Fsignal does TOTALLY_UNBLOCK_INPUT and aborts the command. *)
SignalQuit ==
  /\ Idle
  /\ quit
  /\ quit' = FALSE
  /\ blocked' = 0
  /\ UNCHANGED <<input, pending, waiting, stack, serial, world>>

Emacs ==
  \/ \E p \in BOOLEAN : CallRpc(p)
  \/ ReceiveAnswer \/ ReceivePaint \/ ReceiveOther \/ Link
  \/ ReadBlocked \/ ReadQueue \/ Free \/ Unlink \/ ReadPipe \/ ReadNothing
  \/ DispatchKey \/ DispatchOther \/ Reinvoke \/ Return \/ Allocate
  \/ TakeEvent \/ StartWait \/ Detect("check") \/ Detect("ready")
  \/ Select \/ Decide \/ SignalQuit

Pmemacs == SendKey \/ SendOther("paint") \/ SendOther("stale") \/ SendAnswer

Next == Emacs \/ Pmemacs \/ Interrupt \/ InterruptWait

Spec == Init /\ [][Next]_vars

(* The Emacs process keeps running (it is one loop; only select and a read of *)
(* an empty pipe stop it), and the pipe thread answers every request it gets. *)
FairSpec == Spec /\ WF_vars(Emacs) /\ WF_vars(SendAnswer)

-----------------------------------------------------------------------------
(* What the active procedure holds in its hands, and all that was sent and   *)
(* is not stored yet, oldest first.                                          *)
InHand(at) == IF Running(at) THEN <<Top.m>> ELSE <<>>
Flow == InHand("dispatch") \o queue \o InHand("link") \o pipe
Keys(ms) == {i \in DOMAIN ms : ms[i].kind = "key"}

(* Every key typed is stored in kbd_buffer once and in the order of typing,  *)
(* whether pm_receive put it aside or not and however deeply UNBLOCK_INPUT   *)
(* re-enters the event code: the first keys are stored, and those in the     *)
(* hands of PM_read_socket, queued, being queued and still in the pipe are   *)
(* the others, in that order, as long as no C-g throws out of PM_read_socket. *)
NothingLost ==
  quits = 0 =>
    /\ typed = [k \in 1 .. Len(typed) |-> k]
    /\ {Flow[i].n : i \in Keys(Flow)} = Len(typed) + 1 .. keys
    /\ \A i, j \in Keys(Flow) : i < j => Flow[i].n < Flow[j].n

(* An answer is on its way exactly while pm_receive waits for that answer:   *)
(* neither PM_read_socket nor a C-g ever leaves pm_receive without its       *)
(* answer or an answer without its pm_receive.                               *)
Receives == {i \in DOMAIN stack : stack[i].at = "receive"}
Answers == {i \in DOMAIN pipe : pipe[i].kind = "answer"}
AnswerMatched ==
  /\ {stack[i].m.n : i \in Receives} = {pipe[i].n : i \in Answers} \cup ({asked} \ {0})
  /\ \A i, j \in Answers : i = j \/ pipe[i].n # pipe[j].n

(* interrupt_input_pending covers the queue: whenever Lisp runs or select    *)
(* sleeps, a queued event is announced, so the next UNBLOCK_INPUT reads it,  *)
(* as long as no C-g throws out of pm_get_queue.                             *)
PendingCoversQueue ==
  quits = 0 /\ (Idle \/ Running("select")) /\ queue # <<>> => pending

(* A function that asked pmemacs for something returns. *)
RpcReturns == Receives # {} ~> Receives = {}
=============================================================================
