---------------------------- MODULE PmInputProofs ----------------------------
(***************************************************************************)
(* Proofs about PmInput, for any number of keys, events, requests and C-g: *)
(* the answers on the way are those pm_receive waits for, and, as long as  *)
(* no C-g throws, no key is lost and a queued event is announced.  The     *)
(* argument is the shape of the stack of active procedures: however the    *)
(* event code is re-entered, only the innermost procedure holds an event,  *)
(* and nothing that reads the pipe runs above a pm_receive.                *)
(***************************************************************************)
EXTENDS PmInput, SequenceTheorems, TLAPS

Messages == [kind : {"none", "key", "paint", "stale", "answer"}, n : Nat]
Outermost == {"receive", "check", "ready", "select", "decide"}
Innermost == {"link", "read", "free", "unlink", "dispatch", "some", "select", "decide"}
Reads == {"read", "free", "unlink", "dispatch", "some", "none"}
Procedures == Outermost \cup Innermost \cup Reads \cup {"reinvoke"}
Procedure == [at : Procedures, m : Messages, rest : Seq(Messages), paint : BOOLEAN]

TypeOK ==
  /\ pipe \in Seq(Messages) /\ queue \in Seq(Messages) /\ kbd \in Nat /\ typed \in Seq(Nat)
  /\ blocked \in Nat /\ pending \in BOOLEAN /\ waiting \in BOOLEAN /\ quit \in BOOLEAN
  /\ stack \in Seq(Procedure) /\ serial \in Nat /\ asked \in Nat
  /\ keys \in Nat /\ others \in Nat /\ quits \in Nat

(* Whether a procedure AT can have been called by the procedures S: every    *)
(* read by reinvoke_input_signal or the wait for input, pm_put_queue by      *)
(* pm_receive, reinvoke_input_signal by Lisp or by a read that is done with  *)
(* its event.                                                                *)
Fits(at, s) ==
  /\ at \in Outermost => s = <<>>
  /\ at = "link" => Len(s) = 1 /\ s[1].at = "receive"
  /\ at \in Reads => s # <<>> /\ s[1].at \in {"reinvoke", "check", "ready"}
  /\ at = "reinvoke" => s = <<>> \/ s[1].at = "none"
Placed(s, i) ==
  /\ s[i].at \in Outermost => i = Len(s)
  /\ s[i].at = "link" => i = 1 /\ Len(s) = 2 /\ s[2].at = "receive"
  /\ s[i].at \in Innermost => i = 1
  /\ s[i].at \in Reads => i < Len(s) /\ s[i + 1].at \in {"reinvoke", "check", "ready"}
  /\ s[i].at = "reinvoke" => i = Len(s) \/ s[i + 1].at = "none"
Shape(s) == \A i \in 1 .. Len(s) : Placed(s, i)

(* BLOCK_INPUT is in force while an answer is awaited or a cell is freed,    *)
(* and C-g throws only out of the wait for the keyboard.                     *)
Waits(s) == Len(s) > 0 /\ s[Len(s)].at \in {"check", "select"}
Receiving(s) == Len(s) > 0 /\ s[Len(s)].at = "receive"
Blocking ==
  /\ Receiving(stack) \/ Running("free") => blocked > 0
  /\ Running("free") => ~pending
  /\ waiting => Waits(stack)

(* The event in the hands of pm_get_queue is still the first of the queue. *)
CellHeld ==
  Running("free") \/ Running("unlink") =>
    queue # <<>> /\ Top.m = Head(queue) /\ Top.rest = Tail(queue)

(* One answer is under way while pm_receive waits, else none. *)
OneAnswer ==
  IF Receiving(stack)
  THEN /\ stack[Len(stack)].m.n # 0
       /\ \/ asked = stack[Len(stack)].m.n /\ Answers = {}
          \/ asked = 0 /\ \E j \in 1 .. Len(pipe) : /\ Answers = {j}
                                                    /\ pipe[j].n = stack[Len(stack)].m.n
  ELSE asked = 0 /\ Answers = {}

Inv == TypeOK /\ Shape(stack) /\ Blocking /\ CellHeld /\ OneAnswer

(* A queued event is announced, except between the copying of the first one  *)
(* and its unlinking.                                                        *)
Announced ==
  /\ quits = 0 => ~quit
  /\ quits = 0 /\ queue # <<>> /\ ~pending => Running("free") \/ Running("unlink")

-----------------------------------------------------------------------------
(* A procedure that fits is called: it is the innermost one, the others stay. *)
LEMMA Called ==
  ASSUME NEW s \in Seq(Procedure), Shape(s), NEW p \in Procedure, Fits(p.at, s),
         s # <<>> => s[1].at \notin Innermost
  PROVE  /\ <<p>> \o s \in Seq(Procedure) /\ <<p>> \o s # <<>> /\ Shape(<<p>> \o s)
         /\ Head(<<p>> \o s) = p /\ Tail(<<p>> \o s) = s
         /\ Len(<<p>> \o s) = Len(s) + 1
         /\ (<<p>> \o s)[Len(<<p>> \o s)] = IF s = <<>> THEN p ELSE s[Len(s)]
<1> DEFINE t == <<p>> \o s
<1>1. t \in Seq(Procedure) /\ Len(t) = Len(s) + 1 /\ t[1] = p
      /\ \A i \in 1 .. Len(s) : t[i + 1] = s[i]
  OBVIOUS
<1>2. \A i \in 2 .. Len(t) : t[i] = s[i - 1] /\ i - 1 \in 1 .. Len(s)
  BY <1>1
<1>3. Head(t) = p /\ Tail(t) = s /\ t # <<>>
  OBVIOUS
<1>4. t[Len(t)] = IF s = <<>> THEN p ELSE s[Len(s)]
  BY <1>1
<1> HIDE DEF t
<1>5. \A x \in Outermost \cup Innermost \cup Reads \cup {"reinvoke"} :
        x = p.at => /\ x \in Outermost => 1 = Len(t)
                    /\ x = "link" => Len(t) = 2 /\ t[2].at = "receive"
                    /\ x \in Reads => 1 < Len(t) /\ t[2].at \in {"reinvoke", "check", "ready"}
                    /\ x = "reinvoke" => 1 = Len(t) \/ t[2].at = "none"
  BY <1>1 DEF Fits
<1>6. Shape(t)
  <2> SUFFICES ASSUME NEW i \in 1 .. Len(t)
               PROVE  Placed(t, i)
    BY DEF Shape
  <2>1. CASE i = 1
    BY <2>1, <1>1, <1>5 DEF Procedure, Procedures, Placed
  <2>2. CASE i # 1
    <3>1. i - 1 \in 1 .. Len(s) /\ t[i] = s[i - 1] /\ i - 1 \in Nat
      BY <2>2, <1>2
    <3>2. s[i - 1].at \notin Innermost
      <4>1. CASE i = 2
        BY <4>1, <3>1
      <4>2. CASE i # 2
        BY <4>2, <3>1 DEF Shape, Placed
      <4>3. QED BY <4>1, <4>2
    <3>3. i < Len(t) => i \in 1 .. Len(s) /\ t[i + 1] = s[i]
      BY <1>1
    <3>4. QED BY <3>1, <3>2, <3>3, <1>1 DEF Shape, Placed, Innermost
  <2>3. QED BY <2>1, <2>2
<1>7. QED BY <1>1, <1>3, <1>4, <1>6 DEF t

(* The innermost procedure returns. *)
LEMMA Returned ==
  ASSUME NEW s \in Seq(Procedure), Shape(s), s # <<>>
  PROVE  /\ Tail(s) \in Seq(Procedure) /\ Shape(Tail(s)) /\ Head(s) = s[1] /\ s[1] \in Procedure
         /\ Len(Tail(s)) = Len(s) - 1
         /\ Tail(s) # <<>> => /\ Tail(s)[1].at \notin Innermost /\ Tail(s)[1] \in Procedure
                              /\ Tail(s)[Len(Tail(s))] = s[Len(s)]
         /\ Fits(s[1].at, Tail(s))
<1> DEFINE t == Tail(s)
<1>1. t \in Seq(Procedure) /\ Len(t) = Len(s) - 1 /\ \A i \in 1 .. Len(t) : t[i] = s[i + 1]
  OBVIOUS
<1>2. s[1] \in Procedure /\ Head(s) = s[1] /\ Len(s) \in Nat /\ Len(s) > 0
  OBVIOUS
<1> HIDE DEF t
<1>3. ASSUME NEW i \in 1 .. Len(t)
      PROVE  /\ i + 1 \in 1 .. Len(s) /\ t[i] = s[i + 1] /\ s[i + 1].at \notin Innermost
             /\ i < Len(t) => t[i + 1] = s[i + 1 + 1]
  BY <1>1, <1>2 DEF Shape, Placed
<1>4. Shape(t)
  <2> SUFFICES ASSUME NEW i \in 1 .. Len(t)
               PROVE  Placed(t, i)
    BY DEF Shape
  <2>1. i + 1 \in 1 .. Len(s) /\ t[i] = s[i + 1] /\ s[i + 1].at \notin Innermost
        /\ (i < Len(t) => t[i + 1] = s[i + 1 + 1])
    BY <1>3
  <2>2. QED BY <2>1, <1>1, <1>2 DEF Shape, Placed, Innermost
<1>5. t # <<>> => t[1].at \notin Innermost /\ t[1] \in Procedure /\ t[Len(t)] = s[Len(s)] /\ t[1] = s[2]
  BY <1>1, <1>2, <1>3
<1>6. Fits(s[1].at, t)
  BY <1>1, <1>2, <1>5 DEF Shape, Placed, Fits
<1>7. QED BY <1>1, <1>2, <1>4, <1>5, <1>6 DEF t

(* The innermost procedure, and what it can call or become. *)
LEMMA Innermosts ==
  ASSUME TypeOK, Shape(stack), ~Idle
  PROVE  /\ Top = stack[1] /\ Top \in Procedure /\ Len(stack) \in Nat /\ Len(stack) > 0
         /\ Callers \in Seq(Procedure) /\ Shape(Callers) /\ Fits(Top.at, Callers)
         /\ Len(Callers) = Len(stack) - 1
         /\ Callers = <<>> => stack[Len(stack)] = Top
         /\ Callers # <<>> => /\ Callers[1].at \notin Innermost /\ Callers[1] \in Procedure
                              /\ Callers[Len(Callers)] = stack[Len(stack)]
<1>1. stack \in Seq(Procedure) /\ stack # <<>>
  BY DEF TypeOK, Idle
<1>2. Len(stack) \in Nat /\ Len(stack) > 0 /\ Len(Callers) = Len(stack) - 1
  BY <1>1 DEF Callers
<1>3. Callers = <<>> => Len(stack) = 1
  BY <1>2
<1>4. QED BY <1>1, <1>2, <1>3, Returned DEF Top, Callers

(* P is the innermost procedure now. *)
Entered(p) ==
  /\ stack' \in Seq(Procedure) /\ stack' # <<>> /\ Shape(stack') /\ Head(stack') = p
(* The outermost procedure is the one it was. *)
SameBottom ==
  /\ Len(stack) > 0 /\ Len(stack') > 0
  /\ stack'[Len(stack')].at = stack[Len(stack)].at /\ stack'[Len(stack')].m = stack[Len(stack)].m

(* The innermost procedure calls P. *)
LEMMA Calls ==
  ASSUME TypeOK, Shape(stack), NEW p \in Procedure, Fits(p.at, stack),
         ~Idle => Top.at \notin Innermost, stack' = <<p>> \o stack
  PROVE  /\ Entered(p)
         /\ ~Idle => SameBottom
         /\ Idle => stack'[Len(stack')] = p
<1>1. Idle \/ stack[1] = Top
  BY DEF TypeOK, Idle, Top
<1>2. stack \in Seq(Procedure)
  BY DEF TypeOK
<1>3. QED BY <1>1, <1>2, Called DEF Idle, Entered, SameBottom

(* The innermost procedure goes on as P. *)
LEMMA Becomes ==
  ASSUME TypeOK, Shape(stack), ~Idle, NEW p \in Procedure, Fits(p.at, Callers),
         stack' = <<p>> \o Callers
  PROVE  /\ Entered(p)
         /\ Callers # <<>> => SameBottom
         /\ Callers = <<>> => stack'[Len(stack')] = p
BY Innermosts, Called DEF Entered, SameBottom

(* The procedures of a kind that hold no event. *)
LEMMA Plainly ==
  ASSUME NEW at \in Procedures
  PROVE  Plain(at) \in Procedure /\ Plain(at).at = at
BY DEF Plain, Frame, Procedure, NoMessage, Message, Messages

(* The procedures that hold an event. *)
LEMMA Framed ==
  ASSUME NEW at \in Procedures, NEW m \in Messages, NEW rest \in Seq(Messages), NEW paint \in BOOLEAN
  PROVE  /\ Frame(at, m, rest, paint) \in Procedure /\ Frame(at, m, rest, paint).at = at
         /\ Frame(at, m, rest, paint).m = m /\ Frame(at, m, rest, paint).rest = rest
BY DEF Frame, Procedure

(* The innermost procedure returns to its caller. *)
LEMMA Returns ==
  ASSUME TypeOK, Shape(stack), ~Idle, stack' = Callers
  PROVE  /\ stack' \in Seq(Procedure) /\ Shape(stack')
         /\ stack' # <<>> => /\ SameBottom /\ Head(stack') = Callers[1]
                             /\ Head(stack').at \notin Innermost
BY Innermosts DEF SameBottom

(* UNBLOCK_INPUT may call reinvoke_input_signal. *)
LEMMA Unblocks ==
  ASSUME NEW level, NEW s \in Seq(Procedure), Shape(s), s = <<>> \/ s[1].at = "none",
         stack' = AfterUnblock(level, s)
  PROVE  /\ stack' \in Seq(Procedure) /\ Shape(stack')
         /\ stack' = s \/ Entered(Plain("reinvoke"))
         /\ s # <<>> => Len(stack') > 0 /\ stack'[Len(stack')] = s[Len(s)]
         /\ s = <<>> /\ stack' # <<>> => stack'[Len(stack')] = Plain("reinvoke")
<1>1. Plain("reinvoke") \in Procedure /\ Plain("reinvoke").at = "reinvoke"
  BY Plainly DEF Procedures
<1>2. Fits("reinvoke", s) /\ (s # <<>> => s[1].at \notin Innermost)
  BY DEF Fits, Outermost, Reads, Innermost
<1>3. CASE stack' = s
  BY <1>3
<1>4. CASE stack' = <<Plain("reinvoke")>> \o s
  BY <1>1, <1>2, <1>4, Called DEF Entered
<1>5. QED BY <1>3, <1>4 DEF AfterUnblock

-----------------------------------------------------------------------------
(* The answers in the pipe, when a message is added or taken. *)
LEMMA MessageAdded ==
  ASSUME TypeOK, NEW m \in Messages, pipe' = Append(pipe, m)
  PROVE  /\ pipe' \in Seq(Messages) /\ Len(pipe') = Len(pipe) + 1 /\ Len(pipe) \in Nat
         /\ \A i \in 1 .. Len(pipe) : pipe'[i] = pipe[i]
         /\ pipe'[Len(pipe) + 1] = m
         /\ Answers' = Answers \cup {i \in {Len(pipe) + 1} : m.kind = "answer"}
<1>1. pipe \in Seq(Messages)
  BY DEF TypeOK
<1>2. /\ pipe' \in Seq(Messages) /\ Len(pipe') = Len(pipe) + 1 /\ Len(pipe) \in Nat
      /\ \A i \in 1 .. Len(pipe) : pipe'[i] = pipe[i]
      /\ pipe'[Len(pipe) + 1] = m
  BY <1>1
<1>3. DOMAIN pipe = 1 .. Len(pipe) /\ DOMAIN pipe' = 1 .. Len(pipe')
  BY <1>1, <1>2
<1>4. QED BY <1>2, <1>3 DEF Answers

(* The first message is read from the pipe. *)
LEMMA MessageTaken ==
  ASSUME TypeOK, pipe # <<>>, pipe' = Tail(pipe)
  PROVE  /\ pipe' \in Seq(Messages) /\ Len(pipe) = Len(pipe') + 1 /\ Len(pipe') \in Nat
         /\ Head(pipe) = pipe[1] /\ Head(pipe) \in Messages
         /\ \A i \in 1 .. Len(pipe') : pipe'[i] = pipe[i + 1]
         /\ Answers' = {i \in 1 .. Len(pipe') : i + 1 \in Answers}
         /\ 1 \in Answers <=> Head(pipe).kind = "answer"
<1>1. pipe \in Seq(Messages)
  BY DEF TypeOK
<1>2. /\ pipe' \in Seq(Messages) /\ Len(pipe) = Len(pipe') + 1 /\ Len(pipe') \in Nat
      /\ Head(pipe) = pipe[1] /\ Head(pipe) \in Messages
      /\ \A i \in 1 .. Len(pipe') : pipe'[i] = pipe[i + 1]
  BY <1>1
<1>3. DOMAIN pipe = 1 .. Len(pipe) /\ DOMAIN pipe' = 1 .. Len(pipe')
  BY <1>1, <1>2
<1>4. QED BY <1>2, <1>3 DEF Answers

(* While the pipe, the request and the outermost procedure stay, so do the   *)
(* answers; nor do they change when a message that is none is taken.         *)
LEMMA AnswersStay ==
  ASSUME OneAnswer, asked' = asked, Answers' = Answers,
         \A j \in Answers : j \in 1 .. Len(pipe) /\ j \in 1 .. Len(pipe') /\ pipe'[j] = pipe[j],
         SameBottom \/ UNCHANGED stack \/ (~Receiving(stack) /\ ~Receiving(stack'))
  PROVE  OneAnswer'
BY DEF OneAnswer, Receiving, SameBottom

(* A message that is no answer is read. *)
LEMMA OtherTaken ==
  ASSUME TypeOK, OneAnswer, asked' = asked, pipe # <<>>, pipe' = Tail(pipe), Head(pipe).kind # "answer",
         SameBottom \/ UNCHANGED stack \/ (~Receiving(stack) /\ ~Receiving(stack'))
  PROVE  OneAnswer'
<1>1. ASSUME NEW j \in 1 .. Len(pipe), Answers = {j}
      PROVE  j - 1 \in 1 .. Len(pipe') /\ Answers' = {j - 1} /\ pipe'[j - 1] = pipe[j]
  BY <1>1, MessageTaken
<1>2. Answers = {} => Answers' = {}
  BY MessageTaken
<1>3. QED BY <1>1, <1>2 DEF OneAnswer, Receiving, SameBottom

-----------------------------------------------------------------------------
(* Every step keeps the invariant; one lemma per procedure. *)

(* Whoever waits for input or an answer is the outermost procedure. *)
LEMMA Bottoms ==
  ASSUME TypeOK, Shape(stack)
  PROVE  /\ Idle => ~Receiving(stack) /\ ~Waits(stack)
         /\ Receiving(stack) => Running("receive") \/ Running("link")
         /\ Running("receive") => Receiving(stack) /\ stack[Len(stack)] = Top /\ Callers = <<>>
         /\ Running("link") => Receiving(stack)
         /\ ~Idle /\ Top.at \in {"check", "ready", "select", "decide"} =>
              stack[Len(stack)] = Top /\ Callers = <<>> /\ ~Receiving(stack)
         /\ ~Idle /\ Top.at \in Reads \cup {"reinvoke"} => ~Receiving(stack)
<1>1. stack \in Seq(Procedure)
  BY DEF TypeOK
<1>2. Idle => ~Receiving(stack) /\ ~Waits(stack)
  BY DEF Idle, Receiving, Waits
<1>3. CASE ~Idle
  <2>1. Top = stack[1] /\ Len(stack) \in Nat /\ Len(stack) > 0 /\ Len(Callers) = Len(stack) - 1
        /\ Callers \in Seq(Procedure)
    BY <1>3, Innermosts
  <2>2. Placed(stack, 1) /\ Placed(stack, Len(stack))
    BY <2>1 DEF Shape
  <2>3. Receiving(stack) => Top.at \in {"receive", "link"}
    <3> SUFFICES ASSUME Receiving(stack) PROVE Top.at \in {"receive", "link"}
      OBVIOUS
    <3>1. CASE Len(stack) = 1
      BY <3>1, <2>1 DEF Receiving
    <3>2. CASE Len(stack) > 1
      <4>1. PICK k \in 1 .. Len(stack) : k + 1 = Len(stack)
        BY <3>2, <2>1
      <4>2. Placed(stack, k) /\ stack[k].at \in Procedures /\ k # Len(stack)
        <5>1. Placed(stack, k)
          BY DEF Shape
        <5>2. stack[k] \in Procedure
          BY <1>1
        <5>3. k # Len(stack)
          BY <4>1, <2>1
        <5>4. QED BY <5>1, <5>2, <5>3 DEF Procedure
      <4>3. stack[k + 1].at = "receive"
        BY <4>1 DEF Receiving
      <4>4. stack[k].at \notin Outermost /\ stack[k].at \notin Reads /\ stack[k].at # "reinvoke"
        BY <4>2, <4>3 DEF Placed
      <4>5. stack[k].at \in Innermost /\ k = 1
        BY <4>2, <4>4 DEF Placed, Procedures
      <4>6. stack[k].at = "link"
        BY <4>4, <4>5 DEF Outermost, Innermost, Reads
      <4>7. QED BY <4>5, <4>6, <2>1
    <3>3. QED BY <3>1, <3>2, <2>1
  <2>4. Top.at \in Outermost => Callers = <<>> /\ Len(stack) = 1
    BY <2>1, <2>2 DEF Placed
  <2>5. QED BY <1>3, <2>1, <2>2, <2>3, <2>4
        DEF Running, Receiving, Placed, Outermost, Reads, Idle
<1>4. QED BY <1>2, <1>3 DEF Running

(* pmemacs sends an event or answers a request. *)
LEMMA SendStep ==
  ASSUME Inv, SendKey \/ SendOther("paint") \/ SendOther("stale") \/ SendAnswer
  PROVE  Inv'
<1> USE DEF Inv
<1>1. ASSUME NEW m \in Messages, pipe' = Append(pipe, m), UNCHANGED <<queue, flags, stack>>, TypeOK'
      PROVE  (Shape(stack) /\ Blocking /\ CellHeld)'
  BY <1>1 DEF Blocking, CellHeld, Running, Idle, Top, flags
<1>2. ASSUME NEW m \in Messages, m.kind # "answer", pipe' = Append(pipe, m), UNCHANGED <<stack, asked>>
      PROVE  OneAnswer'
  <2>1. Answers' = Answers
    BY <1>2, MessageAdded
  <2>2. \A j \in Answers : j \in 1 .. Len(pipe) /\ j \in 1 .. Len(pipe') /\ pipe'[j] = pipe[j]
    BY <1>2, MessageAdded DEF Answers, TypeOK
  <2>3. QED BY <1>2, <2>1, <2>2, AnswersStay
<1>3. ASSUME SendKey PROVE Inv'
  <2>1. Message("key", keys + 1) \in Messages /\ Message("key", keys + 1).kind # "answer"
    BY DEF Message, Messages, TypeOK
  <2>2. TypeOK'
    BY <1>3, <2>1, MessageAdded DEF SendKey, TypeOK, flags
  <2>3. QED BY <1>1, <1>2, <1>3, <2>1, <2>2 DEF SendKey
<1>4. ASSUME NEW kind \in {"paint", "stale"}, SendOther(kind) PROVE Inv'
  <2>1. Message(kind, 0) \in Messages /\ Message(kind, 0).kind # "answer"
    BY DEF Message, Messages
  <2>2. TypeOK'
    BY <1>4, <2>1, MessageAdded DEF SendOther, TypeOK, flags
  <2>3. QED BY <1>1, <1>2, <1>4, <2>1, <2>2 DEF SendOther
<1>5. ASSUME SendAnswer PROVE Inv'
  <2>1. Message("answer", asked) \in Messages /\ Message("answer", asked).kind = "answer"
        /\ Message("answer", asked).n = asked
    BY DEF Message, Messages, TypeOK
  <2>2. TypeOK'
    BY <1>5, <2>1, MessageAdded DEF SendAnswer, TypeOK, flags
  <2>3. Receiving(stack) /\ Answers = {} /\ asked = stack[Len(stack)].m.n
    BY <1>5 DEF SendAnswer, OneAnswer
  <2>4. Answers' = {Len(pipe) + 1} /\ Len(pipe) + 1 \in 1 .. Len(pipe') /\ pipe'[Len(pipe) + 1].n = asked
    BY <1>5, <2>1, <2>3, MessageAdded DEF SendAnswer
  <2>5. OneAnswer'
    BY <1>5, <2>3, <2>4 DEF SendAnswer, OneAnswer, Receiving
  <2>6. QED BY <1>1, <1>5, <2>1, <2>2, <2>5 DEF SendAnswer
<1>6. QED BY <1>3, <1>4, <1>5

(* What P does next depends on P alone. *)
LEMMA EnteredRuns ==
  ASSUME NEW p, Entered(p)
  PROVE  /\ stack' \in Seq(Procedure) /\ Shape(stack)' /\ ~Idle' /\ Top' = p
         /\ \A at : Running(at)' <=> p.at = at
BY DEF Entered, Idle, Top, Running

(* Lisp asks pmemacs for something. *)
LEMMA CallRpcStep ==
  ASSUME Inv, NEW paint \in BOOLEAN, CallRpc(paint)
  PROVE  Inv'
<1> USE DEF Inv
<1> DEFINE p == Frame("receive", Message("answer", serial + 1), <<>>, paint)
<1>1. Message("answer", serial + 1) \in Messages /\ Message("answer", serial + 1).n = serial + 1
  BY DEF Message, Messages, TypeOK
<1>2. p \in Procedure /\ p.at = "receive" /\ p.m.n = serial + 1
  <2>1. "receive" \in Procedures /\ <<>> \in Seq(Messages)
    BY DEF Procedures, Outermost
  <2>2. p \in Procedure /\ p.at = "receive" /\ p.m = Message("answer", serial + 1)
    BY <1>1, <2>1, Zenon DEF Frame, Procedure
  <2>3. QED BY <1>1, <2>2
<1> HIDE DEF p
<1>3. Idle /\ stack' = <<p>> \o stack
  BY DEF CallRpc, Idle, p, TypeOK
<1>4. Fits(p.at, stack)
  BY <1>2, <1>3 DEF Fits, Idle, Reads
<1>5. Entered(p) /\ stack'[Len(stack')] = p
  BY <1>2, <1>3, <1>4, Calls
<1>6. Receiving(stack') /\ Running("receive")' /\ ~Running("free")' /\ ~Running("unlink")'
  BY <1>2, <1>5, EnteredRuns DEF Receiving, Entered
<1>7. TypeOK'
  BY <1>5, EnteredRuns DEF CallRpc, TypeOK, input, flags
<1>8. Blocking'
  BY <1>3, <1>6, Bottoms DEF CallRpc, Blocking, TypeOK
<1>9. OneAnswer'
  <2>1. Answers' = Answers /\ Answers = {}
    BY <1>3, Bottoms DEF CallRpc, OneAnswer, Answers, input
  <2>2. asked' = stack'[Len(stack')].m.n /\ asked' # 0
    BY <1>2, <1>5 DEF CallRpc, TypeOK
  <2>3. QED BY <1>6, <2>1, <2>2 DEF OneAnswer, Receiving
<1>10. QED BY <1>5, <1>6, <1>7, <1>8, <1>9, EnteredRuns DEF CellHeld

(* pm_receive reads its answer and returns. *)
LEMMA ReceiveAnswerStep ==
  ASSUME Inv, ReceiveAnswer
  PROVE  Inv'
<1> USE DEF Inv
<1>1. Running("receive") /\ Receiving(stack) /\ Callers = <<>> /\ stack[Len(stack)] = Top
  BY Bottoms DEF ReceiveAnswer
<1>2. <<>> \in Seq(Procedure) /\ Shape(<<>>)
  BY DEF Shape
<1>3. stack' = AfterUnblock(blocked', <<>>)
  BY <1>1 DEF ReceiveAnswer
<1>4. /\ stack' \in Seq(Procedure) /\ Shape(stack')
      /\ stack' = <<>> \/ Entered(Plain("reinvoke"))
      /\ stack' # <<>> => stack'[Len(stack')] = Plain("reinvoke")
  BY <1>2, <1>3, Unblocks
<1>5. Plain("reinvoke").at = "reinvoke"
  BY Plainly DEF Procedures
<1>6. ~Receiving(stack') /\ ~Running("free")' /\ ~Running("unlink")'
  BY <1>4, <1>5, EnteredRuns DEF Receiving, Running, Idle
<1>7. TypeOK'
  BY <1>4, MessageTaken DEF ReceiveAnswer, TypeOK, world
<1>8. ~waiting'
  BY <1>1 DEF Blocking, ReceiveAnswer, Waits, Running
<1>9. OneAnswer'
  <2>1. 1 \in Answers
    BY DEF ReceiveAnswer, Answers, TypeOK
  <2>2. asked = 0 /\ Answers = {1}
    BY <1>1, <2>1 DEF OneAnswer
  <2>3. Answers' = {}
    BY <2>2, MessageTaken DEF ReceiveAnswer
  <2>4. QED BY <1>6, <2>2, <2>3 DEF OneAnswer, ReceiveAnswer, world
<1>10. QED BY <1>4, <1>6, <1>7, <1>8, <1>9 DEF Blocking, CellHeld

(* pm_receive redraws, or puts an event aside. *)
LEMMA ReceiveOtherStep ==
  ASSUME Inv, ReceivePaint \/ ReceiveOther
  PROVE  Inv'
<1> USE DEF Inv
<1>1. Running("receive") /\ Receiving(stack) /\ Callers = <<>> /\ stack[Len(stack)] = Top /\ ~Idle
      /\ Top.at = "receive"
  BY Bottoms DEF ReceivePaint, ReceiveOther, Running
<1>2. pipe # <<>> /\ Head(pipe).kind # "answer" /\ pipe' = Tail(pipe) /\ asked' = asked
  BY DEF ReceivePaint, ReceiveOther, world
<1>3. blocked > 0 /\ ~waiting
  BY <1>1 DEF Blocking, Waits
<1>4. CASE ReceivePaint
  <2>1. stack' = stack /\ UNCHANGED <<queue, kbd, typed, flags, serial, world>>
    BY <1>4 DEF ReceivePaint
  <2>2. TypeOK'
    BY <1>2, <2>1, MessageTaken DEF TypeOK, flags, world
  <2>3. OneAnswer'
    BY <1>2, <2>1, OtherTaken
  <2>4. Blocking' /\ CellHeld'
    BY <2>1 DEF Blocking, CellHeld, Running, Idle, Top, flags
  <2>5. QED BY <2>1, <2>2, <2>3, <2>4
<1>5. CASE ReceiveOther
  <2> DEFINE p == Frame("link", Head(pipe), <<>>, FALSE)
  <2>1. p \in Procedure /\ p.at = "link"
    <3>1. "link" \in Procedures /\ <<>> \in Seq(Messages) /\ Head(pipe) \in Messages
      BY <1>2, MessageTaken DEF Procedures, Innermost
    <3>2. QED BY <3>1, Framed
  <2>2. stack' = <<p>> \o stack
    BY <1>3, <1>5 DEF ReceiveOther, AfterUnblock
  <2> HIDE DEF p
  <2>3. Fits("link", stack)
    BY <1>1, Innermosts DEF Fits, Outermost, Reads
  <2>4. Entered(p) /\ SameBottom
    BY <1>1, <2>1, <2>2, <2>3, Calls DEF Innermost
  <2>5. ~Running("free")' /\ ~Running("unlink")'
    BY <2>1, <2>4, EnteredRuns
  <2>6. TypeOK'
    BY <1>2, <1>5, <2>4, EnteredRuns, MessageTaken DEF ReceiveOther, TypeOK, flags, world
  <2>7. OneAnswer'
    BY <1>2, <2>4, OtherTaken
  <2>8. Blocking'
    BY <1>3, <1>5, <2>5 DEF Blocking, ReceiveOther, flags
  <2>9. QED BY <2>4, <2>5, <2>6, <2>7, <2>8, EnteredRuns DEF CellHeld
<1>6. QED BY <1>4, <1>5

(* pm_put_queue links the event. *)
LEMMA LinkStep ==
  ASSUME Inv, Link
  PROVE  Inv'
<1> USE DEF Inv
<1>1. Running("link") /\ Receiving(stack) /\ ~Idle /\ Top.at = "link" /\ stack' = Callers
  BY Bottoms DEF Link, Running
<1>2. Len(Callers) = 1 /\ Callers[1].at = "receive" /\ Top \in Procedure
  BY <1>1, Innermosts DEF Fits
<1>3. stack' \in Seq(Procedure) /\ Shape(stack') /\ SameBottom /\ stack' # <<>> /\ Head(stack').at = "receive"
  <2>1. Callers # <<>>
    BY <1>2
  <2>2. QED BY <1>1, <1>2, <2>1, Returns
<1>4. ~Running("free")' /\ ~Running("unlink")'
  BY <1>3 DEF Running, Top
<1>5. TypeOK'
  BY <1>2, <1>3 DEF Link, TypeOK, Procedure, world
<1>6. Blocking'
  <2>1. blocked > 0 /\ ~waiting
    BY <1>1 DEF Blocking, Waits, Receiving
  <2>2. QED BY <1>4, <2>1 DEF Link, Blocking
<1>7. Answers' = Answers /\ \A j \in Answers : j \in 1 .. Len(pipe) /\ j \in 1 .. Len(pipe') /\ pipe'[j] = pipe[j]
  BY DEF Link, Answers, TypeOK
<1>8. OneAnswer'
  BY <1>3, <1>7, AnswersStay DEF Link, world
<1>9. QED BY <1>3, <1>4, <1>5, <1>6, <1>8 DEF CellHeld

(* A read: the innermost procedure P reads for one that does not wait for an *)
(* answer, and goes on as another, Q.                                        *)
LEMMA ReadsOn ==
  ASSUME Inv, ~Idle, Top.at \in Reads, NEW q \in Procedure, q.at \in Reads, stack' = <<q>> \o Callers
  PROVE  /\ Entered(q) /\ SameBottom /\ ~Receiving(stack) /\ ~Receiving(stack')
         /\ waiting => Waits(stack) /\ Waits(stack')
<1> USE DEF Inv
<1>1. Fits(q.at, Callers) /\ Callers # <<>>
  BY Innermosts DEF Fits, Outermost, Reads
<1>2. Entered(q) /\ SameBottom
  BY <1>1, Becomes
<1>3. ~Receiving(stack)
  BY Bottoms
<1>4. QED BY <1>2, <1>3 DEF SameBottom, Receiving, Waits, Blocking

(* The reads that hold no event. *)
LEMMA PlainRead ==
  ASSUME NEW at \in Reads
  PROVE  Plain(at) \in Procedure /\ Plain(at).at = at
BY Plainly DEF Procedures

(* pm_get_queue copies the first event. *)
LEMMA ReadQueueStep ==
  ASSUME Inv, ReadQueue
  PROVE  Inv'
<1> USE DEF Inv
<1> DEFINE q == Frame("free", Head(queue), Tail(queue), FALSE)
<1>1. ~Idle /\ Top.at = "read" /\ Top.at \in Reads
  BY DEF ReadQueue, Running, Reads
<1>2. q \in Procedure /\ q.at = "free" /\ q.m = Head(queue) /\ q.rest = Tail(queue)
  <2>1. Head(queue) \in Messages /\ Tail(queue) \in Seq(Messages) /\ "free" \in Procedures
    BY DEF ReadQueue, TypeOK, Procedures, Reads
  <2>2. QED BY <2>1, Framed
<1>3. stack' = <<q>> \o Callers
  BY DEF ReadQueue
<1> HIDE DEF q
<1>4. q.at \in Reads
  BY <1>2 DEF Reads
<1>5. /\ Entered(q) /\ SameBottom /\ ~Receiving(stack) /\ ~Receiving(stack')
      /\ waiting => Waits(stack')
  BY <1>1, <1>2, <1>3, <1>4, ReadsOn
<1>6. TypeOK'
  <2>1. stack' \in Seq(Procedure) /\ blocked' \in Nat /\ pending' \in BOOLEAN
    <3>1. stack' \in Seq(Procedure)
      BY <1>5 DEF Entered
    <3>2. blocked' \in Nat
      BY DEF ReadQueue, TypeOK
    <3>3. pending' \in BOOLEAN
      BY DEF ReadQueue
    <3>4. QED BY <3>1, <3>2, <3>3
  <2>2. UNCHANGED <<pipe, queue, kbd, typed, waiting, quit, serial, asked, keys, others, quits>>
    BY DEF ReadQueue, input, world
  <2>3. QED BY <2>1, <2>2 DEF TypeOK
<1>7. Blocking'
  BY <1>5 DEF ReadQueue, Blocking, TypeOK
<1>8. CellHeld'
  BY <1>2, <1>5, EnteredRuns DEF ReadQueue, CellHeld, input
<1>9. OneAnswer'
  BY <1>5 DEF ReadQueue, OneAnswer, Answers, input, world
<1>10. QED BY <1>5, <1>6, <1>7, <1>8, <1>9, EnteredRuns

(* pm_get_queue frees the cell. *)
LEMMA FreeStep ==
  ASSUME Inv, Free
  PROVE  Inv'
<1> USE DEF Inv
<1> DEFINE q == [Top EXCEPT !.at = "unlink"]
<1>1. ~Idle /\ Top.at = "free" /\ Top.at \in Reads /\ Top \in Procedure
  BY Innermosts DEF Free, Running, Reads
<1>2. q \in Procedure /\ q.at = "unlink" /\ q.m = Top.m /\ q.rest = Top.rest
  <2>1. "unlink" \in Procedures
    BY DEF Procedures, Reads
  <2>2. QED BY <1>1, <2>1 DEF Procedure
<1>3. ~pending /\ blocked > 0 /\ stack' = <<q>> \o Callers
  BY DEF Free, Blocking, AfterUnblock
<1> HIDE DEF q
<1>4. q.at \in Reads
  BY <1>2 DEF Reads
<1>5. /\ Entered(q) /\ SameBottom /\ ~Receiving(stack) /\ ~Receiving(stack')
      /\ waiting => Waits(stack')
  BY <1>1, <1>2, <1>3, <1>4, ReadsOn
<1>6. TypeOK'
  BY <1>3, <1>5 DEF Entered, Free, TypeOK, input, world
<1>7. Blocking'
  BY <1>2, <1>5, EnteredRuns DEF Free, Blocking
<1>8. CellHeld'
  BY <1>2, <1>5, EnteredRuns DEF Free, CellHeld, input
<1>9. OneAnswer'
  BY <1>5 DEF Free, OneAnswer, Answers, input, world
<1>10. QED BY <1>5, <1>6, <1>7, <1>8, <1>9, EnteredRuns

(* pm_get_queue unlinks the cell. *)
LEMMA UnlinkStep ==
  ASSUME Inv, Unlink
  PROVE  Inv'
<1> USE DEF Inv
<1> DEFINE q == Frame("dispatch", Top.m, <<>>, FALSE)
<1>1. ~Idle /\ Top.at = "unlink" /\ Top.at \in Reads /\ Top \in Procedure
  BY Innermosts DEF Unlink, Running, Reads
<1>2. Top.m \in Messages /\ Top.rest \in Seq(Messages)
  BY <1>1 DEF Procedure
<1>3. q \in Procedure /\ q.at = "dispatch" /\ q.m = Top.m
  <2>1. "dispatch" \in Procedures /\ <<>> \in Seq(Messages)
    BY DEF Procedures, Reads
  <2>2. QED BY <1>2, <2>1, Zenon DEF Frame, Procedure
<1>4. stack' = <<q>> \o Callers
  BY DEF Unlink
<1> HIDE DEF q
<1>5. q.at \in Reads
  BY <1>3 DEF Reads
<1>6. /\ Entered(q) /\ SameBottom /\ ~Receiving(stack) /\ ~Receiving(stack')
      /\ waiting => Waits(stack')
  BY <1>1, <1>3, <1>4, <1>5, ReadsOn
<1>7. TypeOK'
  BY <1>2, <1>6, EnteredRuns DEF Unlink, TypeOK, input, world
<1>8. Blocking' /\ CellHeld'
  <2>1. ~Running("free")' /\ ~Running("unlink")'
    BY <1>3, <1>6, EnteredRuns
  <2>2. QED BY <1>6, <2>1 DEF Unlink, Blocking, CellHeld
<1>9. OneAnswer'
  BY <1>6 DEF Unlink, OneAnswer, Answers, world
<1>10. QED BY <1>6, <1>7, <1>8, <1>9, EnteredRuns

(* PM_read_socket reads an event from the pipe. *)
LEMMA ReadPipeStep ==
  ASSUME Inv, ReadPipe
  PROVE  Inv'
<1> USE DEF Inv
<1> DEFINE q == Frame("dispatch", Head(pipe), <<>>, FALSE)
<1>1. ~Idle /\ Top.at = "read" /\ Top.at \in Reads /\ pipe # <<>> /\ pipe' = Tail(pipe)
  BY DEF ReadPipe, Running, Reads
<1>2. q \in Procedure /\ q.at = "dispatch" /\ q.m = Head(pipe)
  <2>1. "dispatch" \in Procedures /\ <<>> \in Seq(Messages) /\ Head(pipe) \in Messages
    BY <1>1, MessageTaken DEF Procedures, Reads
  <2>2. QED BY <2>1, Framed
<1>3. stack' = <<q>> \o Callers
  BY DEF ReadPipe
<1> HIDE DEF q
<1>4. q.at \in Reads
  BY <1>2 DEF Reads
<1>5. /\ Entered(q) /\ SameBottom /\ ~Receiving(stack) /\ ~Receiving(stack')
      /\ waiting => Waits(stack')
  BY <1>1, <1>2, <1>3, <1>4, ReadsOn
<1>6. TypeOK'
  BY <1>1, <1>5, EnteredRuns, MessageTaken DEF ReadPipe, TypeOK, input, world
<1>7. Blocking' /\ CellHeld'
  <2>1. ~Running("free")' /\ ~Running("unlink")'
    BY <1>2, <1>5, EnteredRuns
  <2>2. QED BY <1>5, <2>1 DEF ReadPipe, Blocking, CellHeld
<1>8. Answers = {} /\ Answers' = {}
  BY <1>1, <1>5, MessageTaken DEF OneAnswer
<1>9. OneAnswer'
  BY <1>5, <1>8 DEF ReadPipe, OneAnswer, world
<1>10. QED BY <1>5, <1>6, <1>7, <1>9, EnteredRuns

(* A read that ends without an event, or stores the key it has. *)
LEMMA ReadEndStep ==
  ASSUME Inv, ReadBlocked \/ ReadNothing \/ DispatchKey
  PROVE  Inv'
<1> USE DEF Inv
<1>1. ~Idle /\ Top.at \in Reads /\ Top \in Procedure
  BY Innermosts DEF ReadBlocked, ReadNothing, DispatchKey, Running, Reads
<1>2. PICK at \in {"none", "some"} : stack' = <<Plain(at)>> \o Callers
  BY DEF ReadBlocked, ReadNothing, DispatchKey
<1>3. Plain(at) \in Procedure /\ Plain(at).at = at /\ at \in Reads
  BY PlainRead DEF Reads
<1>4. /\ Entered(Plain(at)) /\ SameBottom /\ ~Receiving(stack) /\ ~Receiving(stack')
      /\ waiting => Waits(stack')
  BY <1>1, <1>2, <1>3, ReadsOn
<1>5. Top.m.n \in Nat
  BY <1>1 DEF Procedure, Messages
<1>6. TypeOK'
  <2>1. kbd' \in Nat /\ typed' \in Seq(Nat) /\ pending' \in BOOLEAN
    <3>1. CASE DispatchKey
      BY <3>1, <1>5 DEF DispatchKey, TypeOK, flags
    <3>2. CASE ReadBlocked \/ ReadNothing
      BY <3>2 DEF ReadBlocked, ReadNothing, TypeOK, input
    <3>3. QED BY <3>1, <3>2
  <2>2. UNCHANGED <<pipe, queue, blocked, waiting, quit, serial, world>>
    BY DEF ReadBlocked, ReadNothing, DispatchKey, input, flags
  <2>3. QED BY <1>4, <2>1, <2>2, EnteredRuns DEF TypeOK, world
<1>7. Blocking' /\ CellHeld'
  <2>1. waiting' = waiting
    BY DEF ReadBlocked, ReadNothing, DispatchKey, flags
  <2>2. QED BY <1>3, <1>4, <2>1, EnteredRuns DEF Blocking, CellHeld
<1>8. OneAnswer'
  <2>1. pipe' = pipe /\ asked' = asked
    BY DEF ReadBlocked, ReadNothing, DispatchKey, input, world
  <2>2. QED BY <1>4, <2>1 DEF OneAnswer, Answers
<1>9. QED BY <1>4, <1>6, <1>7, <1>8, EnteredRuns

(* The same procedure is outermost: what is waited for stays. *)
LEMMA SameEnd ==
  ASSUME NEW s, Len(s) > 0, s[Len(s)] = stack[Len(stack)], Len(stack) > 0,
         ~Receiving(stack), waiting => Waits(stack)
  PROVE  ~Receiving(s) /\ (waiting => Waits(s))
BY DEF Receiving, Waits

(* An event that is no input is handled, with or without an allocation. *)
LEMMA DispatchOtherStep ==
  ASSUME Inv, DispatchOther
  PROVE  Inv'
<1> USE DEF Inv
<1> DEFINE s == <<Plain("none")>> \o Callers
<1>1. ~Idle /\ Top.at \in Reads /\ Top \in Procedure /\ Top.at = "dispatch"
  BY Innermosts DEF DispatchOther, Running, Reads
<1>2. Plain("none") \in Procedure /\ Plain("none").at = "none"
  BY PlainRead DEF Reads
<1>3. Fits("none", Callers) /\ Callers # <<>>
  BY <1>1, Innermosts DEF Fits, Outermost, Reads
<1>4. /\ s \in Seq(Procedure) /\ s # <<>> /\ Shape(s) /\ Head(s) = Plain("none")
      /\ s[Len(s)] = stack[Len(stack)]
  BY <1>1, <1>2, <1>3, Innermosts, Called
<1>5. stack' = s \/ stack' = AfterUnblock(blocked, s)
  BY DEF DispatchOther
<1> HIDE DEF s
<1>6. s[1].at = "none"
  BY <1>2, <1>4
<1>7. /\ stack' \in Seq(Procedure) /\ Shape(stack')
      /\ stack' = s \/ Entered(Plain("reinvoke"))
      /\ Len(stack') > 0 /\ stack'[Len(stack')] = stack[Len(stack)]
  <2>1. CASE stack' = s
    <3>1. Len(s) > 0
      BY <1>4
    <3>2. QED BY <2>1, <3>1, <1>4
  <2>2. CASE stack' = AfterUnblock(blocked, s)
    BY <2>2, <1>4, <1>6, Unblocks
  <2>3. QED BY <1>5, <2>1, <2>2
<1>8. ~Running("free")' /\ ~Running("unlink")'
  <2>1. Plain("reinvoke").at = "reinvoke"
    BY Plainly DEF Procedures
  <2>2. CASE stack' = s
    BY <1>2, <1>4, <2>2 DEF Running, Top
  <2>3. CASE Entered(Plain("reinvoke"))
    BY <2>1, <2>3, EnteredRuns
  <2>4. QED BY <1>7, <2>2, <2>3
<1>9. ~Receiving(stack) /\ ~Receiving(stack') /\ (waiting => Waits(stack'))
  <2>1. ~Receiving(stack) /\ (waiting => Waits(stack)) /\ Len(stack) > 0
    BY <1>1, Bottoms, Innermosts DEF Blocking
  <2>2. QED BY <1>7, <2>1, SameEnd
<1>10. UNCHANGED <<pipe, queue, kbd, typed, blocked, pending, waiting, quit, serial, asked, keys, others, quits>>
  BY DEF DispatchOther, input, flags, world
<1>11. TypeOK'
  BY <1>7, <1>10 DEF TypeOK
<1>12. Blocking' /\ CellHeld'
  BY <1>8, <1>9, <1>10 DEF Blocking, CellHeld
<1>13. OneAnswer'
  BY <1>9, <1>10 DEF OneAnswer, Answers
<1>14. QED BY <1>7, <1>11, <1>12, <1>13

(* Steps that leave all but the stack alone, and no cell in hand. *)
LEMMA Onward ==
  ASSUME Inv, stack' \in Seq(Procedure), Shape(stack)', ~Running("free")', ~Running("unlink")',
         ~Receiving(stack), ~Receiving(stack'),
         waiting => Waits(stack'),
         UNCHANGED <<input, flags, serial, world>>
  PROVE  Inv'
<1> USE DEF Inv
<1>1. UNCHANGED <<pipe, queue, kbd, typed, blocked, pending, waiting, quit, serial, asked, keys, others, quits>>
  BY DEF input, flags, world
<1>2. TypeOK'
  BY <1>1 DEF TypeOK
<1>3. Blocking' /\ CellHeld'
  BY <1>1 DEF Blocking, CellHeld
<1>4. OneAnswer'
  BY <1>1 DEF OneAnswer, Answers
<1>5. QED BY <1>2, <1>3, <1>4

(* reinvoke_input_signal, or a wait for input, begins to read. *)
LEMMA BeginReadStep ==
  ASSUME Inv, Reinvoke \/ Detect("check") \/ Detect("ready")
  PROVE  Inv'
<1> USE DEF Inv
<1>1. ~Idle /\ Top.at \in {"reinvoke", "check", "ready"} /\ stack' = <<Plain("read")>> \o stack
      /\ UNCHANGED <<input, flags, serial, world>>
  BY DEF Reinvoke, Detect, Running
<1>2. Plain("read") \in Procedure /\ Plain("read").at = "read"
  BY PlainRead DEF Reads
<1>3. Fits("read", stack) /\ Top.at \notin Innermost /\ ~Receiving(stack)
  <2>1. Fits("read", stack) /\ Top.at \notin Innermost
    BY <1>1 DEF Fits, Idle, Top, TypeOK, Outermost, Innermost
  <2>2. ~Receiving(stack)
    BY <1>1, Bottoms
  <2>3. QED BY <2>1, <2>2
<1>4. Entered(Plain("read")) /\ SameBottom
  BY <1>1, <1>2, <1>3, Calls
<1>5. ~Receiving(stack') /\ (waiting => Waits(stack'))
  BY <1>3, <1>4 DEF SameBottom, Receiving, Waits, Blocking
<1>6. ~Running("free")' /\ ~Running("unlink")'
  BY <1>2, <1>4, EnteredRuns
<1>7. QED BY <1>1, <1>3, <1>4, <1>5, <1>6, Onward, EnteredRuns

(* A read returns to reinvoke_input_signal or to the wait for input. *)
LEMMA ReturnStep ==
  ASSUME Inv, Return
  PROVE  Inv'
<1> USE DEF Inv
<1>1. ~Idle /\ Top.at \in {"some", "none"} /\ Top.at \in Reads /\ UNCHANGED <<input, flags, serial, world>>
  BY DEF Return, Reads
<1>2. /\ Callers # <<>> /\ Callers \in Seq(Procedure) /\ Shape(Callers) /\ Callers[1] \in Procedure
      /\ Callers[Len(Callers)] = stack[Len(stack)] /\ ~Receiving(stack)
      /\ Callers[1].at \in {"reinvoke", "check", "ready"}
  BY <1>1, Innermosts, Bottoms DEF Fits
<1>0. (waiting => Waits(stack)) /\ Len(stack) > 0
  BY <1>1, Innermosts DEF Blocking
<1> DEFINE rest == Tail(Callers)
<1>3. /\ rest \in Seq(Procedure) /\ Shape(rest) /\ Fits(Callers[1].at, rest)
      /\ Len(rest) = Len(Callers) - 1 /\ Len(Callers) \in Nat /\ Len(Callers) > 0
      /\ rest # <<>> => rest[1].at \notin Innermost /\ rest[Len(rest)] = stack[Len(stack)]
  BY <1>2, Returned
<1> HIDE DEF rest
<1>4. CASE Callers[1].at = "reinvoke" /\ Top.at = "some"
  <2>1. stack' = Callers
    BY <1>4 DEF Return
  <2>2. ~Receiving(stack') /\ (waiting => Waits(stack'))
    BY <1>0, <1>2, <1>3, <2>1, SameEnd
  <2>3. ~Running("free")' /\ ~Running("unlink")'
    BY <1>2, <1>4, <2>1 DEF Running, Top
  <2>4. QED BY <1>1, <1>2, <2>1, <2>2, <2>3, Onward
<1>5. CASE Callers[1].at = "reinvoke" /\ Top.at # "some"
  <2>1. stack' = rest
    BY <1>5 DEF Return, rest
  <2>2. rest = <<>> \/ rest[1].at = "none"
    BY <1>3, <1>5 DEF Fits
  <2>3. ~Receiving(stack') /\ (waiting => Waits(stack'))
    <3>1. CASE rest # <<>>
      <4>1. Len(rest) > 0
        BY <1>3, <3>1
      <4>2. QED BY <1>0, <1>2, <1>3, <2>1, <3>1, <4>1, SameEnd
    <3>2. CASE rest = <<>>
      <4>1. Len(Callers) = 1
        BY <1>3, <3>2
      <4>2. stack[Len(stack)].at = "reinvoke"
        BY <1>2, <1>5, <4>1
      <4>3. QED BY <1>0, <2>1, <3>2, <4>2 DEF Receiving, Waits
    <3>3. QED BY <3>1, <3>2
  <2>4. ~Running("free")' /\ ~Running("unlink")'
    BY <2>1, <2>2, <1>3 DEF Running, Idle, Top
  <2>5. QED BY <1>1, <1>2, <1>3, <2>1, <2>3, <2>4, Onward
<1>6. ASSUME NEW at \in {"select", "decide"}, stack' = <<Plain(at)>> \o rest,
             Callers[1].at = IF at = "select" THEN "check" ELSE "ready"
      PROVE  Inv'
  <2>1. Plain(at) \in Procedure /\ Plain(at).at = at
    BY Plainly DEF Procedures, Outermost
  <2>2. rest = <<>> /\ Fits(at, rest) /\ stack[Len(stack)] = Callers[1]
    <3>1. rest = <<>>
      BY <1>3, <1>6 DEF Fits, Outermost
    <3>2. Len(Callers) = 1
      BY <1>3, <3>1
    <3>3. QED BY <1>2, <1>6, <3>1, <3>2 DEF Fits, Reads
  <2>3. Entered(Plain(at)) /\ stack'[Len(stack')] = Plain(at)
    BY <1>3, <1>6, <2>1, <2>2, Called DEF Entered
  <2>4. ~Receiving(stack') /\ (waiting => Waits(stack'))
    BY <1>0, <1>6, <2>1, <2>2, <2>3 DEF Receiving, Waits, Entered
  <2>5. ~Running("free")' /\ ~Running("unlink")'
    BY <2>1, <2>3, EnteredRuns
  <2>6. QED BY <1>1, <1>2, <2>3, <2>4, <2>5, Onward, EnteredRuns
<1>7. QED
  <2>1. CASE Callers[1].at = "check"
    BY <2>1, <1>6 DEF Return, rest
  <2>2. CASE Callers[1].at = "ready"
    BY <2>2, <1>6 DEF Return, rest
  <2>3. QED BY <1>2, <1>4, <1>5, <2>1, <2>2

(* Lisp allocates. *)
LEMMA AllocateStep ==
  ASSUME Inv, Allocate
  PROVE  Inv'
<1> USE DEF Inv
<1>1. Idle /\ stack' = AfterUnblock(blocked, <<>>) /\ UNCHANGED <<input, flags, serial, world>>
  BY DEF Allocate
<1>2. <<>> \in Seq(Procedure) /\ Shape(<<>>)
  BY DEF Shape
<1>3. /\ stack' \in Seq(Procedure) /\ Shape(stack')
      /\ stack' = <<>> \/ Entered(Plain("reinvoke"))
      /\ stack' # <<>> => stack'[Len(stack')] = Plain("reinvoke")
  BY <1>1, <1>2, Unblocks
<1>4. Plain("reinvoke").at = "reinvoke"
  BY Plainly DEF Procedures
<1>5. ~Receiving(stack') /\ ~Running("free")' /\ ~Running("unlink")'
  BY <1>3, <1>4, EnteredRuns DEF Receiving, Running, Idle
<1>6. ~Receiving(stack) /\ ~waiting
  BY <1>1, Bottoms DEF Blocking
<1>7. QED BY <1>1, <1>3, <1>5, <1>6, Onward

(* The wait for the keyboard, and what Lisp does without a call. *)
LEMMA WaitStep ==
  ASSUME Inv, TakeEvent \/ StartWait \/ Select \/ Decide
  PROVE  Inv'
<1> USE DEF Inv
<1>1. ASSUME NEW at \in {"check", "ready"}, stack' = <<Plain(at)>>, UNCHANGED <<input, blocked, pending, quit, serial, world>>,
             waiting' = (at = "check"), ~Receiving(stack)
      PROVE  Inv'
  <2>1. Plain(at) \in Procedure /\ Plain(at).at = at
    BY Plainly DEF Procedures, Outermost
  <2>2. stack' \in Seq(Procedure) /\ Len(stack') = 1 /\ stack'[1] = Plain(at)
    BY <1>1, <2>1
  <2>3. Shape(stack')
    BY <2>1, <2>2 DEF Shape, Placed, Innermost, Reads
  <2>4. ~Running("free")' /\ ~Running("unlink")' /\ ~Receiving(stack') /\ (at = "check" => Waits(stack'))
    BY <2>1, <2>2 DEF Running, Top, Receiving, Waits
  <2>5. TypeOK'
    BY <1>1, <2>2 DEF TypeOK, input, world
  <2>6. Blocking' /\ CellHeld'
    BY <1>1, <2>4 DEF Blocking, CellHeld
  <2>7. OneAnswer'
    BY <1>1, <2>4 DEF OneAnswer, Answers, input, world
  <2>8. QED BY <2>3, <2>5, <2>6, <2>7
<1>2. CASE TakeEvent
  <2>1. UNCHANGED <<pipe, queue, typed, blocked, pending, waiting, quit, stack, serial, asked, keys, others, quits>>
    BY <1>2 DEF TakeEvent, flags, world
  <2>2. kbd' \in Nat
    BY <1>2 DEF TakeEvent, TypeOK
  <2>3. QED BY <2>1, <2>2 DEF TypeOK, Blocking, CellHeld, OneAnswer, Answers, Running, Idle, Top
<1>3. CASE StartWait
  BY <1>1, <1>3, Bottoms DEF StartWait
<1>4. CASE Select
  BY <1>1, <1>4, Bottoms DEF Select, Running
<1>5. CASE Decide
  <2>1. ~Idle /\ Top.at \in {"decide", "ready"}
    BY <1>5 DEF Decide, Running
  <2>2. ~Receiving(stack) /\ ~waiting
    BY <2>1, Bottoms DEF Blocking, Waits
  <2>3. CASE kbd > 0 \/ quit
    <3>1. stack' = <<>> /\ UNCHANGED <<input, flags, serial, world>>
      BY <1>5, <2>3 DEF Decide, flags
    <3>2. stack' \in Seq(Procedure) /\ Shape(stack)' /\ ~Running("free")' /\ ~Running("unlink")'
          /\ ~Receiving(stack')
      BY <3>1 DEF Shape, Running, Idle, Receiving
    <3>3. QED BY <2>2, <3>1, <3>2, Onward
  <2>4. CASE ~(kbd > 0 \/ quit)
    <3>1. stack' = <<Plain("check")>> /\ waiting' = TRUE /\ UNCHANGED <<input, blocked, pending, quit, serial, world>>
      BY <1>5, <2>4 DEF Decide
    <3>2. QED BY <1>1, <2>2, <3>1
  <2>5. QED BY <2>3, <2>4
<1>6. QED BY <1>2, <1>3, <1>4, <1>5

(* C-g. *)
LEMMA QuitStep ==
  ASSUME Inv, Interrupt \/ InterruptWait \/ SignalQuit
  PROVE  Inv'
<1> USE DEF Inv
<1>1. CASE Interrupt
  <2>1. UNCHANGED <<pipe, queue, kbd, typed, blocked, pending, waiting, stack, serial, asked, keys, others>>
        /\ quit' = TRUE /\ quits' \in Nat
    BY <1>1 DEF Interrupt, input, TypeOK
  <2>2. QED BY <2>1 DEF TypeOK, Blocking, CellHeld, OneAnswer, Answers, Running, Idle, Top
<1>2. CASE InterruptWait
  <2>1. Waits(stack) /\ ~Receiving(stack) /\ stack' = <<>> /\ waiting' = FALSE
    BY <1>2 DEF InterruptWait, Blocking, Waits, Receiving
  <2>2. queue' \in Seq(Messages)
    <3>1. Message("stale", 0) \in Messages
      BY DEF Message, Messages
    <3>2. CASE UNCHANGED queue
      BY <3>2 DEF TypeOK
    <3>3. CASE /\ Running("free") \/ Running("unlink")
               /\ queue' = [queue EXCEPT ![1] = Message("stale", 0)]
      <4>1. queue \in Seq(Messages)
        BY DEF TypeOK
      <4>2. queue # <<>>
        BY <3>3 DEF CellHeld
      <4>3. 1 \in 1 .. Len(queue)
        BY <4>1, <4>2
      <4>4. QED BY <3>1, <3>3, <4>1, <4>3, ExceptSeq
    <3>4. QED BY <1>2, <3>2, <3>3 DEF InterruptWait
  <2>3. UNCHANGED <<pipe, kbd, typed, blocked, pending, serial, asked, keys, others>>
        /\ quit' \in BOOLEAN /\ quits' \in Nat
    BY <1>2 DEF InterruptWait, TypeOK
  <2>4. stack' \in Seq(Procedure) /\ Shape(stack)' /\ ~Running("free")' /\ ~Running("unlink")'
        /\ ~Receiving(stack')
    BY <2>1 DEF Shape, Running, Idle, Receiving
  <2>5. TypeOK'
    BY <2>1, <2>2, <2>3, <2>4 DEF TypeOK
  <2>6. Blocking' /\ CellHeld'
    BY <2>1, <2>4 DEF Blocking, CellHeld
  <2>7. OneAnswer'
    BY <2>1, <2>3, <2>4 DEF OneAnswer, Answers
  <2>8. QED BY <2>4, <2>5, <2>6, <2>7
<1>3. CASE SignalQuit
  <2>1. UNCHANGED <<pipe, queue, kbd, typed, pending, waiting, stack, serial, asked, keys, others, quits>>
        /\ quit' = FALSE /\ blocked' = 0 /\ Idle
    BY <1>3 DEF SignalQuit, input, world
  <2>2. ~Receiving(stack) /\ ~Running("free") /\ ~Running("unlink")
    BY <2>1, Bottoms DEF Running
  <2>3. QED BY <2>1, <2>2 DEF TypeOK, Blocking, CellHeld, OneAnswer, Answers, Running, Idle, Top
<1>4. QED BY <1>1, <1>2, <1>3

(* The invariant holds when Emacs starts. *)
LEMMA InitInv == Init => Inv
<1> SUFFICES ASSUME Init PROVE Inv
  OBVIOUS
<1>1. TypeOK
  <2>1. <<>> \in Seq(Messages) /\ <<>> \in Seq(Nat) /\ <<>> \in Seq(Procedure)
    OBVIOUS
  <2>2. QED BY <2>1 DEF Init, TypeOK
<1>2. stack = <<>> /\ pipe = <<>> /\ asked = 0 /\ ~waiting
  BY DEF Init
<1>3. Shape(stack) /\ ~Receiving(stack) /\ ~Running("free") /\ ~Running("unlink")
  BY <1>2 DEF Shape, Receiving, Running, Idle
<1>4. Answers = {}
  BY <1>2 DEF Answers
<1>5. QED BY <1>1, <1>2, <1>3, <1>4 DEF Inv, Blocking, CellHeld, OneAnswer

(* Every step keeps the invariant. *)
LEMMA InvStep == Inv /\ [Next]_vars => Inv'
<1> SUFFICES ASSUME Inv, [Next]_vars PROVE Inv'
  OBVIOUS
<1>1. CASE Emacs
  BY <1>1, CallRpcStep, ReceiveAnswerStep, ReceiveOtherStep, LinkStep, ReadQueueStep, FreeStep, UnlinkStep,
     ReadPipeStep, ReadEndStep, DispatchOtherStep, BeginReadStep, ReturnStep, AllocateStep, WaitStep, QuitStep
     DEF Emacs
<1>2. CASE Pmemacs
  BY <1>2, SendStep DEF Pmemacs
<1>3. CASE Interrupt \/ InterruptWait
  BY <1>3, QuitStep
<1>4. CASE UNCHANGED vars
  <2>1. UNCHANGED <<pipe, queue, kbd, typed, blocked, pending, waiting, quit, stack, serial, asked, keys, others, quits>>
    BY <1>4 DEF vars, input, flags, world
  <2>2. QED BY <2>1 DEF Inv, TypeOK, Blocking, CellHeld, OneAnswer, Answers, Running, Idle, Top
<1>5. QED BY <1>1, <1>2, <1>3, <1>4 DEF Next

(* The shape of the stack, the block count, the cell in hand and the one     *)
(* answer under way: whatever calls, events and C-g come.                    *)
THEOREM Invariance == Spec => []Inv
BY InitInv, InvStep, PTL DEF Spec

(* Under the invariant an answer under way is one that is waited for. *)
LEMMA Matched == Inv => AnswerMatched
<1> SUFFICES ASSUME Inv PROVE AnswerMatched
  OBVIOUS
<1>1. stack \in Seq(Procedure) /\ pipe \in Seq(Messages) /\ Shape(stack) /\ OneAnswer
  BY DEF Inv, TypeOK
<1>2. Len(stack) \in Nat /\ DOMAIN stack = 1 .. Len(stack)
  BY <1>1
<1>3. \A i \in Receives : i = Len(stack) /\ Len(stack) > 0 /\ Receiving(stack)
  <2> SUFFICES ASSUME NEW i \in Receives PROVE i = Len(stack) /\ Len(stack) > 0 /\ Receiving(stack)
    OBVIOUS
  <2>1. i \in 1 .. Len(stack) /\ stack[i].at = "receive"
    BY <1>2 DEF Receives
  <2>2. Placed(stack, i)
    BY <1>1, <2>1 DEF Shape
  <2>3. i = Len(stack)
    BY <2>1, <2>2 DEF Placed, Outermost
  <2>4. QED BY <1>2, <2>1, <2>3 DEF Receiving
<1>4. CASE Receiving(stack)
  <2>1. Receives = {Len(stack)}
    BY <1>2, <1>3, <1>4 DEF Receives, Receiving
  <2>2. QED BY <1>1, <1>4, <2>1 DEF OneAnswer, AnswerMatched
<1>5. CASE ~Receiving(stack)
  <2>1. Receives = {}
    BY <1>3, <1>5
  <2>2. QED BY <1>1, <1>5, <2>1 DEF OneAnswer, AnswerMatched
<1>6. QED BY <1>4, <1>5

(* pm_receive gets the answer to its own request and no answer is left over: *)
(* for any number of events, requests and C-g.                               *)
THEOREM AnswersMatched == Spec => []AnswerMatched
BY Invariance, Matched, PTL

-----------------------------------------------------------------------------
(* Until a C-g, a queued event is announced. *)
LEMMA AnnouncedStep == Inv /\ Announced /\ [Next]_vars => Announced'
<1> SUFFICES ASSUME Inv, Announced, [Next]_vars, quits' = 0
             PROVE  ~quit' /\ (queue' # <<>> /\ ~pending' => Running("free")' \/ Running("unlink")')
  BY DEF Announced
<1>1. quits = 0 /\ ~Interrupt /\ ~InterruptWait
  <2>1. quits \in Nat
    BY DEF Inv, TypeOK
  <2>2. CASE Interrupt \/ InterruptWait
    BY <2>1, <2>2 DEF Interrupt, InterruptWait
  <2>3. CASE ~Interrupt /\ ~InterruptWait
    BY <2>3 DEF Next, Emacs, Pmemacs, vars, world, CallRpc, ReceiveAnswer, ReceivePaint, ReceiveOther, Link,
       ReadBlocked, ReadQueue, Free, Unlink, ReadPipe, ReadNothing, DispatchKey, DispatchOther, Reinvoke,
       Return, Allocate, TakeEvent, StartWait, Detect, Select, Decide, SignalQuit, SendKey, SendOther, SendAnswer
  <2>4. QED BY <2>2, <2>3
<1>2. ~quit /\ ~SignalQuit
  BY <1>1 DEF Announced, SignalQuit
<1>3. queue # <<>> /\ ~pending => ~Idle /\ Top.at \in {"free", "unlink"}
  BY <1>1 DEF Announced, Running
<1>4. CASE \/ \E paint \in BOOLEAN : CallRpc(paint)
           \/ ReceiveAnswer \/ ReceivePaint \/ ReceiveOther \/ ReadBlocked \/ DispatchKey \/ DispatchOther
           \/ Reinvoke \/ Return \/ Allocate \/ TakeEvent \/ StartWait \/ Detect("check") \/ Detect("ready")
           \/ Select \/ Decide
  <2>1. UNCHANGED <<queue, quit>> /\ (UNCHANGED pending \/ pending' = TRUE)
    BY <1>4 DEF input, flags, CallRpc, ReceiveAnswer, ReceivePaint, ReceiveOther, ReadBlocked, DispatchKey,
       DispatchOther, Reinvoke, Return, Allocate, TakeEvent, StartWait, Detect, Select, Decide
  <2>2. Idle \/ Top.at \notin {"free", "unlink"}
    BY <1>4 DEF Running, CallRpc, ReceiveAnswer, ReceivePaint, ReceiveOther, ReadBlocked, DispatchKey,
       DispatchOther, Reinvoke, Return, Allocate, TakeEvent, StartWait, Detect, Select, Decide
  <2>3. QED BY <1>2, <1>3, <2>1, <2>2
<1>5. CASE ReadPipe \/ ReadNothing
  BY <1>2, <1>5 DEF ReadPipe, ReadNothing, input
<1>6. CASE Link \/ Unlink
  <2>1. quit' = quit
    BY <1>6 DEF Link, Unlink
  <2>2. CASE Link
    BY <1>2, <2>1, <2>2 DEF Link
  <2>3. CASE Unlink
    <3>1. queue' = Top.rest /\ pending' = (pending \/ Top.rest # <<>>)
      BY <2>3 DEF Unlink
    <3>2. queue' # <<>> => pending'
      BY <3>1, Zenon
    <3>3. QED BY <1>2, <2>1, <3>2, Zenon
  <2>4. QED BY <1>6, <2>2, <2>3
<1>7. CASE ReadQueue
  <2> DEFINE q == Frame("free", Head(queue), Tail(queue), FALSE)
  <2>1. ~Idle' /\ Head(stack') = q
    <3>1. stack' = <<q>> \o Callers /\ Callers \in Seq(Procedure)
      BY <1>7, Innermosts DEF ReadQueue, Running, Inv
    <3> HIDE DEF q
    <3>2. QED BY <3>1 DEF Idle
  <2>2. Running("free")'
    BY <2>1 DEF Running, Top, Frame
  <2>3. QED BY <1>2, <1>7, <2>2 DEF ReadQueue
<1>8. CASE Free
  <2> DEFINE q == [Top EXCEPT !.at = "unlink"]
  <2>1. ~pending /\ Top \in Procedure /\ Callers \in Seq(Procedure)
    BY <1>8, Innermosts DEF Free, Inv, Blocking, Running
  <2>2. stack' = <<q>> \o Callers
    BY <1>8, <2>1 DEF Free, AfterUnblock
  <2>3. q.at = "unlink"
    BY <2>1 DEF Procedure
  <2> HIDE DEF q
  <2>4. Running("unlink")'
    BY <2>1, <2>2, <2>3 DEF Running, Idle, Top
  <2>5. QED BY <1>2, <1>8, <2>4 DEF Free
<1>9. CASE Pmemacs \/ UNCHANGED vars
  <2>1. UNCHANGED <<queue, pending, quit, stack>>
    BY <1>9 DEF Pmemacs, SendKey, SendOther, SendAnswer, vars, input, flags
  <2>2. QED BY <1>2, <1>3, <2>1 DEF Running, Idle, Top
<1>10. QED BY <1>1, <1>2, <1>4, <1>5, <1>6, <1>7, <1>8, <1>9 DEF Next, Emacs

(* A key put aside is read by the next UNBLOCK_INPUT: for any number of      *)
(* events, until a C-g.                                                      *)
THEOREM QueueCovered == Spec => []PendingCoversQueue
<1>1. Init => Announced
  BY DEF Init, Announced
<1>2. Announced => PendingCoversQueue
  BY DEF Announced, PendingCoversQueue, Running
<1>3. QED BY <1>1, <1>2, AnnouncedStep, Invariance, PTL DEF Spec

-----------------------------------------------------------------------------
(* Until a C-g, the keys on the way are those typed and not stored, in order. *)
Ordered(f, a, b) ==
  /\ {f[i].n : i \in Keys(f)} = a + 1 .. b
  /\ \A i, j \in Keys(f) : i < j => f[i].n < f[j].n
InOrder ==
  quits = 0 =>
    /\ Len(typed) <= keys
    /\ typed = [k \in 1 .. Len(typed) |-> k]
    /\ Ordered(Flow, Len(typed), keys)

(* A key is typed. *)
LEMMA KeyAdded ==
  ASSUME NEW f \in Seq(Messages), NEW a \in Nat, NEW b \in Nat, a <= b, Ordered(f, a, b),
         NEW m \in Messages, m.kind = "key", m.n = b + 1
  PROVE  Ordered(Append(f, m), a, b + 1)
<1> DEFINE g == Append(f, m)
<1>1. /\ Len(g) = Len(f) + 1 /\ Len(f) \in Nat /\ g[Len(f) + 1] = m
      /\ \A i \in 1 .. Len(f) : g[i] = f[i]
      /\ DOMAIN f = 1 .. Len(f) /\ DOMAIN g = 1 .. Len(g)
  OBVIOUS
<1> HIDE DEF g
<1>2. Keys(g) = Keys(f) \cup {Len(f) + 1} /\ Keys(f) \subseteq 1 .. Len(f)
  BY <1>1 DEF Keys
<1>3. \A i \in Keys(f) : g[i] = f[i] /\ f[i].n \in a + 1 .. b /\ i < Len(f) + 1 /\ i \in Nat
  BY <1>1, <1>2 DEF Ordered
<1>4. {g[i].n : i \in Keys(g)} = {f[i].n : i \in Keys(f)} \cup {b + 1}
  BY <1>1, <1>2, <1>3
<1>5. {g[i].n : i \in Keys(g)} = a + 1 .. b + 1
  <2>1. {f[i].n : i \in Keys(f)} = a + 1 .. b
    BY DEF Ordered
  <2>2. (a + 1 .. b) \cup {b + 1} = a + 1 .. b + 1
    OBVIOUS
  <2>3. QED BY <1>4, <2>1, <2>2
<1>6. \A i, j \in Keys(g) : i < j => g[i].n < g[j].n
  BY <1>1, <1>2, <1>3 DEF Ordered
<1>7. QED BY <1>5, <1>6 DEF Ordered, g

(* An event that is no key comes or goes. *)
LEMMA OtherGone ==
  ASSUME NEW f \in Seq(Messages), NEW g \in Seq(Messages), NEW m \in Messages, m.kind # "key",
         NEW a, NEW b, Ordered(f \o (<<m>> \o g), a, b)
  PROVE  Ordered(f \o g, a, b)
<1> DEFINE s == f \o (<<m>> \o g)
           t == f \o g
           k == Len(f)
           at(i) == IF i <= k THEN i ELSE i + 1
<1>1. /\ s \in Seq(Messages) /\ t \in Seq(Messages) /\ k \in Nat /\ Len(s) = Len(t) + 1 /\ Len(t) \in Nat
      /\ k <= Len(t) /\ s[k + 1] = m
      /\ DOMAIN s = 1 .. Len(s) /\ DOMAIN t = 1 .. Len(t)
  OBVIOUS
<1>2. \A i \in 1 .. Len(t) : t[i] = s[at(i)] /\ at(i) \in 1 .. Len(s)
  OBVIOUS
<1> HIDE DEF s, t, k
<1>3. \A i \in Keys(t) : t[i] = s[at(i)] /\ at(i) \in Keys(s)
  BY <1>1, <1>2 DEF Keys
<1>4. \A j \in Keys(s) : \E i \in Keys(t) : at(i) = j
  <2> SUFFICES ASSUME NEW j \in Keys(s) PROVE \E i \in Keys(t) : at(i) = j
    OBVIOUS
  <2>1. j \in 1 .. Len(s) /\ s[j].kind = "key" /\ j # k + 1
    BY <1>1 DEF Keys
  <2>2. CASE j <= k
    <3>1. j \in 1 .. Len(t) /\ at(j) = j
      BY <1>1, <2>1, <2>2
    <3>2. QED BY <1>1, <1>2, <2>1, <3>1 DEF Keys
  <2>3. CASE j > k
    <3>1. PICK i \in 1 .. Len(t) : i + 1 = j /\ at(i) = j
      BY <1>1, <2>1, <2>3
    <3>2. QED BY <1>1, <1>2, <2>1, <3>1 DEF Keys
  <2>4. QED BY <1>1, <2>1, <2>2, <2>3
<1>5. {t[i].n : i \in Keys(t)} = {s[i].n : i \in Keys(s)}
  BY <1>3, <1>4
<1>6. \A i, j \in Keys(t) : i < j => at(i) < at(j)
  BY <1>1 DEF Keys
<1>7. QED BY <1>3, <1>5, <1>6 DEF Ordered, s, t

(* An event that is no key is sent. *)
LEMMA OtherCame ==
  ASSUME NEW f \in Seq(Messages), NEW m \in Messages, m.kind # "key",
         NEW a, NEW b, Ordered(f, a, b)
  PROVE  Ordered(Append(f, m), a, b)
<1> DEFINE g == Append(f, m)
<1>1. /\ Len(g) = Len(f) + 1 /\ Len(f) \in Nat /\ g[Len(f) + 1] = m
      /\ \A i \in 1 .. Len(f) : g[i] = f[i]
      /\ DOMAIN f = 1 .. Len(f) /\ DOMAIN g = 1 .. Len(g)
  OBVIOUS
<1> HIDE DEF g
<1>2. Keys(g) = Keys(f) /\ Keys(f) \subseteq 1 .. Len(f)
  BY <1>1 DEF Keys
<1>3. {g[i].n : i \in Keys(g)} = {f[i].n : i \in Keys(f)}
  BY <1>1, <1>2
<1>4. QED BY <1>1, <1>2, <1>3 DEF Ordered, g

(* The oldest key is stored. *)
LEMMA KeyGone ==
  ASSUME NEW g \in Seq(Messages), NEW m \in Messages, m.kind = "key",
         NEW a \in Nat, NEW b \in Nat, Ordered(<<m>> \o g, a, b)
  PROVE  m.n = a + 1 /\ a + 1 <= b /\ Ordered(g, a + 1, b)
<1> DEFINE s == <<m>> \o g
<1>1. /\ s \in Seq(Messages) /\ Len(s) = Len(g) + 1 /\ Len(g) \in Nat /\ s[1] = m
      /\ \A i \in 1 .. Len(g) : s[i + 1] = g[i]
      /\ DOMAIN s = 1 .. Len(s) /\ DOMAIN g = 1 .. Len(g)
  OBVIOUS
<1>2. \A j \in 2 .. Len(s) : j - 1 \in 1 .. Len(g) /\ s[j] = g[j - 1]
  BY <1>1
<1>0. {s[i].n : i \in Keys(s)} = a + 1 .. b /\ \A i, j \in Keys(s) : i < j => s[i].n < s[j].n
  BY DEF Ordered
<1> HIDE DEF s
<1>3. 1 \in Keys(s) /\ \A i \in Keys(g) : i \in 1 .. Len(g) /\ i + 1 \in Keys(s) /\ s[i + 1] = g[i]
  BY <1>1 DEF Keys
<1>4. \A j \in Keys(s) : j \in Nat /\ (j = 1 \/ (1 < j /\ j - 1 \in Keys(g) /\ s[j] = g[j - 1]))
  BY <1>1, <1>2 DEF Keys
<1>5. m.n \in a + 1 .. b /\ \A j \in Keys(s) : j # 1 => m.n < s[j].n
  <2>1. m.n \in {s[i].n : i \in Keys(s)}
    BY <1>1, <1>3
  <2>2. QED BY <1>0, <1>1, <1>3, <1>4, <2>1
<1>6. PICK j \in Keys(s) : s[j].n = a + 1
  <2>1. a + 1 \in a + 1 .. b
    BY <1>5
  <2>2. QED BY <1>0, <2>1
<1>7. m.n = a + 1 /\ a + 1 <= b
  BY <1>1, <1>5, <1>6
<1>8. \A i \in Keys(g) : g[i].n \in a + 1 .. b /\ g[i].n # a + 1
  <2> SUFFICES ASSUME NEW i \in Keys(g) PROVE g[i].n \in a + 1 .. b /\ g[i].n # a + 1
    OBVIOUS
  <2>1. i + 1 \in Keys(s) /\ s[i + 1] = g[i] /\ i + 1 # 1
    BY <1>3
  <2>2. m.n < g[i].n
    BY <1>5, <2>1
  <2>3. QED BY <1>0, <1>7, <2>1, <2>2
<1>9. \A n \in a + 2 .. b : \E i \in Keys(g) : g[i].n = n
  <2> SUFFICES ASSUME NEW n \in a + 2 .. b PROVE \E i \in Keys(g) : g[i].n = n
    OBVIOUS
  <2>1. n \in a + 1 .. b /\ n # a + 1
    OBVIOUS
  <2>2. PICK l \in Keys(s) : s[l].n = n
    BY <1>0, <2>1
  <2>3. QED BY <1>1, <1>4, <1>7, <2>1, <2>2
<1>10. {g[i].n : i \in Keys(g)} = (a + 1) + 1 .. b
  <2>1. \A x \in a + 1 .. b : x # a + 1 => x \in (a + 1) + 1 .. b
    OBVIOUS
  <2>2. \A x \in (a + 1) + 1 .. b : x \in a + 2 .. b
    OBVIOUS
  <2>3. QED BY <1>8, <1>9, <2>1, <2>2
<1>11. \A i, l \in Keys(g) : i < l => g[i].n < g[l].n
  <2> SUFFICES ASSUME NEW i \in Keys(g), NEW l \in Keys(g), i < l PROVE g[i].n < g[l].n
    OBVIOUS
  <2>1. i + 1 \in Keys(s) /\ l + 1 \in Keys(s) /\ i + 1 < l + 1 /\ s[i + 1] = g[i] /\ s[l + 1] = g[l]
    BY <1>3
  <2>2. QED BY <1>0, <2>1
<1>12. QED BY <1>7, <1>10, <1>11 DEF Ordered

(* How sequences of events are joined. *)
LEMMA Joined ==
  ASSUME NEW q \in Seq(Messages), NEW p \in Seq(Messages), NEW m \in Messages
  PROVE  /\ q \o p \in Seq(Messages) /\ <<>> \o q \o <<>> \o p = q \o p
         /\ <<m>> \o q \o <<>> \o p = <<m>> \o (q \o p)
         /\ <<>> \o q \o <<m>> \o p = q \o (<<m>> \o p)
         /\ Append(q, m) \o p = q \o (<<m>> \o p)
         /\ (<<m>> \o q) \o p = <<m>> \o (q \o p)
         /\ q \o Append(p, m) = Append(q \o p, m)
         /\ p # <<>> => Head(p) \in Messages /\ Tail(p) \in Seq(Messages) /\ p = <<Head(p)>> \o Tail(p)
OBVIOUS

(* The innermost procedure holds an event. *)
Passing == Running("dispatch") \/ Running("link")
(* All that is on the way, by what the innermost procedure is. *)
LEMMA FlowIs ==
  Inv => /\ InHand("dispatch") \o queue \o InHand("link") \in Seq(Messages)
         /\ Running("dispatch") => Flow = <<Top.m>> \o (queue \o pipe)
         /\ Running("link") => Flow = queue \o (<<Top.m>> \o pipe)
         /\ ~Passing => Flow = queue \o pipe
<1> SUFFICES ASSUME Inv
             PROVE  /\ InHand("dispatch") \o queue \o InHand("link") \in Seq(Messages)
                    /\ Running("dispatch") => Flow = <<Top.m>> \o (queue \o pipe)
                    /\ Running("link") => Flow = queue \o (<<Top.m>> \o pipe)
                    /\ ~Passing => Flow = queue \o pipe
  OBVIOUS
<1>1. queue \in Seq(Messages) /\ pipe \in Seq(Messages)
  BY DEF Inv, TypeOK
<1>2. Passing => Top.m \in Messages
  BY Innermosts DEF Inv, Passing, Running, Procedure
<1>3. ~(Running("dispatch") /\ Running("link"))
  BY DEF Running
<1>4. NoMessage \in Messages
  BY DEF NoMessage, Message, Messages
<1>5. InHand("dispatch") \in Seq(Messages) /\ InHand("link") \in Seq(Messages)
  BY <1>2 DEF InHand, Passing
<1>6. InHand("dispatch") \o queue \o InHand("link") \in Seq(Messages)
  BY <1>1, <1>5
<1>7. CASE Running("dispatch")
  <2>1. Flow = <<Top.m>> \o queue \o <<>> \o pipe
    BY <1>3, <1>7 DEF Flow, InHand
  <2>2. QED BY <1>1, <1>2, <1>3, <1>6, <1>7, <2>1, Joined DEF Passing
<1>8. CASE Running("link")
  <2>1. Flow = <<>> \o queue \o <<Top.m>> \o pipe
    BY <1>3, <1>8 DEF Flow, InHand
  <2>2. QED BY <1>1, <1>2, <1>3, <1>6, <1>8, <2>1, Joined DEF Passing
<1>9. CASE ~Passing
  <2>1. Flow = <<>> \o queue \o <<>> \o pipe
    BY <1>9 DEF Flow, InHand, Passing
  <2>2. QED BY <1>1, <1>4, <1>6, <1>9, <2>1, Joined DEF Passing
<1>10. QED BY <1>7, <1>8, <1>9 DEF Passing

(* Stacks whose innermost procedure holds no event. *)
Silent(s) == s # <<>> => Head(s).at \notin {"dispatch", "link"}

(* The innermost procedure of a stack. *)
LEMMA Topped ==
  ASSUME NEW S, NEW r \in Seq(S), NEW p
  PROVE  <<p>> \o r \in Seq(S \cup {p}) /\ <<p>> \o r # <<>> /\ Head(<<p>> \o r) = p
<1>1. r \in Seq(S \cup {p}) /\ p \in S \cup {p}
  OBVIOUS
<1>2. QED BY <1>1

(* Procedures that hold no event make such stacks, with or without a re-     *)
(* entry.                                                                    *)
LEMMA SilentTops ==
  ASSUME NEW S, NEW r \in Seq(S), NEW p, NEW level
  PROVE  /\ p.at \notin {"dispatch", "link"} => Silent(<<p>> \o r) /\ Silent(AfterUnblock(level, <<p>> \o r))
         /\ Silent(r) => Silent(AfterUnblock(level, r))
<1>1. Plain("reinvoke").at \notin {"dispatch", "link"}
  BY Plainly DEF Procedures
<1>2. ASSUME NEW T, NEW t \in Seq(T), Silent(t) PROVE Silent(AfterUnblock(level, t))
  BY <1>1, <1>2, Topped DEF Silent, AfterUnblock
<1>3. ASSUME p.at \notin {"dispatch", "link"} PROVE <<p>> \o r \in Seq(S \cup {p}) /\ Silent(<<p>> \o r)
  BY <1>3, Topped DEF Silent
<1>4. QED BY <1>2, <1>3

(* Only these steps leave an event in the hands of the innermost procedure. *)
LEMMA Quiet ==
  ASSUME Inv, Emacs, ~Link, ~Unlink, ~ReadPipe, ~ReceiveOther, ~ReceivePaint
  PROVE  ~Passing'
<1>1. Silent(stack') => ~Passing'
  BY DEF Silent, Passing, Running, Idle, Top
<1>2. stack \in Seq(Procedure) /\ <<>> \in Seq(Procedure)
  BY DEF Inv, TypeOK
<1>3. ~Idle => Callers \in Seq(Procedure)
  BY Innermosts DEF Inv
<1>4. CASE \/ \E paint \in BOOLEAN : CallRpc(paint)
           \/ StartWait \/ Select \/ Decide
  <2>1. stack' = <<>> \/ \E p : stack' = <<p>> /\ p.at \notin {"dispatch", "link"}
    BY <1>4 DEF CallRpc, StartWait, Select, Decide, Frame, Plain
  <2>2. QED BY <1>1, <2>1 DEF Silent
<1>5. CASE ReceiveAnswer
  <2>1. Callers = <<>>
    BY <1>5, Bottoms DEF Inv, ReceiveAnswer
  <2>2. Silent(stack')
    BY <1>2, <1>5, <2>1, SilentTops DEF ReceiveAnswer, Silent
  <2>3. QED BY <1>1, <2>2
<1>6. CASE ReadBlocked \/ ReadQueue \/ ReadNothing \/ DispatchKey
  <2> DEFINE q == Frame("free", Head(queue), Tail(queue), FALSE)
  <2>1. q.at = "free" /\ Plain("none").at = "none" /\ Plain("some").at = "some"
    BY DEF Plain, Frame
  <2>2. ~Idle /\ \E p \in {q, Plain("none"), Plain("some")} : stack' = <<p>> \o Callers
    BY <1>6 DEF ReadBlocked, ReadQueue, ReadNothing, DispatchKey, Running
  <2> HIDE DEF q
  <2>3. QED BY <1>1, <1>3, <2>1, <2>2, SilentTops
<1>7. CASE Free
  <2>1. ~Idle /\ Top \in Procedure
    BY <1>7, Innermosts DEF Inv, Free, Running
  <2>2. [Top EXCEPT !.at = "unlink"].at = "unlink"
    BY <2>1 DEF Procedure
  <2>3. QED BY <1>1, <1>3, <1>7, <2>1, <2>2, SilentTops DEF Free
<1>8. CASE DispatchOther
  <2>1. Plain("none").at = "none" /\ ~Idle
    BY <1>8 DEF Plain, Frame, DispatchOther, Running
  <2>2. QED BY <1>1, <1>3, <1>8, <2>1, SilentTops DEF DispatchOther
<1>9. CASE Reinvoke \/ Detect("check") \/ Detect("ready")
  <2>1. Plain("read").at = "read"
    BY DEF Plain, Frame
  <2>2. QED BY <1>1, <1>2, <1>9, <2>1, SilentTops DEF Reinvoke, Detect
<1>10. CASE Return
  <2>1. ~Idle /\ Top.at \in Reads
    BY <1>10 DEF Return, Reads
  <2>2. /\ Callers # <<>> /\ Callers \in Seq(Procedure) /\ Shape(Callers) /\ Callers[1].at \notin Innermost
        /\ Callers[1].at \in {"reinvoke", "check", "ready"}
    BY <2>1, Innermosts DEF Inv, Fits
  <2>3. Tail(Callers) \in Seq(Procedure) /\ Head(Callers) = Callers[1]
        /\ (Tail(Callers) # <<>> => Tail(Callers)[1].at \notin Innermost)
    BY <2>2, Returned
  <2>4. Silent(Callers) /\ Silent(Tail(Callers))
    BY <2>2, <2>3 DEF Silent, Innermost
  <2>5. Plain("select").at = "select" /\ Plain("decide").at = "decide"
    BY DEF Plain, Frame
  <2>6. QED BY <1>1, <1>10, <2>2, <2>3, <2>4, <2>5, SilentTops DEF Return
<1>11. CASE Allocate
  BY <1>1, <1>2, <1>11, SilentTops DEF Allocate, Silent
<1>12. CASE TakeEvent \/ SignalQuit
  BY <1>12 DEF TakeEvent, SignalQuit, Passing, Running, Idle
<1>13. QED BY <1>4, <1>5, <1>6, <1>7, <1>8, <1>9, <1>10, <1>11, <1>12 DEF Emacs

(* Every step but a C-g keeps the keys in order. *)
LEMMA InOrderStep == Inv /\ InOrder /\ [Next]_vars => InOrder'
<1> SUFFICES ASSUME Inv, InOrder, [Next]_vars, quits' = 0
             PROVE  /\ Len(typed') <= keys'
                    /\ typed' = [k \in 1 .. Len(typed') |-> k]
                    /\ Ordered(Flow', Len(typed'), keys')
  BY DEF InOrder
<1>1. quits = 0 /\ ~Interrupt /\ ~InterruptWait
  <2>1. quits \in Nat
    BY DEF Inv, TypeOK
  <2>2. CASE Interrupt \/ InterruptWait
    BY <2>1, <2>2 DEF Interrupt, InterruptWait
  <2>3. CASE ~Interrupt /\ ~InterruptWait
    BY <2>3 DEF Next, Emacs, Pmemacs, vars, world, CallRpc, ReceiveAnswer, ReceivePaint, ReceiveOther, Link,
       ReadBlocked, ReadQueue, Free, Unlink, ReadPipe, ReadNothing, DispatchKey, DispatchOther, Reinvoke,
       Return, Allocate, TakeEvent, StartWait, Detect, Select, Decide, SignalQuit, SendKey, SendOther, SendAnswer
  <2>4. QED BY <2>2, <2>3
<1>2. Len(typed) <= keys /\ typed = [k \in 1 .. Len(typed) |-> k] /\ Ordered(Flow, Len(typed), keys)
  BY <1>1 DEF InOrder
<1>3. /\ queue \in Seq(Messages) /\ pipe \in Seq(Messages) /\ typed \in Seq(Nat) /\ Len(typed) \in Nat
      /\ keys \in Nat
  BY DEF Inv, TypeOK
<1>4. /\ InHand("dispatch") \o queue \o InHand("link") \in Seq(Messages)
      /\ Running("dispatch") => Flow = <<Top.m>> \o (queue \o pipe)
      /\ Running("link") => Flow = queue \o (<<Top.m>> \o pipe)
      /\ ~Passing => Flow = queue \o pipe
  BY FlowIs
<1>5. Inv' /\ queue' \in Seq(Messages) /\ pipe' \in Seq(Messages)
  BY InvStep DEF Inv, TypeOK
<1>6. (/\ InHand("dispatch") \o queue \o InHand("link") \in Seq(Messages)
       /\ Running("dispatch") => Flow = <<Top.m>> \o (queue \o pipe)
       /\ Running("link") => Flow = queue \o (<<Top.m>> \o pipe)
       /\ ~Passing => Flow = queue \o pipe)'
  BY <1>5, FlowIs, PTL
<1>7. ~Idle => Top \in Procedure /\ Top.m \in Messages
  BY Innermosts DEF Inv, Procedure
<1>8. pipe # <<>> => Head(pipe) \in Messages /\ Tail(pipe) \in Seq(Messages) /\ pipe = <<Head(pipe)>> \o Tail(pipe)
  BY <1>3
<1>9. ASSUME NEW m \in Messages, pipe' = Append(pipe, m), UNCHANGED <<queue, stack>>
      PROVE  Flow' = Append(Flow, m) /\ Flow \in Seq(Messages)
  <2> DEFINE held == InHand("dispatch") \o queue \o InHand("link")
  <2>1. held' = held /\ Flow = held \o pipe /\ Flow' = held' \o pipe'
    BY <1>9 DEF Flow, InHand, Running, Idle, Top
  <2>2. held \in Seq(Messages)
    BY <1>4
  <2> HIDE DEF held
  <2>3. QED BY <1>3, <1>9, <2>1, <2>2, Joined
<1>0. ASSUME Flow' = Flow, UNCHANGED <<typed, keys>>
      PROVE  Len(typed') <= keys' /\ typed' = [k \in 1 .. Len(typed') |-> k] /\ Ordered(Flow', Len(typed'), keys')
  BY <1>2, <1>0
<1>10. CASE \/ \E paint \in BOOLEAN : CallRpc(paint)
            \/ ReadBlocked \/ ReadQueue \/ Free \/ ReadNothing
            \/ Reinvoke \/ Return \/ Allocate \/ TakeEvent \/ StartWait \/ Detect("check") \/ Detect("ready")
            \/ Select \/ Decide \/ SignalQuit
  <2>1. ~Passing
    BY <1>10 DEF Passing, Running, CallRpc, ReadBlocked, ReadQueue, Free, ReadNothing, Reinvoke, Return, Allocate,
       TakeEvent, StartWait, Detect, Select, Decide, SignalQuit
  <2>2. ~Passing'
    <3>1. /\ Emacs /\ ~Link /\ ~Unlink /\ ~ReadPipe /\ ~ReceiveOther /\ ~ReceivePaint
      BY <1>10 DEF Emacs, Running, Link, Unlink, ReadPipe, ReceiveOther, ReceivePaint,
       CallRpc, ReadBlocked, ReadQueue, Free, ReadNothing, Reinvoke, Return, Allocate,
       TakeEvent, StartWait, Detect, Select, Decide, SignalQuit
    <3>2. QED BY <3>1, Quiet
  <2>3. UNCHANGED <<queue, pipe, typed, keys>>
    BY <1>10 DEF input, world, CallRpc, ReadBlocked, ReadQueue, Free, ReadNothing, Reinvoke, Return, Allocate,
       TakeEvent, StartWait, Detect, Select, Decide, SignalQuit
  <2>4. QED BY <1>4, <1>6, <1>0, <2>1, <2>2, <2>3
<1>11. CASE SendKey
  <2> DEFINE m == Message("key", keys + 1)
  <2>1. m \in Messages /\ m.kind = "key" /\ m.n = keys + 1
    BY <1>3 DEF Message, Messages
  <2>2. UNCHANGED <<queue, stack, typed>> /\ pipe' = Append(pipe, m) /\ keys' = keys + 1
    BY <1>11 DEF SendKey
  <2> HIDE DEF m
  <2>3. Flow' = Append(Flow, m) /\ Flow \in Seq(Messages)
    BY <1>9, <2>1, <2>2
  <2>4. QED BY <1>2, <1>3, <2>1, <2>2, <2>3, KeyAdded
<1>12. CASE SendOther("paint") \/ SendOther("stale") \/ SendAnswer
  <2>1. PICK m \in Messages : m.kind # "key" /\ pipe' = Append(pipe, m)
    <3>1. /\ Message("paint", 0) \in Messages /\ Message("stale", 0) \in Messages /\ Message("answer", asked) \in Messages
          /\ Message("paint", 0).kind = "paint" /\ Message("stale", 0).kind = "stale"
          /\ Message("answer", asked).kind = "answer"
      BY DEF Message, Messages, Inv, TypeOK
    <3>2. QED BY <1>12, <3>1 DEF SendOther, SendAnswer
  <2>2. UNCHANGED <<queue, stack, typed, keys>>
    BY <1>12 DEF SendOther, SendAnswer
  <2>3. Flow' = Append(Flow, m) /\ Flow \in Seq(Messages)
    BY <1>9, <2>1, <2>2
  <2>4. QED BY <1>2, <1>3, <2>1, <2>2, <2>3, OtherCame
<1>13. CASE ReceiveAnswer \/ ReceivePaint
  <2>1. /\ ~Passing /\ pipe # <<>> /\ Head(pipe).kind # "key" /\ pipe' = Tail(pipe)
        /\ UNCHANGED <<queue, typed, keys>>
    BY <1>13 DEF ReceiveAnswer, ReceivePaint, Passing, Running, world
  <2>2. ~Passing'
    <3>1. CASE ReceivePaint
      BY <2>1, <3>1 DEF ReceivePaint, Passing, Running, Idle, Top
    <3>2. CASE ReceiveAnswer
      <4>1. Emacs /\ ~Link /\ ~Unlink /\ ~ReadPipe /\ ~ReceiveOther /\ ~ReceivePaint
        BY <3>2 DEF Emacs, ReceiveAnswer, Link, Unlink, ReadPipe, ReceiveOther, ReceivePaint, Running
      <4>2. QED BY <4>1, Quiet
    <3>3. QED BY <1>13, <3>1, <3>2
  <2>3. Ordered(queue \o (<<Head(pipe)>> \o Tail(pipe)), Len(typed), keys)
    BY <1>2, <1>4, <1>8, <2>1
  <2>4. Ordered(queue \o Tail(pipe), Len(typed), keys)
    BY <1>3, <1>8, <2>1, <2>3, OtherGone
  <2>5. QED BY <1>2, <1>6, <2>1, <2>2, <2>4
<1>14. CASE ReceiveOther
  <2>1. /\ ~Passing /\ pipe # <<>> /\ pipe' = Tail(pipe) /\ UNCHANGED <<queue, typed, keys>>
    BY <1>14 DEF ReceiveOther, Passing, Running, world
  <2>2. Running("link")' /\ Top'.m = Head(pipe)
    <3> DEFINE q == Frame("link", Head(pipe), <<>>, FALSE)
    <3>1. stack' = <<q>> \o stack
      BY <1>14, Bottoms DEF ReceiveOther, AfterUnblock, Inv, Blocking
    <3>2. q.at = "link" /\ q.m = Head(pipe)
      BY DEF Frame
    <3> HIDE DEF q
    <3>3. stack' # <<>> /\ Head(stack') = q
      BY <3>1, Topped DEF Inv, TypeOK
    <3>4. QED BY <3>2, <3>3 DEF Running, Idle, Top
  <2>3. QED BY <1>4, <1>6, <1>8, <1>0, <2>1, <2>2
<1>15. CASE Link
  <2>1. Running("link") /\ queue' = Append(queue, Top.m) /\ UNCHANGED <<pipe, typed, keys>>
    BY <1>15 DEF Link, world
  <2>2. ~Passing'
    <3>1. /\ ~Idle /\ Callers \in Seq(Procedure)
          /\ Callers # <<>> => Callers[1].at \notin Innermost
      BY <2>1, Innermosts DEF Inv, Running
    <3>2. QED BY <1>15, <3>1 DEF Link, Passing, Running, Idle, Top, Innermost
  <2>3. Flow' = Append(queue, Top.m) \o pipe /\ Top.m \in Messages
    BY <1>6, <1>7, <2>1, <2>2 DEF Running
  <2>4. QED BY <1>3, <1>4, <1>0, <2>1, <2>3, Joined
<1>16. CASE Unlink
  <2>1. ~Passing /\ ~Idle /\ queue' = Top.rest /\ UNCHANGED <<pipe, typed, keys>>
        /\ queue # <<>> /\ Top.m = Head(queue) /\ Top.rest = Tail(queue)
    BY <1>16 DEF Unlink, Passing, Running, world, Inv, CellHeld
  <2>2. Running("dispatch")' /\ Top'.m = Top.m
    <3> DEFINE q == Frame("dispatch", Top.m, <<>>, FALSE)
    <3>1. stack' = <<q>> \o Callers /\ Callers \in Seq(Procedure)
      BY <1>16, <2>1, Innermosts DEF Unlink, Inv
    <3>2. q.at = "dispatch" /\ q.m = Top.m
      BY DEF Frame
    <3> HIDE DEF q
    <3>3. stack' # <<>> /\ Head(stack') = q
      BY <3>1, Topped
    <3>4. QED BY <3>2, <3>3 DEF Running, Idle, Top
  <2>3. queue = <<Top.m>> \o Tail(queue) /\ Tail(queue) \in Seq(Messages) /\ Top.m \in Messages
    BY <1>3, <1>7, <2>1
  <2>4. Flow' = <<Top.m>> \o (Tail(queue) \o pipe)
    BY <1>6, <2>1, <2>2
  <2>5. (<<Top.m>> \o Tail(queue)) \o pipe = <<Top.m>> \o (Tail(queue) \o pipe)
    BY <1>3, <2>3, Joined
  <2>6. QED BY <1>4, <1>0, <2>1, <2>3, <2>4, <2>5
<1>17. CASE ReadPipe
  <2>1. ~Passing /\ ~Idle /\ pipe # <<>> /\ pipe' = Tail(pipe) /\ queue = <<>> /\ UNCHANGED <<queue, typed, keys>>
    BY <1>17 DEF ReadPipe, Passing, Running, world
  <2>2. Running("dispatch")' /\ Top'.m = Head(pipe)
    <3> DEFINE q == Frame("dispatch", Head(pipe), <<>>, FALSE)
    <3>1. stack' = <<q>> \o Callers /\ Callers \in Seq(Procedure)
      BY <1>17, <2>1, Innermosts DEF ReadPipe, Inv
    <3>2. q.at = "dispatch" /\ q.m = Head(pipe)
      BY DEF Frame
    <3> HIDE DEF q
    <3>3. stack' # <<>> /\ Head(stack') = q
      BY <3>1, Topped
    <3>4. QED BY <3>2, <3>3 DEF Running, Idle, Top
  <2>3. <<>> \o pipe = pipe /\ <<>> \o pipe' = pipe'
    BY <1>3, <1>5
  <2>4. QED BY <1>4, <1>6, <1>8, <1>0, <2>1, <2>2, <2>3
<1>18. CASE DispatchKey \/ DispatchOther
  <2>1. Running("dispatch") /\ UNCHANGED <<queue, pipe, keys>>
    BY <1>18 DEF DispatchKey, DispatchOther, input, world
  <2>2. ~Passing'
    <3>1. Emacs /\ ~Link /\ ~Unlink /\ ~ReadPipe /\ ~ReceiveOther /\ ~ReceivePaint
      BY <1>18, <2>1 DEF Emacs, Link, Unlink, ReadPipe, ReceiveOther, ReceivePaint, Running
    <3>2. QED BY <3>1, Quiet
  <2>3. Flow' = queue \o pipe /\ queue \o pipe \in Seq(Messages) /\ Top.m \in Messages
        /\ Ordered(<<Top.m>> \o (queue \o pipe), Len(typed), keys)
    <3>1. Flow' = queue \o pipe
      BY <1>6, <2>1, <2>2
    <3>2. queue \o pipe \in Seq(Messages)
      BY <1>3
    <3>3. Top.m \in Messages
      BY <1>7, <2>1 DEF Running
    <3>4. Ordered(<<Top.m>> \o (queue \o pipe), Len(typed), keys)
      BY <1>2, <1>4, <2>1
    <3>5. QED BY <3>1, <3>2, <3>3, <3>4
  <2>4. CASE DispatchKey
    <3>1. Top.m.kind = "key" /\ typed' = Append(typed, Top.m.n)
      BY <2>4 DEF DispatchKey
    <3>2. /\ Top.m.n = Len(typed) + 1 /\ Len(typed) + 1 <= keys
          /\ Ordered(queue \o pipe, Len(typed) + 1, keys)
      BY <1>3, <2>3, <3>1, KeyGone
    <3>3. Len(typed') = Len(typed) + 1 /\ typed' = [k \in 1 .. Len(typed') |-> k]
      BY <1>2, <1>3, <3>1, <3>2
    <3>4. QED BY <2>1, <2>3, <3>2, <3>3
  <2>5. CASE DispatchOther
    <3>1. Top.m.kind # "key" /\ typed' = typed
      BY <2>5 DEF DispatchOther, input
    <3>2. <<>> \o (<<Top.m>> \o (queue \o pipe)) = <<Top.m>> \o (queue \o pipe)
          /\ <<>> \o (queue \o pipe) = queue \o pipe /\ <<>> \in Seq(Messages)
      BY <2>3
    <3>3. Ordered(queue \o pipe, Len(typed), keys)
      <4>1. Ordered(<<>> \o (<<Top.m>> \o (queue \o pipe)), Len(typed), keys)
        BY <2>3, <3>2
      <4>2. Ordered(<<>> \o (queue \o pipe), Len(typed), keys)
        BY <2>3, <3>1, <3>2, <4>1, OtherGone
      <4>3. QED BY <3>2, <4>2
    <3>4. QED BY <1>2, <2>1, <2>3, <3>1, <3>3
  <2>6. QED BY <1>18, <2>4, <2>5
<1>19. CASE UNCHANGED vars
  BY <1>0, <1>19 DEF vars, input, flags, world, Flow, InHand, Running, Idle, Top
<1>20. QED BY <1>1, <1>10, <1>11, <1>12, <1>13, <1>14, <1>15, <1>16, <1>17, <1>18, <1>19 DEF Next, Emacs, Pmemacs

(* No key is lost or overtaken however deeply UNBLOCK_INPUT re-enters the    *)
(* event code: for any number of keys, events and requests, until a C-g.     *)
THEOREM KeysInOrder == Spec => []NothingLost
<1>1. Init => InOrder
  <2> SUFFICES ASSUME Init PROVE InOrder
    OBVIOUS
  <2>1. Flow = <<>> /\ Len(typed) = 0 /\ keys = 0 /\ typed = <<>>
    BY DEF Init, Flow, InHand, Running, Idle
  <2>2. Keys(<<>>) = {}
    BY DEF Keys
  <2>3. QED BY <2>1, <2>2 DEF InOrder, Ordered
<1>2. InOrder => NothingLost
  BY DEF InOrder, Ordered, NothingLost
<1>3. QED BY <1>1, <1>2, InOrderStep, Invariance, PTL DEF Spec
=============================================================================
