-------------------------- MODULE SubprocessProofs --------------------------
(***************************************************************************)
(* Proofs about Subprocess, for any processes, output and depth of calls:  *)
(* a change of status is never slept through, and a sentinel runs once,    *)
(* after all the output.  The argument is the order in which processes     *)
(* were started: the list is always in that order, and the links of        *)
(* processes taken off it lead back to it, so that the walk delete-process *)
(* starts comes to the process deleted whatever filters do to the list.    *)
(***************************************************************************)
EXTENDS Subprocess, SequenceTheorems, FiniteSetTheorems, TLAPS

Kinds == {"command", "keyboard", "accept", "call", "filter", "sentinel", "notify", "delete"}
Stages == {"run", "check", "ready", "masked", "redisplay", "armed", "select", "serve", "drain",
           "visit", "read"}
Frames == [kind : Kinds, proc : Procs \cup {Nil}, stage : Stages, avail : SUBSET Procs,
           zapped : BOOLEAN, missed : BOOLEAN]
Process == [listed : BOOLEAN, open : BOOLEAN, mask : BOOLEAN, tick : Nat, update : Nat,
            raw : {"none", "exit", "signal"}, status : {"run", "exit", "signal"},
            sentinel : BOOLEAN]
Synch == [child : {"none", "alive", "exit"}, retcode : {"none", "own", "other"}, death : BOOLEAN]

Types ==
  /\ child \in [Procs -> {"none", "alive", "exit", "signal", "reaped"}]
  /\ pipe \in [Procs -> Nat] /\ written \in [Procs -> Nat] /\ heard \in [Procs -> Nat]
  /\ told \in [Procs -> Nat] /\ nested \subseteq Procs
  /\ sigchld \in Nat /\ synch \in Synch
  /\ proc \in [Procs -> Process]
  /\ next \in [Procs \cup {Nil} -> Procs \cup {Nil}]
  /\ ticks \in [process : Nat, update : Nat] /\ ticks.update <= ticks.process
  /\ stack \in Seq(Frames)

(* Every SIGCHLD that waits is that of a child that has died.                *)
Dead == {p \in Procs : child[p] \in {"exit", "signal"}}
DeadOfCall == IF synch.child = "exit" THEN 1 ELSE 0
Counted == sigchld = Cardinality(Dead) + DeadOfCall

Started(p) == child[p] # "none"

(* The walk at I reads the rest of the output of P.                          *)
Reading(i, p) == stack[i].kind = "notify" /\ stack[i].stage = "read" /\ stack[i].proc = p

(* What holds of the function at I: a wait for the keyboard that was         *)
(* interrupted looks for changes again, or does not block; a sentinel was    *)
(* called by a walk that has just removed its process.                       *)
Fits(i) ==
  /\ stack[i].kind \in {"accept", "sentinel", "delete"} => stack[i].proc \in Procs
  /\ stack[i].proc \in Procs => Started(stack[i].proc)
  /\ stack[i].kind = "notify" =>
       stack[i].stage = "visit" \/ (stack[i].stage = "read" /\ stack[i].proc \in Procs)
  /\ stack[i].kind = "keyboard" /\ i < Len(stack) => stack[i].stage = "check" \/ stack[i].zapped
  /\ stack[i].kind = "sentinel" =>
       /\ i > 1 /\ stack[i - 1].kind = "notify" /\ stack[i - 1].stage = "visit"
       /\ stack[i - 1].proc = stack[i].proc /\ ~proc[stack[i].proc].open
Shape ==
  /\ Len(stack) > 0 /\ stack[1].kind = "command"
  /\ \A i \in 1 .. Len(stack) : Fits(i)

(* From its look at what changed to its select, the wait for the keyboard    *)
(* knows of all there is to report, will not block, or was interrupted while *)
(* it displayed.                                                             *)
Bound == {"ready", "masked", "redisplay", "armed", "select"}
News ==
  Top.kind = "keyboard" /\ Top.stage \in Bound /\ ~Top.zapped /\ ~Top.missed => ~Changed

(* A process is on the list as long as its pipe is open, and only then has   *)
(* it news; its output is in the pipe or was heard until then.  It is told   *)
(* of only when it goes, unless a walk was entered from its last filter.     *)
Listing(p) ==
  /\ proc[p].listed <=> proc[p].open
  /\ proc[p].mask => proc[p].open
  /\ ~proc[p].open => proc[p].tick = proc[p].update
  /\ proc[p].update <= proc[p].tick /\ proc[p].tick <= ticks.process
  /\ proc[p].open => Started(p) /\ told[p] = 0
  /\ ~Started(p) => told[p] = 0
Output(p) ==
  /\ heard[p] + pipe[p] <= written[p] /\ written[p] <= MaxOutput
  /\ proc[p].open => heard[p] + pipe[p] = written[p]
  /\ ~Started(p) => written[p] = 0
Telling(p) ==
  p \notin nested => told[p] <= 1 /\ \A i \in 1 .. Len(stack) : Reading(i, p) => proc[p].open
Books == \A p \in Procs : Listing(p) /\ Output(p) /\ Telling(p)

(* Processes are ranked by age, below N.  What follows one on the list is    *)
(* older, and no listed process lies between: this holds too of the link     *)
(* that a process taken off the list keeps.                                  *)
Ages(rank, N) == \A q \in Procs : Started(q) => rank[q] < N
Distinct(rank) ==
  \A p, q \in Procs : Started(p) /\ Started(q) /\ rank[p] = rank[q] => p = q
Linked(rank) ==
  /\ \A q \in Procs : next[q] \in Procs => /\ Started(q) /\ Started(next[q])
                                           /\ rank[next[q]] < rank[q]
  /\ next[Nil] \in Procs => Started(next[Nil])
Skipless(rank) ==
  /\ \A p, q \in Procs : Started(q) /\ proc[p].listed /\ rank[p] < rank[q] =>
       next[q] \in Procs /\ rank[p] <= rank[next[q]]
  /\ \A p \in Procs : proc[p].listed => next[Nil] \in Procs /\ rank[p] <= rank[next[Nil]]
Order(rank, N) == Ages(rank, N) /\ Distinct(rank) /\ Linked(rank) /\ Skipless(rank)

(* While delete-process waits at I for its walk, the process deleted is      *)
(* ahead of the walk, or being reported.                                     *)
Pending(rank, i, p) ==
  /\ i < Len(stack) /\ stack[i + 1].kind = "notify" /\ stack[i + 1].proc \in Procs
  /\ rank[p] <= rank[stack[i + 1].proc]
  /\ proc[p].tick # proc[p].update \/ \E k \in i + 1 .. Len(stack) : Reading(k, p)
Deletes(rank) ==
  \A i \in 1 .. Len(stack) :
    stack[i].kind = "delete" /\ proc[stack[i].proc].open => Pending(rank, i, stack[i].proc)
Ordered == \E rank \in [Procs -> Nat] : \E N \in Nat : Order(rank, N) /\ Deletes(rank)

Inv == Types /\ Counted /\ Shape /\ News /\ Books /\ Ordered

-----------------------------------------------------------------------------
(* Steps and the stack.  The functions up to M go on as they were.           *)
Keeps(m) ==
  /\ m \in 1 .. Len(stack) /\ m <= Len(stack')
  /\ \A i \in 1 .. m : stack'[i] = stack[i]

(* A function calls another.                                                 *)
LEMMA Pushed ==
  ASSUME Types, Shape, NEW f \in Frames, stack' = Append(stack, f)
  PROVE  /\ stack' \in Seq(Frames) /\ Len(stack') = Len(stack) + 1 /\ stack'[Len(stack) + 1] = f
         /\ Keeps(Len(stack)) /\ \A i \in Len(stack) + 1 .. Len(stack') : i = Len(stack) + 1
  BY DEF Types, Shape, Keeps

(* delete-process and the walk it calls are put on the stack together.       *)
LEMMA TwoPushed ==
  ASSUME Types, Shape, NEW f \in Frames, NEW g \in Frames, stack' = stack \o <<f, g>>
  PROVE  /\ stack' \in Seq(Frames) /\ Len(stack') = Len(stack) + 2
         /\ stack'[Len(stack) + 1] = f /\ stack'[Len(stack) + 2] = g
         /\ Keeps(Len(stack))
         /\ \A i \in Len(stack) + 1 .. Len(stack') : i = Len(stack) + 1 \/ i = Len(stack) + 2
  BY DEF Types, Shape, Keeps

(* The innermost function goes on as F.                                      *)
Becomes(f) == stack' = [stack EXCEPT ![Len(stack)] = f]

(* Such a step leaves every frame below the innermost alone.                 *)
LEMMA Replaced ==
  ASSUME Types, Shape, Top.kind # "command", NEW f \in Frames, Becomes(f)
  PROVE  /\ stack' \in Seq(Frames) /\ Len(stack') = Len(stack) /\ stack'[Len(stack)] = f
         /\ Keeps(Len(stack) - 1) /\ \A i \in (Len(stack) - 1) + 1 .. Len(stack') : i = Len(stack)
  BY DEF Types, Shape, Keeps, Top, Becomes

(* The innermost function goes on as F, and calls G.                         *)
LEMMA ReplacedPushed ==
  ASSUME Types, Shape, Top.kind # "command", NEW f \in Frames, NEW g \in Frames,
         stack' = Append([stack EXCEPT ![Len(stack)] = f], g)
  PROVE  /\ stack' \in Seq(Frames) /\ Len(stack') = Len(stack) + 1 /\ stack'[Len(stack)] = f
         /\ stack'[Len(stack) + 1] = g /\ Keeps(Len(stack) - 1)
         /\ \A i \in (Len(stack) - 1) + 1 .. Len(stack') : i = Len(stack) \/ i = Len(stack) + 1
<1> DEFINE s == [stack EXCEPT ![Len(stack)] = f]
<1>1. /\ s \in Seq(Frames) /\ Len(s) = Len(stack) /\ s[Len(stack)] = f /\ Len(stack) \in Nat
      /\ Len(stack) > 1 /\ \A i \in 1 .. Len(stack) - 1 : s[i] = stack[i]
  BY DEF Types, Shape, Top
<1> HIDE DEF s
<1>2. stack' = Append(s, g)
  BY DEF s
<1>3. /\ stack' \in Seq(Frames) /\ Len(stack') = Len(stack) + 1 /\ stack'[Len(stack) + 1] = g
      /\ \A i \in 1 .. Len(stack) : stack'[i] = s[i]
  <2>1. g \in Frames
    OBVIOUS
  <2>2. /\ Append(s, g) \in Seq(Frames) /\ Len(Append(s, g)) = Len(s) + 1
        /\ \A i \in 1 .. Len(s) : Append(s, g)[i] = s[i]
        /\ Append(s, g)[Len(s) + 1] = g
    BY <1>1, <2>1, AppendProperties
  <2> QED BY <1>1, <1>2, <2>2
<1>4. /\ stack'[Len(stack)] = f /\ Len(stack) - 1 \in 1 .. Len(stack) /\ Len(stack) - 1 <= Len(stack')
      /\ \A i \in 1 .. Len(stack) - 1 : stack'[i] = stack[i]
  BY <1>1, <1>3
<1>5. \A i \in (Len(stack) - 1) + 1 .. Len(stack') : i = Len(stack) \/ i = Len(stack) + 1
  BY <1>1, <1>3
<1> QED BY <1>3, <1>4, <1>5 DEF Keeps

(* The innermost function returns.                                           *)
LEMMA Popped ==
  ASSUME Types, Shape, Top.kind # "command", stack' = Pop
  PROVE  /\ stack' \in Seq(Frames) /\ Len(stack') = Len(stack) - 1 /\ Keeps(Len(stack) - 1)
         /\ \A i \in (Len(stack) - 1) + 1 .. Len(stack') : FALSE
  BY DEF Types, Shape, Keeps, Top, Pop

(* The function in progress is a frame.                                      *)
LEMMA TopFrame ==
  ASSUME Types, Shape
  PROVE  /\ Top \in Frames /\ Len(stack) \in Nat /\ Len(stack) \in 1 .. Len(stack)
         /\ Top.kind \in Kinds /\ Top.proc \in Procs \cup {Nil} /\ Top.stage \in Stages
         /\ Top.avail \in SUBSET Procs /\ Top.zapped \in BOOLEAN /\ Top.missed \in BOOLEAN
         /\ Fits(Len(stack)) /\ Top = stack[Len(stack)]
         /\ Top.kind # "command" => Len(stack) > 1
<1>1. Len(stack) \in Nat /\ Len(stack) \in 1 .. Len(stack)
  BY DEF Types, Shape
<1>2. Top \in Frames
  BY <1>1 DEF Types, Top
<1>3. Top.kind # "command" => Len(stack) > 1
  BY <1>1 DEF Shape, Top
<1> QED BY <1>1, <1>2, <1>3 DEF Frames, Shape, Top

(* Functions that go on still fit: processes stay started, and a process     *)
(* that was removed is not opened again.                                     *)
Removals ==
  \A p \in Procs : Started(p) => Started(p)' /\ (proc'[p].open => proc[p].open)

(* The functions up to M still fit; those above it are left to the step.     *)
LEMMA ShapeKept ==
  ASSUME Types, Shape, Removals, NEW m \in Nat, Keeps(m), Len(stack') \in Nat,
         m = Len(stack) /\ m < Len(stack') => stack[m].kind # "keyboard",
         \A i \in m + 1 .. Len(stack') : Fits(i)'
  PROVE  Shape'
<1>1. /\ m \in 1 .. Len(stack) /\ m <= Len(stack') /\ Len(stack) \in Nat
      /\ \A i \in 1 .. m : stack'[i] = stack[i]
  BY DEF Keeps, Types
<1>2. ASSUME NEW i \in 1 .. m PROVE Fits(i)'
  <2>1. stack'[i] = stack[i] /\ Fits(i) /\ i \in Nat
    BY <1>1 DEF Shape
  <2>2. (stack[i].proc \in Procs => Started(stack[i].proc))'
    BY <2>1 DEF Fits, Removals
  <2>3. stack'[i].kind = "keyboard" /\ i < Len(stack') => stack'[i].stage = "check" \/ stack'[i].zapped
    <3>1. CASE i < Len(stack)
      BY <2>1, <3>1 DEF Fits
    <3>2. CASE ~(i < Len(stack))
      <4>1. i = m /\ m = Len(stack)
        BY <1>1, <3>2
      <4> QED BY <2>1, <4>1
    <3> QED BY <3>1, <3>2
  <2>4. stack'[i].kind = "sentinel" =>
          /\ i > 1 /\ stack'[i - 1].kind = "notify" /\ stack'[i - 1].stage = "visit"
          /\ stack'[i - 1].proc = stack'[i].proc /\ ~proc'[stack'[i].proc].open
    <3> SUFFICES ASSUME stack'[i].kind = "sentinel"
                 PROVE  /\ i > 1 /\ stack'[i - 1].kind = "notify" /\ stack'[i - 1].stage = "visit"
                        /\ stack'[i - 1].proc = stack'[i].proc /\ ~proc'[stack'[i].proc].open
      OBVIOUS
    <3>1. i > 1 /\ i - 1 \in 1 .. m
      BY <1>1, <2>1 DEF Fits
    <3>2. stack'[i - 1] = stack[i - 1]
      BY <1>1, <3>1
    <3>3. stack[i].proc \in Procs /\ Started(stack[i].proc) /\ ~proc[stack[i].proc].open
      BY <2>1 DEF Fits
    <3>4. ~proc'[stack[i].proc].open
      BY <3>3 DEF Removals
    <3> QED BY <2>1, <3>1, <3>2, <3>4 DEF Fits
  <2> QED BY <2>1, <2>2, <2>3, <2>4 DEF Fits
<1>3. \A i \in 1 .. Len(stack') : i \in 1 .. m \/ i \in m + 1 .. Len(stack')
  BY <1>1
<1>4. Len(stack') > 0 /\ stack'[1].kind = "command"
  BY <1>1 DEF Shape
<1> QED BY <1>2, <1>3, <1>4 DEF Shape

(* A deletion in progress goes on: the walk it waits for still has the       *)
(* process ahead, and new news, or a walk that reports it.                   *)
LEMMA DeletesKept ==
  ASSUME Types, Shape, Removals, NEW rank, Deletes(rank), NEW m \in Nat, Keeps(m), Len(stack') \in Nat,
         \A p \in Procs : proc'[p].open /\ proc[p].tick # proc[p].update =>
           \/ proc'[p].tick # proc'[p].update
           \/ \E k \in m + 1 .. Len(stack') : Reading(k, p)',
         \A k \in m + 1 .. Len(stack), p \in Procs :
           Reading(k, p) /\ proc'[p].open => k <= Len(stack') /\ Reading(k, p)',
         stack[m].kind = "delete" /\ proc'[stack[m].proc].open /\ Pending(rank, m, stack[m].proc) =>
           /\ m < Len(stack') /\ stack'[m + 1].kind = "notify" /\ stack'[m + 1].proc \in Procs
           /\ rank[stack[m].proc] <= rank[stack'[m + 1].proc],
         \A i \in m + 1 .. Len(stack') :
           stack'[i].kind = "delete" /\ proc'[stack'[i].proc].open => Pending(rank, i, stack[i].proc)'
  PROVE  Deletes(rank)'
<1>1. /\ m \in 1 .. Len(stack) /\ m <= Len(stack') /\ Len(stack) \in Nat
      /\ \A i \in 1 .. m : stack'[i] = stack[i]
  BY DEF Keeps, Types
<1>2. ASSUME NEW i \in 1 .. m, stack'[i].kind = "delete", proc'[stack'[i].proc].open
      PROVE  Pending(rank, i, stack[i].proc)'
  <2>0. stack'[i] = stack[i] /\ i \in 1 .. Len(stack) /\ stack[i].proc \in Procs /\ i \in Nat
    BY <1>1, <1>2 DEF Shape, Fits
  <2> PICK p \in Procs : p = stack[i].proc
    BY <2>0
  <2>1. stack'[i] = stack[i] /\ i \in 1 .. Len(stack) /\ Started(p) /\ i \in Nat
    BY <2>0 DEF Shape, Fits
  <2>2. Pending(rank, i, p) /\ proc'[p].open
    BY <1>2, <2>1 DEF Deletes, Removals
  <2>3. /\ i < Len(stack') /\ stack'[i + 1].kind = "notify" /\ stack'[i + 1].proc \in Procs
        /\ rank[p] <= rank[stack'[i + 1].proc]
    <3>1. CASE i = m
      BY <1>2, <2>1, <2>2, <3>1
    <3>2. CASE i # m
      <4>1. i + 1 \in 1 .. m /\ i < Len(stack')
        BY <1>1, <3>2
      <4> QED BY <1>1, <2>2, <4>1 DEF Pending
    <3> QED BY <3>1, <3>2
  <2>4. proc'[p].tick # proc'[p].update \/ \E k \in i + 1 .. Len(stack') : Reading(k, p)'
    <3>1. CASE proc[p].tick # proc[p].update
      <4>1. \A k \in m + 1 .. Len(stack') : k \in i + 1 .. Len(stack')
        BY <1>1, <2>1
      <4> QED BY <2>1, <2>2, <3>1, <4>1
    <3>2. ASSUME NEW k \in i + 1 .. Len(stack), Reading(k, p)
          PROVE  \E j \in i + 1 .. Len(stack') : Reading(j, p)'
      <4>1. CASE k <= m
        <5>1. k \in 1 .. m /\ k \in i + 1 .. Len(stack')
          BY <1>1, <2>1, <4>1
        <5>2. Reading(k, p)'
          BY <1>1, <3>2, <5>1 DEF Reading
        <5> QED BY <5>1, <5>2
      <4>2. CASE ~(k <= m)
        <5>1. k \in m + 1 .. Len(stack)
          BY <1>1, <2>1, <4>2
        <5>2. k <= Len(stack') /\ Reading(k, p)'
          BY <2>1, <2>2, <3>2, <5>1
        <5>3. k \in i + 1 .. Len(stack')
          BY <2>1, <5>2
        <5> QED BY <5>2, <5>3
      <4> QED BY <4>1, <4>2
    <3> QED BY <2>2, <3>1, <3>2 DEF Pending
  <2> QED BY <2>1, <2>3, <2>4 DEF Pending
<1>3. \A i \in 1 .. Len(stack') : i \in 1 .. m \/ i \in m + 1 .. Len(stack')
  BY <1>1
<1> QED BY <1>2, <1>3 DEF Deletes

(* The order of the list stays when no process is started or removed.        *)
LEMMA OrderKept ==
  ASSUME NEW rank, NEW N, Order(rank, N), next' = next,
         \A p \in Procs : (Started(p)' <=> Started(p)) /\ (proc'[p].listed => proc[p].listed)
  PROVE  Order(rank, N)'
<1>1. Ages(rank, N)'
  BY DEF Order, Ages
<1>2. Distinct(rank)'
  BY DEF Order, Distinct
<1>3. Linked(rank)'
  BY DEF Order, Linked
<1>4. Skipless(rank)'
  BY DEF Order, Skipless
<1> QED BY <1>1, <1>2, <1>3, <1>4 DEF Order

-----------------------------------------------------------------------------
(* What a step may leave alone.  The functions up to M go on; those the step *)
(* ends do not walk the list, or are at its end, and none it calls is a      *)
(* delete-process or reads the rest of an output.                            *)
Quiet(m) ==
  /\ Keeps(m)
  /\ \/ m = Len(stack)
     \/ m = Len(stack) - 1 /\ (Top.kind = "notify" => Top.stage = "visit" /\ Top.proc = Nil)
  /\ \A i \in m + 1 .. Len(stack') :
       stack'[i].kind # "delete" /\ (stack'[i].kind = "notify" => stack'[i].stage = "visit")
SameRecord(p) ==
  /\ proc'[p].listed = proc[p].listed /\ proc'[p].open = proc[p].open
  /\ proc'[p].mask = proc[p].mask /\ proc'[p].tick = proc[p].tick
  /\ proc'[p].update = proc[p].update

(* A quiet step that starts or removes no process keeps the order.           *)
LEMMA OrderedKept ==
  ASSUME Types, Shape, Removals, Ordered, NEW m \in Nat, Quiet(m), Len(stack') \in Nat,
         next' = next,
         \A p \in Procs :
           /\ Started(p)' <=> Started(p)
           /\ proc'[p].listed => proc[p].listed
           /\ proc'[p].open /\ proc[p].tick # proc[p].update => proc'[p].tick # proc'[p].update
  PROVE  Ordered'
<1> PICK rank \in [Procs -> Nat], N \in Nat : Order(rank, N) /\ Deletes(rank)
  BY DEF Ordered
<1>1. Order(rank, N)'
  BY OrderKept
<1>2. /\ m \in 1 .. Len(stack) /\ m <= Len(stack') /\ Len(stack) \in Nat
      /\ \A i \in 1 .. m : stack'[i] = stack[i]
  BY DEF Quiet, Keeps, Types
<1>3. \A k \in m + 1 .. Len(stack) : k = Len(stack) /\ m = Len(stack) - 1
  BY <1>2 DEF Quiet
<1>4. \A k \in m + 1 .. Len(stack), p \in Procs : ~Reading(k, p)
  BY <1>3 DEF Quiet, Reading, Top
<1>5. ~Pending(rank, m, stack[m].proc)
  <2>1. CASE m = Len(stack)
    BY <1>2, <2>1 DEF Pending
  <2>2. CASE m = Len(stack) - 1 /\ (Top.kind = "notify" => Top.stage = "visit" /\ Top.proc = Nil)
    <3>1. m + 1 = Len(stack)
      BY <1>2, <2>2
    <3> QED BY <2>2, <3>1, ProcAssumption DEF Pending, Top
  <2> QED BY <2>1, <2>2 DEF Quiet
<1>6. \A i \in m + 1 .. Len(stack') : stack'[i].kind # "delete"
  BY DEF Quiet
<1>7. Keeps(m)
  BY DEF Quiet
<1>8. Deletes(rank)'
  BY <1>4, <1>5, <1>6, <1>7, DeletesKept
<1> QED BY <1>1, <1>8 DEF Ordered

(* The books of a process that a step does not touch stay as they are.       *)
LEMMA ListingKept ==
  ASSUME Types, NEW p \in Procs, Listing(p), SameRecord(p), Started(p) => Started(p)',
         told'[p] = told[p], ticks'.process \in Nat, ticks'.process >= ticks.process
  PROVE  Listing(p)'
<1>1. proc[p] \in Process
  BY DEF Types
<1>2. proc[p].tick \in Nat /\ proc[p].update \in Nat /\ ticks.process \in Nat
  BY <1>1 DEF Process, Types
<1> QED BY <1>2 DEF Listing, SameRecord

(* The counts of output of a process that a step does not touch.             *)
LEMMA OutputKept ==
  ASSUME NEW p \in Procs, Output(p), proc'[p].open => proc[p].open, Started(p) => Started(p)',
         heard'[p] = heard[p], pipe'[p] = pipe[p], written'[p] = written[p]
  PROVE  Output(p)'
  BY DEF Output

(* What is told of a process, when no walk begins to read its output.        *)
LEMMA TellingKept ==
  ASSUME Types, NEW p \in Procs, Telling(p), proc'[p].open = proc[p].open,
         told'[p] = told[p], p \notin nested' => p \notin nested, NEW m \in Nat, Keeps(m), Len(stack') \in Nat,
         \A i \in m + 1 .. Len(stack') : Reading(i, p)' => proc[p].open
  PROVE  Telling(p)'
<1>1. /\ m \in 1 .. Len(stack) /\ m <= Len(stack') /\ Len(stack) \in Nat
      /\ \A i \in 1 .. m : stack'[i] = stack[i]
  BY DEF Keeps, Types
<1>2. ASSUME p \notin nested', NEW i \in 1 .. Len(stack'), Reading(i, p)'
      PROVE  proc'[p].open
  <2>1. CASE i \in 1 .. m
    <3>1. i \in 1 .. Len(stack) /\ Reading(i, p)
      BY <1>1, <1>2, <2>1 DEF Reading
    <3> QED BY <1>2, <3>1 DEF Telling
  <2>2. CASE i \in m + 1 .. Len(stack')
    BY <1>2, <2>2
  <2>3. i \in 1 .. m \/ i \in m + 1 .. Len(stack')
    BY <1>1
  <2> QED BY <2>1, <2>2, <2>3
<1> QED BY <1>2 DEF Telling

(* A quiet step that leaves all records and all output alone keeps the books. *)
LEMMA BooksKept ==
  ASSUME Types, Books, NEW m \in Nat, Quiet(m), Len(stack') \in Nat,
         \A p \in Procs : SameRecord(p) /\ (Started(p) => Started(p)'),
         pipe' = pipe, written' = written, heard' = heard, told' = told, nested' = nested,
         ticks'.process \in Nat, ticks'.process >= ticks.process
  PROVE  Books'
<1>1. ASSUME NEW p \in Procs PROVE Listing(p)' /\ Output(p)' /\ Telling(p)'
  <2>1. Listing(p) /\ Output(p) /\ Telling(p) /\ SameRecord(p) /\ (Started(p) => Started(p)')
    BY DEF Books
  <2>2. Listing(p)'
    BY <2>1, ListingKept
  <2>3. Output(p)'
    BY <2>1, OutputKept DEF SameRecord
  <2>4. \A i \in m + 1 .. Len(stack') : ~Reading(i, p)'
    BY DEF Quiet, Reading
  <2>5. Telling(p)'
    BY <2>1, <2>4, TellingKept DEF SameRecord, Quiet
  <2> QED BY <2>2, <2>3, <2>5
<1> QED BY <1>1 DEF Books

(* A step of the functions in progress, which leaves records and output alone. *)
Steps(m) ==
  /\ Quiet(m) /\ stack' \in Seq(Frames)
  /\ m = Len(stack) /\ m < Len(stack') => Top.kind # "keyboard"
  /\ \A i \in m + 1 .. Len(stack') : Fits(i)'

(* Such a step, which starts no process, keeps the invariant.                *)
LEMMA StackStep ==
  ASSUME Inv, NEW m \in Nat, Steps(m), News',
         UNCHANGED <<system, synch, next, history>>,
         proc' \in [Procs -> Process], \A p \in Procs : SameRecord(p),
         ticks' \in [process : Nat, update : Nat], ticks'.update <= ticks'.process,
         ticks'.process = ticks.process
  PROVE  Inv'
<1>1. Types'
  BY DEF Inv, Types, Steps, system, history
<1>2. Counted'
  BY DEF Inv, Counted, Dead, DeadOfCall, system
<1>3. Len(stack') \in Nat /\ ticks'.process \in Nat /\ ticks'.process >= ticks.process
  BY <1>1 DEF Types, Inv
<1>4. \A p \in Procs : Started(p)' <=> Started(p)
  BY DEF Started, system
<1>5. Removals
  BY <1>4 DEF Removals, SameRecord
<1>6. Shape'
  BY <1>3, <1>5, ShapeKept DEF Inv, Steps, Quiet, Top
<1>7. Books'
  BY <1>3, <1>4, BooksKept DEF Inv, Steps, system, history
<1>8. Ordered'
  BY <1>3, <1>4, <1>5, OrderedKept DEF Inv, Steps, SameRecord
<1> QED BY <1>1, <1>2, <1>6, <1>7, <1>8 DEF Inv

-----------------------------------------------------------------------------
(* A function that returns: its caller, if that waits for the keyboard, looks *)
(* for changes again or does not block.                                      *)
LEMMA Returns ==
  ASSUME Inv, Top.kind \in Kinds \ {"command", "sentinel"}, stack' = Pop,
         Top.kind = "notify" => Top.stage = "visit" /\ Top.proc = Nil
  PROVE  Steps(Len(stack) - 1) /\ News' /\ Len(stack) - 1 \in Nat
<1>1. Types /\ Shape /\ Top.kind # "command"
  BY DEF Inv, Kinds
<1>2. /\ stack' \in Seq(Frames) /\ Len(stack') = Len(stack) - 1 /\ Keeps(Len(stack) - 1)
      /\ \A i \in (Len(stack) - 1) + 1 .. Len(stack') : FALSE
  BY <1>1, Popped
<1>3. Len(stack) \in Nat /\ Len(stack) > 1
  BY <1>1, TopFrame
<1>4. Steps(Len(stack) - 1)
  BY <1>2, <1>3 DEF Steps, Quiet
<1>5. Len(stack') \in 1 .. Len(stack) /\ Len(stack') < Len(stack) /\ Top' = stack[Len(stack')]
  BY <1>2, <1>3 DEF Top, Keeps
<1>6. Fits(Len(stack'))
  BY <1>1, <1>5 DEF Shape
<1>7. Top'.kind = "keyboard" => Top'.stage = "check" \/ Top'.zapped
  BY <1>5, <1>6 DEF Fits
<1> QED BY <1>3, <1>4, <1>7 DEF News, Bound

(* A function that calls another.                                            *)
LEMMA CallsOne ==
  ASSUME Inv, NEW f \in Frames, stack' = Append(stack, f), Top.kind # "keyboard",
         f.kind \notin {"delete", "sentinel"}, f.kind = "notify" => f.stage = "visit",
         f.kind = "accept" => f.proc \in Procs, (f.proc \in Procs => Started(f.proc))',
         f.kind = "keyboard" => f.stage = "check"
  PROVE  Steps(Len(stack)) /\ News' /\ Len(stack) \in Nat
<1>1. Types /\ Shape
  BY DEF Inv
<1>2. /\ stack' \in Seq(Frames) /\ Len(stack') = Len(stack) + 1 /\ stack'[Len(stack) + 1] = f
      /\ Keeps(Len(stack)) /\ \A i \in Len(stack) + 1 .. Len(stack') : i = Len(stack) + 1
  BY <1>1, Pushed
<1>3. Len(stack) \in Nat
  BY <1>1, TopFrame
<1>4. ASSUME NEW i \in Len(stack) + 1 .. Len(stack') PROVE stack'[i] = f /\ Fits(i)'
  <2>1. stack'[i] = f /\ i = Len(stack')
    BY <1>2, <1>3
  <2> QED BY <2>1 DEF Fits, Started
<1>5. Steps(Len(stack))
  BY <1>2, <1>3, <1>4 DEF Steps, Quiet
<1>6. Top' = f
  BY <1>2 DEF Top
<1> QED BY <1>3, <1>5, <1>6 DEF News, Bound

(* A wait that goes on to another stage.                                     *)
LEMMA GoesOn ==
  ASSUME Inv, Top.kind \in {"keyboard", "accept"}, NEW f \in Frames,
         Becomes(f), f.kind = Top.kind, f.proc = Top.proc,
         \A p \in Procs : Started(p) => Started(p)'
  PROVE  /\ Steps(Len(stack) - 1) /\ Len(stack) - 1 \in Nat /\ Top' = f
         /\ Len(stack') = Len(stack)
<1>1. Types /\ Shape /\ Top.kind # "command"
  BY DEF Inv
<1>2. /\ stack' \in Seq(Frames) /\ Len(stack') = Len(stack) /\ stack'[Len(stack)] = f
      /\ Keeps(Len(stack) - 1) /\ \A i \in (Len(stack) - 1) + 1 .. Len(stack') : i = Len(stack)
  BY <1>1, Replaced
<1>3. Len(stack) \in Nat /\ Len(stack) > 1 /\ Top = stack[Len(stack)]
  BY <1>1, TopFrame
<1>4. ASSUME NEW i \in (Len(stack) - 1) + 1 .. Len(stack') PROVE stack'[i] = f /\ Fits(i)'
  <2>1. stack'[i] = f /\ i = Len(stack') /\ i = Len(stack) /\ Fits(i) /\ Top = stack[i]
    BY <1>1, <1>2, <1>3 DEF Shape
  <2> QED BY <2>1 DEF Fits, Started
<1>5. Steps(Len(stack) - 1)
  BY <1>2, <1>3, <1>4 DEF Steps, Quiet
<1>6. Top' = f
  BY <1>2 DEF Top
<1> QED BY <1>2, <1>3, <1>5, <1>6

(* The tuples of variables a step leaves alone.                              *)
LEMMA Alone ==
  ASSUME Inv, UNCHANGED <<system, synch, proc, next, ticks, history>>
  PROVE  /\ UNCHANGED <<system, synch, next, history>>
         /\ proc' \in [Procs -> Process] /\ \A p \in Procs : SameRecord(p)
         /\ ticks' \in [process : Nat, update : Nat] /\ ticks'.update <= ticks'.process
         /\ ticks'.process = ticks.process
  BY DEF Inv, Types, SameRecord

(* The same, of a step that changes the stack only.                          *)
LEMMA StackOnly ==
  ASSUME Inv, NEW m \in Nat, Steps(m), News', UNCHANGED <<system, synch, proc, next, ticks, history>>
  PROVE  Inv'
  BY Alone, StackStep

(* The functions that only return.                                           *)
LEMMA ReturnsKeep ==
  ASSUME Inv, ReturnCall \/ ReturnFilter \/ InputArrives \/ TimeRunsOut \/ NotifyDone
  PROVE  Inv'
<1>1. /\ Top.kind \in Kinds \ {"command", "sentinel"} /\ stack' = Pop
      /\ Top.kind = "notify" => Top.stage = "visit" /\ Top.proc = Nil
  BY DEF Kinds, ReturnCall, ReturnFilter, InputArrives, TimeRunsOut, NotifyDone, Waits
<1>2. UNCHANGED <<system, synch, proc, next, ticks, history>>
  BY DEF ReturnCall, ReturnFilter, InputArrives, TimeRunsOut, NotifyDone
<1> QED BY <1>1, <1>2, Returns, StackOnly

(* A new frame.                                                              *)
LEMMA NewFrame ==
  ASSUME NEW kind \in Kinds, NEW p \in Procs \cup {Nil}, NEW stage \in Stages
  PROVE  /\ Frame(kind, p, stage) \in Frames /\ Frame(kind, p, stage).kind = kind
         /\ Frame(kind, p, stage).proc = p /\ Frame(kind, p, stage).stage = stage
  BY DEF Frame, Frames

(* The wait for the keyboard begins.                                         *)
LEMMA ReadKeyboardKeeps == ASSUME Inv, ReadKeyboard PROVE Inv'
<1> DEFINE f == Frame("keyboard", Nil, "check")
<1>1. f \in Frames /\ f.kind = "keyboard" /\ f.proc = Nil /\ f.stage = "check"
  BY NewFrame DEF Kinds, Stages
<1> HIDE DEF f
<1>2. /\ Top.kind = "command" /\ stack' = Append(stack, f)
      /\ UNCHANGED <<system, synch, proc, next, ticks, history>>
  BY DEF ReadKeyboard, f
<1>3. Steps(Len(stack)) /\ News' /\ Len(stack) \in Nat
  BY <1>1, <1>2, CallsOne, ProcAssumption
<1> QED BY <1>2, <1>3, StackOnly

(* Calls pushes the frames named.                                            *)
LEMMA CallsPushes ==
  ASSUME Types, NEW f \in Frames, Calls(<<f>>)
  PROVE  stack' = Append(stack, f)
  BY DEF Calls, Types

(* The wait for the output of a process begins.                              *)
LEMMA AcceptKeeps == ASSUME Inv, NEW p \in Procs, AcceptProcessOutput(p) PROVE Inv'
<1> DEFINE f == Frame("accept", p, "check")
<1>1. f \in Frames /\ f.kind = "accept" /\ f.proc = p /\ f.stage = "check"
  BY NewFrame DEF Kinds, Stages
<1>2. Calls(<<f>>) /\ Types
  BY DEF AcceptProcessOutput, Inv
<1> HIDE DEF f
<1>3. /\ stack' = Append(stack, f) /\ Top.kind # "keyboard" /\ proc[p].open
      /\ UNCHANGED <<system, synch, proc, next, ticks, history>>
  BY <1>1, <1>2, CallsPushes DEF AcceptProcessOutput, LispRuns
<1>4. Started(p) /\ Started(p)'
  BY <1>3 DEF Inv, Books, Listing, Started, system
<1>5. Steps(Len(stack)) /\ News' /\ Len(stack) \in Nat
  BY <1>1, <1>3, <1>4, CallsOne
<1> QED BY <1>3, <1>5, StackOnly

(* A wait that goes on to another stage and calls a filter or a walk.        *)
BecomesAndCalls(f, g) == stack' = Append([stack EXCEPT ![Len(stack)] = f], g)

(* Such a step keeps what the frames owe to one another.                     *)
LEMMA GoesOnCalls ==
  ASSUME Inv, Top.kind \in {"keyboard", "accept"}, NEW f \in Frames, NEW g \in Frames,
         BecomesAndCalls(f, g), f.kind = Top.kind, f.proc = Top.proc, child' = child,
         f.kind = "keyboard" => f.stage = "check" \/ f.zapped,
         g.kind \in {"filter", "notify"}, g.kind = "notify" => g.stage = "visit",
         g.proc \in Procs => Started(g.proc)
  PROVE  Steps(Len(stack) - 1) /\ News' /\ Len(stack) - 1 \in Nat
<1>1. Types /\ Shape /\ Top.kind # "command"
  BY DEF Inv
<1>2. /\ stack' \in Seq(Frames) /\ Len(stack') = Len(stack) + 1 /\ stack'[Len(stack)] = f
      /\ stack'[Len(stack) + 1] = g /\ Keeps(Len(stack) - 1)
      /\ \A i \in (Len(stack) - 1) + 1 .. Len(stack') : i = Len(stack) \/ i = Len(stack) + 1
  BY <1>1, ReplacedPushed DEF BecomesAndCalls
<1>3. Len(stack) \in Nat /\ Len(stack) > 1 /\ Top = stack[Len(stack)]
  BY <1>1, TopFrame
<1>4. ASSUME NEW i \in (Len(stack) - 1) + 1 .. Len(stack')
      PROVE  (stack'[i] = f \/ stack'[i] = g) /\ Fits(i)'
  <2>1. CASE i = Len(stack)
    <3>1. stack'[i] = f /\ Fits(i) /\ Top = stack[i]
      BY <1>1, <1>2, <1>3, <2>1 DEF Shape
    <3> QED BY <3>1 DEF Fits, Started
  <2>2. CASE i = Len(stack) + 1
    <3>1. stack'[i] = g
      BY <1>2, <2>2
    <3> QED BY <3>1 DEF Fits, Started
  <2> QED BY <1>2, <2>1, <2>2
<1>5. Steps(Len(stack) - 1)
  BY <1>2, <1>3, <1>4 DEF Steps, Quiet
<1>6. Top' = g
  BY <1>2 DEF Top
<1> QED BY <1>3, <1>5, <1>6 DEF News

(* What follows on the list was started.                                     *)
LEMMA NextStarted ==
  ASSUME Inv
  PROVE  /\ \A q \in Procs : next[q] \in Procs => Started(next[q])
         /\ next[Nil] \in Procs => Started(next[Nil])
         /\ \A q \in Procs \cup {Nil} : next[q] \in Procs \cup {Nil}
  BY DEF Inv, Types, Ordered, Order, Linked

(* A walk begins at the head of the list.                                    *)
LEMMA NotifyFrameIs ==
  ASSUME Inv
  PROVE  /\ NotifyFrame \in Frames /\ NotifyFrame.kind = "notify" /\ NotifyFrame.stage = "visit"
         /\ NotifyFrame.proc = next[Nil]
         /\ NotifyFrame.proc \in Procs => Started(NotifyFrame.proc)
  BY NextStarted, NewFrame DEF NotifyFrame, Kinds, Stages

(* A function gives what is there to the filter.                             *)
LEMMA ReadStep ==
  ASSUME Inv, NEW m \in Nat, Steps(m), News', NEW p \in Procs, Readable(p),
         pipe' = [pipe EXCEPT ![p] = @ - 1], heard' = [heard EXCEPT ![p] = @ + 1],
         UNCHANGED <<child, sigchld, written, synch, proc, next, ticks, told, nested>>
  PROVE  Inv'
<1>0. /\ pipe[p] \in Nat /\ pipe[p] > 0 /\ heard[p] \in Nat
      /\ pipe \in [Procs -> Nat] /\ heard \in [Procs -> Nat]
  BY DEF Inv, Types, Readable
<1>1. Types'
  <2>1. pipe[p] - 1 \in Nat /\ heard[p] + 1 \in Nat
    BY <1>0
  <2>2. pipe' \in [Procs -> Nat] /\ heard' \in [Procs -> Nat]
    BY <1>0, <2>1
  <2> QED BY <2>2 DEF Inv, Types, Steps
<1>2. Counted'
  BY DEF Inv, Counted, Dead, DeadOfCall
<1>3. Len(stack') \in Nat /\ ticks'.process \in Nat /\ ticks'.process >= ticks.process
  BY <1>1 DEF Types, Inv
<1>4. \A q \in Procs : (Started(q)' <=> Started(q)) /\ SameRecord(q)
  BY DEF Started, SameRecord
<1>5. Removals
  BY <1>4 DEF Removals, SameRecord
<1>6. Shape'
  BY <1>3, <1>5, ShapeKept DEF Inv, Steps, Quiet, Top
<1>7. Books'
  <2>1. ASSUME NEW q \in Procs PROVE Listing(q)' /\ Output(q)' /\ Telling(q)'
    <3>1. Listing(q) /\ Output(q) /\ Telling(q) /\ Types
      BY DEF Books, Inv
    <3>2. Listing(q)'
      BY <1>3, <1>4, <3>1, ListingKept
    <3>3. heard'[q] + pipe'[q] = heard[q] + pipe[q]
      BY <1>0
    <3>4. Output(q)'
      BY <1>4, <3>1, <3>3 DEF Output
    <3>5. \A i \in m + 1 .. Len(stack') : ~Reading(i, q)'
      BY DEF Steps, Quiet, Reading
    <3>6. Telling(q)'
      BY <1>3, <3>1, <3>5, TellingKept DEF Steps, Quiet
    <3> QED BY <3>2, <3>4, <3>6
  <2> QED BY <2>1 DEF Books
<1>8. Ordered'
  BY <1>3, <1>4, <1>5, OrderedKept DEF Inv, Steps, SameRecord
<1> QED BY <1>1, <1>2, <1>6, <1>7, <1>8 DEF Inv

(* The function that goes on is a frame, of the same kind and process.       *)
Going(stage, avail, zapped, missed) ==
  [Top EXCEPT !.stage = stage, !.avail = avail, !.zapped = zapped, !.missed = missed]

(* Its fields are what they were but for those given.                        *)
LEMMA Advanced ==
  ASSUME Types, Shape, NEW stage \in Stages, NEW avail \in SUBSET Procs, NEW zapped \in BOOLEAN,
         NEW missed \in BOOLEAN
  PROVE  /\ Going(stage, avail, zapped, missed) \in Frames
         /\ Going(stage, avail, zapped, missed).kind = Top.kind
         /\ Going(stage, avail, zapped, missed).proc = Top.proc
         /\ Going(stage, avail, zapped, missed).stage = stage
         /\ Going(stage, avail, zapped, missed).zapped = zapped
         /\ Going(stage, avail, zapped, missed).missed = missed
  BY TopFrame DEF Frames, Going

(* The keyboard wait finds nothing to report, or has no time for it.         *)
LEMMA CheckKeeps == ASSUME Inv, CheckBusy \/ CheckNothing PROVE Inv'
<1>0. /\ Types /\ Shape /\ Top.kind = "keyboard" /\ Top.zapped \in BOOLEAN /\ Top.missed \in BOOLEAN
      /\ Top.avail \in SUBSET Procs /\ Top \in Frames
  BY TopFrame DEF CheckBusy, CheckNothing, Waits, Inv
<1>1. PICK z \in BOOLEAN : (z \/ ~Changed)
                                /\ Becomes(Going("ready", Top.avail, z, Top.missed))
  <2>1. CASE CheckBusy
    <3>1. Becomes(Going("ready", Top.avail, TRUE, Top.missed))
      BY <1>0, <2>1 DEF CheckBusy, At, Top, Types, Becomes, Frames, Going
    <3> QED BY <3>1
  <2>2. CASE CheckNothing
    <3>1. Becomes(Going("ready", Top.avail, Top.zapped, Top.missed))
      BY <1>0, <2>2 DEF CheckNothing, At, Top, Types, Becomes, Frames, Going
    <3> QED BY <1>0, <2>2, <3>1 DEF CheckNothing
  <2> QED BY <2>1, <2>2
<1> DEFINE f == Going("ready", Top.avail, z, Top.missed)
<1>2. f \in Frames /\ f.kind = Top.kind /\ f.proc = Top.proc /\ f.zapped = z
  <2>1. "ready" \in Stages
    BY DEF Stages
  <2> QED BY <1>0, <2>1, Advanced
<1> HIDE DEF f
<1>3. Becomes(f) /\ UNCHANGED <<system, synch, proc, next, ticks, history>> /\ child' = child
  BY <1>1 DEF f, CheckBusy, CheckNothing, system
<1>4. /\ Steps(Len(stack) - 1) /\ Len(stack) - 1 \in Nat /\ Top' = f
  BY <1>0, <1>2, <1>3, GoesOn DEF Started
<1>5. News'
  BY <1>1, <1>2, <1>3, <1>4 DEF News, Changed
<1> QED BY <1>3, <1>4, <1>5, StackOnly

(* The keyboard wait reports what changed: nothing is unreported then.       *)
LEMMA CheckNotifiesKeeps == ASSUME Inv, CheckNotifies PROVE Inv'
<1> DEFINE f == Going("ready", Top.avail, TRUE, Top.missed)
           g == NotifyFrame
<1>0. /\ Types /\ Shape /\ Top.kind = "keyboard" /\ Top.zapped \in BOOLEAN /\ Top.missed \in BOOLEAN
      /\ Top.avail \in SUBSET Procs /\ Top \in Frames
  BY TopFrame DEF CheckNotifies, Waits, Inv
<1>1. BecomesAndCalls(f, g)
  <2>1. [At("ready") EXCEPT ![Len(stack)].zapped = TRUE] = [stack EXCEPT ![Len(stack)] = f]
    BY <1>0 DEF At, Top, Types, Frames, Going
  <2> QED BY <2>1 DEF CheckNotifies, BecomesAndCalls
<1>2. f \in Frames /\ f.kind = Top.kind /\ f.proc = Top.proc /\ f.zapped
  <2>1. "ready" \in Stages
    BY DEF Stages
  <2> QED BY <1>0, <2>1 DEF Going, Frames
<1>3. g \in Frames /\ g.kind = "notify" /\ g.stage = "visit" /\ (g.proc \in Procs => Started(g.proc))
  BY NotifyFrameIs
<1> HIDE DEF f, g
<1>4. /\ UNCHANGED <<system, synch, proc, next, history>> /\ child' = child
      /\ ticks' = [ticks EXCEPT !.update = ticks.process]
  BY DEF CheckNotifies, system
<1>5. Steps(Len(stack) - 1) /\ News' /\ Len(stack) - 1 \in Nat
  BY <1>0, <1>1, <1>2, <1>3, <1>4, GoesOnCalls
<1>6. /\ ticks' \in [process : Nat, update : Nat] /\ ticks'.update <= ticks'.process
      /\ ticks'.process = ticks.process
  <2>1. ticks \in [process : Nat, update : Nat]
    BY <1>0 DEF Types
  <2>2. ticks.process \in Nat
    BY <2>1
  <2> QED BY <1>4, <2>1, <2>2
<1>7. proc' \in [Procs -> Process] /\ \A p \in Procs : SameRecord(p)
  BY <1>0, <1>4 DEF Types, SameRecord
<1> QED BY <1>4, <1>5, <1>6, <1>7, StackStep

(* Looking at its status changes a process only in what waits in raw.        *)
LEMMA UpdatedIs ==
  ASSUME NEW p \in Procs, proc[p] \in Process
  PROVE  /\ Updated(p) \in Process
         /\ Updated(p).listed = proc[p].listed /\ Updated(p).open = proc[p].open
         /\ Updated(p).mask = proc[p].mask /\ Updated(p).tick = proc[p].tick
         /\ Updated(p).update = proc[p].update
  BY DEF Updated, Process

(* The wait for output looks at the status of its process.                   *)
LEMMA CheckProcessKeeps == ASSUME Inv, CheckProcess PROVE Inv'
<1>0. /\ Types /\ Shape /\ Top.kind = "accept" /\ Top.zapped \in BOOLEAN /\ Top.missed \in BOOLEAN
      /\ Top.avail \in SUBSET Procs /\ Top \in Frames /\ Fits(Len(stack)) /\ Top = stack[Len(stack)]
  BY TopFrame DEF CheckProcess, Waits, Inv
<1>1. PICK p \in Procs : p = Top.proc
  BY <1>0 DEF Fits
<1>2. PICK stage \in {"ready", "drain"} : Becomes(Going(stage, Top.avail, Top.zapped, Top.missed))
  <2>1. PICK stage \in {"ready", "drain"} : stack' = At(stage)
    BY DEF CheckProcess
  <2> QED BY <1>0, <2>1 DEF At, Top, Types, Becomes, Frames, Going
<1> DEFINE f == Going(stage, Top.avail, Top.zapped, Top.missed)
<1>3. f \in Frames /\ f.kind = Top.kind /\ f.proc = Top.proc
  <2>1. stage \in Stages
    BY DEF Stages
  <2> QED BY <1>0, <2>1, Advanced
<1> HIDE DEF f
<1>4. /\ Becomes(f) /\ UNCHANGED <<system, synch, next, ticks, history>> /\ child' = child
      /\ proc' = [proc EXCEPT ![p] = Updated(p)]
  BY <1>1, <1>2 DEF f, CheckProcess, system
<1>5. /\ Steps(Len(stack) - 1) /\ Len(stack) - 1 \in Nat /\ Top' = f
  BY <1>0, <1>3, <1>4, GoesOn DEF Started
<1>6. News'
  BY <1>0, <1>3, <1>5 DEF News
<1>7. proc[p] \in Process /\ proc \in [Procs -> Process]
  BY <1>0 DEF Types
<1>8. proc' \in [Procs -> Process] /\ \A q \in Procs : SameRecord(q)
  BY <1>4, <1>7, UpdatedIs DEF SameRecord
<1>9. /\ ticks' \in [process : Nat, update : Nat] /\ ticks'.update <= ticks'.process
      /\ ticks'.process = ticks.process
  BY <1>0, <1>4 DEF Types
<1> QED BY <1>4, <1>5, <1>6, <1>8, <1>9, StackStep

(* A wait that goes on towards its select: that of the keyboard still knows   *)
(* of all changes, unless it was zapped or its display interrupted.          *)
LEMMA GoesOnBound ==
  ASSUME Inv, Top.kind \in {"keyboard", "accept"}, Top.stage \in Bound, NEW stage \in Bound,
         NEW avail \in SUBSET Procs, Becomes(Going(stage, avail, Top.zapped, Top.missed)),
         UNCHANGED <<system, synch, proc, next, ticks, history>>
  PROVE  Inv'
<1> DEFINE f == Going(stage, avail, Top.zapped, Top.missed)
<1>1. /\ Types /\ Shape /\ Top.zapped \in BOOLEAN /\ Top.missed \in BOOLEAN /\ stage \in Stages
  BY TopFrame DEF Inv, Bound, Stages
<1>2. /\ f \in Frames /\ f.kind = Top.kind /\ f.proc = Top.proc /\ f.zapped = Top.zapped
      /\ f.missed = Top.missed
  BY <1>1, Advanced
<1> HIDE DEF f
<1>3. Becomes(f) /\ child' = child
  BY DEF f, system
<1>4. Steps(Len(stack) - 1) /\ Len(stack) - 1 \in Nat /\ Top' = f
  BY <1>2, <1>3, GoesOn DEF Started
<1>5. News'
  BY <1>2, <1>4 DEF News, Changed, Inv
<1> QED BY <1>3, <1>4, <1>5, StackOnly

(* The mask is copied, the frames are displayed again, select is entered.    *)
LEMMA EnterSelectKeeps ==
  ASSUME Inv, CopyMask \/ Redisplay \/ Redisplayed \/ EnterSelect
  PROVE  Inv'
<1>0. /\ Types /\ Shape /\ Top.avail \in SUBSET Procs /\ Top \in Frames
  BY TopFrame DEF Inv
<1>1. /\ Top.kind \in {"keyboard", "accept"} /\ Top.stage \in Bound
      /\ UNCHANGED <<system, synch, proc, next, ticks, history>>
  BY DEF CopyMask, Redisplay, Redisplayed, EnterSelect, Waits, Bound
<1>2. CASE CopyMask
  <2> DEFINE avail == {p \in Procs : proc[p].mask}
  <2>1. Becomes(Going("masked", avail, Top.zapped, Top.missed)) /\ avail \in SUBSET Procs
    BY <1>0, <1>2 DEF CopyMask, At, Top, Types, Becomes, Frames, Going
  <2>2. "masked" \in Bound
    BY DEF Bound
  <2> HIDE DEF avail
  <2> QED BY <1>1, <2>1, <2>2, GoesOnBound
<1>3. ASSUME NEW stage \in Bound, stack' = At(stage)
      PROVE  Inv'
  <2>1. Becomes(Going(stage, Top.avail, Top.zapped, Top.missed))
    BY <1>0, <1>3 DEF At, Top, Types, Becomes, Frames, Going
  <2> QED BY <1>0, <1>1, <2>1, GoesOnBound
<1>4. CASE Redisplay \/ Redisplayed \/ EnterSelect
  BY <1>3, <1>4 DEF Redisplay, Redisplayed, EnterSelect, Bound
<1> QED BY <1>2, <1>4

(* A wait that goes on, neither on its way to select nor in it.              *)
LEMMA GoesOnAwake ==
  ASSUME Inv, Top.kind \in {"keyboard", "accept"}, NEW stage \in Stages \ Bound,
         NEW avail \in SUBSET Procs, NEW zapped \in BOOLEAN, NEW missed \in BOOLEAN,
         Becomes(Going(stage, avail, zapped, missed)),
         UNCHANGED <<system, synch, proc, next, ticks, history>>
  PROVE  Inv'
<1> DEFINE f == Going(stage, avail, zapped, missed)
<1>1. f \in Frames /\ f.kind = Top.kind /\ f.proc = Top.proc /\ f.stage = stage
  BY Advanced DEF Inv
<1> HIDE DEF f
<1>2. Becomes(f) /\ child' = child
  BY DEF f, system
<1>3. Steps(Len(stack) - 1) /\ Len(stack) - 1 \in Nat /\ Top' = f
  BY <1>1, <1>2, GoesOn DEF Started
<1>4. News'
  BY <1>1, <1>3 DEF News
<1> QED BY <1>3, <1>4, StackOnly

(* Select returns: channels are read, the wait starts again, or it ends.     *)
LEMMA SelectReturnsKeeps == ASSUME Inv, SelectReturns PROVE Inv'
<1>0. /\ Types /\ Shape /\ Top.kind \in {"keyboard", "accept"} /\ Top.zapped \in BOOLEAN /\ Top.missed \in BOOLEAN
      /\ Top.avail \in SUBSET Procs /\ Top \in Frames
  BY TopFrame DEF SelectReturns, Inv
<1>1. UNCHANGED <<system, synch, proc, next, ticks, history>>
  BY DEF SelectReturns
<1>2. Selected \in SUBSET Procs
  BY <1>0 DEF Selected
<1>3. CASE Selected # {}
  <2>1. Becomes(Going("serve", Selected, Top.zapped, Top.missed))
    BY <1>0, <1>3 DEF SelectReturns, At, Top, Types, Becomes, Frames, Going
  <2>2. "serve" \in Stages \ Bound
    BY DEF Stages, Bound
  <2> QED BY <1>0, <1>1, <1>2, <2>1, <2>2, GoesOnAwake
<1>4. CASE Selected = {} /\ Top.kind = "accept"
  <2>1. stack' = Pop
    BY <1>4 DEF SelectReturns
  <2> QED BY <1>1, <1>4, <2>1, Returns, StackOnly DEF Kinds
<1>5. CASE Selected = {} /\ Top.kind # "accept"
  <2>1. Becomes(Going("check", {}, FALSE, FALSE))
    BY <1>0, <1>5 DEF SelectReturns, At, AtHead, Top, Types, Becomes, Frames, Going
  <2>2. "check" \in Stages \ Bound
    BY DEF Stages, Bound
  <2> QED BY <1>0, <1>1, <2>1, <2>2, GoesOnAwake
<1> QED BY <1>3, <1>4, <1>5

(* The frame of a filter.                                                    *)
LEMMA FilterFrame ==
  ASSUME NEW p \in Procs
  PROVE  /\ Frame("filter", p, "run") \in Frames /\ Frame("filter", p, "run").kind = "filter"
         /\ Frame("filter", p, "run").proc = p
<1>1. "filter" \in Kinds /\ "run" \in Stages /\ p \in Procs \cup {Nil}
  BY DEF Kinds, Stages
<1> QED BY <1>1, NewFrame

(* Only a process that was started has output.                               *)
LEMMA ReadableStarted ==
  ASSUME Inv, NEW p \in Procs, Readable(p)
  PROVE  Started(p)
  BY DEF Inv, Books, Listing, Readable

(* The wait for a dead process reads what is left, or ends.                  *)
LEMMA DrainKeeps == ASSUME Inv, Drain PROVE Inv'
<1>0. /\ Types /\ Top.kind = "accept" /\ Fits(Len(stack)) /\ Top = stack[Len(stack)]
  BY TopFrame DEF Drain, Waits, Inv
<1>1. PICK p \in Procs : p = Top.proc
  BY <1>0 DEF Fits
<1>2. CASE Readable(p)
  <2> DEFINE g == Frame("filter", p, "run")
  <2>1. g \in Frames /\ g.kind = "filter" /\ g.proc = p
    BY FilterFrame
  <2> HIDE DEF g
  <2>2. ReadOutput(p, stack)
    BY <1>1, <1>2 DEF Drain
  <2>3. /\ stack' = Append(stack, g)
        /\ pipe' = [pipe EXCEPT ![p] = @ - 1] /\ heard' = [heard EXCEPT ![p] = @ + 1]
        /\ UNCHANGED <<child, sigchld, written, synch, proc, next, ticks, told, nested>>
    BY <2>2 DEF ReadOutput, g
  <2>4. Started(p)'
    BY <1>2, <2>3, ReadableStarted DEF Started
  <2>5. Steps(Len(stack)) /\ News' /\ Len(stack) \in Nat
    BY <1>0, <2>1, <2>3, <2>4, CallsOne
  <2> QED BY <1>2, <2>3, <2>5, ReadStep
<1>3. CASE ~Readable(p)
  <2>1. stack' = Pop /\ UNCHANGED <<system, synch, proc, next, ticks, history>>
    BY <1>1, <1>3 DEF Drain
  <2> QED BY <1>0, <2>1, Returns, StackOnly DEF Kinds
<1> QED BY <1>2, <1>3

(* The walk reads what is left of the output of its process.                 *)
LEMMA ReadRestKeeps == ASSUME Inv, ReadRest PROVE Inv'
<1>0. /\ Types /\ Top.kind = "notify" /\ Top.stage = "read" /\ Fits(Len(stack))
      /\ Top = stack[Len(stack)] /\ Readable(Top.proc)
  BY TopFrame DEF ReadRest, Inv
<1>1. PICK p \in Procs : p = Top.proc
  BY <1>0 DEF Fits
<1> DEFINE g == Frame("filter", p, "run")
<1>2. g \in Frames /\ g.kind = "filter" /\ g.proc = p
  BY FilterFrame
<1> HIDE DEF g
<1>3. /\ stack' = Append(stack, g) /\ Readable(p)
      /\ pipe' = [pipe EXCEPT ![p] = @ - 1] /\ heard' = [heard EXCEPT ![p] = @ + 1]
      /\ UNCHANGED <<child, sigchld, written, synch, proc, next, ticks, told, nested>>
  BY <1>1 DEF ReadRest, ReadOutput, g
<1>4. Started(p)'
  BY <1>3, ReadableStarted DEF Started
<1>5. Steps(Len(stack)) /\ News' /\ Len(stack) \in Nat
  BY <1>0, <1>2, <1>3, <1>4, CallsOne
<1> QED BY <1>3, <1>5, ReadStep

(* A wait reads a channel, after which it looks for changes again.           *)
LEMMA ServeKeeps == ASSUME Inv, NEW p \in Procs, Serve(p) PROVE Inv'
<1> DEFINE got == Top.kind = "accept" /\ Top.proc = p
           z == got \/ (Top.kind = "accept" /\ Top.zapped)
           f == Going("check", {}, z, FALSE)
           g == Frame("filter", p, "run")
           again == [AtHead EXCEPT ![Len(stack)].zapped = (got \/ (Top.kind = "accept" /\ Top.zapped))]
<1>0. /\ Types /\ Shape /\ Top.kind \in {"keyboard", "accept"} /\ Top.zapped \in BOOLEAN /\ Top.missed \in BOOLEAN
      /\ Top.avail \in SUBSET Procs /\ Top \in Frames
  BY TopFrame DEF Serve, Inv
<1>1. again = [stack EXCEPT ![Len(stack)] = f]
  BY <1>0 DEF At, AtHead, Top, Types, Frames, Going
<1>2. got \in BOOLEAN /\ z \in BOOLEAN
  OBVIOUS
<1>3. "check" \in Stages \ Bound /\ "serve" \in Stages \ Bound
  BY DEF Stages, Bound
<1>4. CASE proc[p].mask /\ Readable(p)
  <2>1. f \in Frames /\ f.kind = Top.kind /\ f.proc = Top.proc /\ f.stage = "check"
    <3> HIDE DEF z
    <3> QED BY <1>0, <1>2, <1>3 DEF Going, Frames
  <2>2. g \in Frames /\ g.kind = "filter" /\ g.proc = p
    BY FilterFrame
  <2>3. ReadOutput(p, again)
    BY <1>4 DEF Serve
  <2>4. BecomesAndCalls(f, g)
    BY <1>1, <2>3 DEF ReadOutput, BecomesAndCalls
  <2>5. /\ pipe' = [pipe EXCEPT ![p] = @ - 1] /\ heard' = [heard EXCEPT ![p] = @ + 1]
        /\ UNCHANGED <<child, sigchld, written, synch, proc, next, ticks, told, nested>>
    BY <2>3 DEF ReadOutput
  <2>6. Started(p)
    BY <1>4, ReadableStarted
  <2> HIDE DEF f, g, again, z, got
  <2>7. Steps(Len(stack) - 1) /\ News' /\ Len(stack) - 1 \in Nat
    BY <1>0, <2>1, <2>2, <2>4, <2>5, <2>6, GoesOnCalls
  <2> QED BY <1>4, <2>5, <2>7, ReadStep
<1>5. CASE ~(proc[p].mask /\ Readable(p))
  <2>1. /\ stack' = IF Top.avail = {p} THEN again
                    ELSE [stack EXCEPT ![Len(stack)].avail = @ \ {p},
                                       ![Len(stack)].zapped = @ \/ got]
        /\ UNCHANGED <<system, synch, proc, next, ticks, history>>
    BY <1>5 DEF Serve
  <2>2. CASE Top.avail = {p}
    <3>1. Becomes(f)
      BY <1>1, <2>1, <2>2 DEF Becomes
    <3> HIDE DEF z, again
    <3> QED BY <1>0, <1>2, <1>3, <2>1, <3>1, GoesOnAwake
  <2>3. CASE Top.avail # {p}
    <3> HIDE DEF got
    <3>1. stack' = [stack EXCEPT ![Len(stack)].avail = @ \ {p}, ![Len(stack)].zapped = @ \/ got]
      BY <2>1, <2>3
    <3>2. Becomes(Going(Top.stage, Top.avail \ {p}, Top.zapped \/ got, Top.missed))
      BY <1>0, <3>1 DEF Top, Types, Becomes, Frames, Going
    <3>3. Top.stage = "serve" /\ Top.avail \ {p} \in SUBSET Procs /\ (Top.zapped \/ got) \in BOOLEAN
      BY <1>0, <1>2 DEF Serve
    <3> QED BY <1>0, <1>3, <2>1, <3>2, <3>3, GoesOnAwake
  <2> QED BY <2>2, <2>3
<1> QED BY <1>4, <1>5

-----------------------------------------------------------------------------
(* The system's steps.  What is left alone, put together.                    *)
LEMMA Assembled ==
  ASSUME Inv, NEW m \in Nat, Steps(m), Types', Counted', News', Books', next' = next,
         \A p \in Procs :
           /\ Started(p)' <=> Started(p)
           /\ proc'[p].listed => proc[p].listed
           /\ proc'[p].open => proc[p].open
           /\ proc'[p].open /\ proc[p].tick # proc[p].update => proc'[p].tick # proc'[p].update
  PROVE  Inv'
<1>1. Removals /\ Len(stack') \in Nat
  BY DEF Removals, Types
<1>2. Shape'
  BY <1>1, ShapeKept DEF Inv, Steps, Quiet, Top
<1>3. Ordered'
  BY <1>1, OrderedKept DEF Inv, Steps
<1> QED BY <1>2, <1>3 DEF Inv

(* A step that leaves the stack alone.                                       *)
LEMMA StackSame ==
  ASSUME Inv, stack' = stack
  PROVE  Steps(Len(stack)) /\ Len(stack) \in Nat /\ Len(stack') \in Nat
<1>1. Len(stack) \in Nat /\ Len(stack) > 0 /\ stack \in Seq(Frames)
  BY DEF Inv, Types, Shape
<1>2. \A i \in Len(stack) + 1 .. Len(stack') : FALSE
  BY <1>1
<1>3. Keeps(Len(stack))
  BY <1>1 DEF Keeps
<1> QED BY <1>1, <1>2, <1>3 DEF Steps, Quiet

(* A child writes: into the pipe, if that is open.                           *)
LEMMA WriteKeeps == ASSUME Inv, NEW p \in Procs, Write(p) PROVE Inv'
<1>1. /\ Steps(Len(stack)) /\ Len(stack) \in Nat /\ Len(stack') \in Nat /\ stack' = stack
      /\ UNCHANGED <<child, sigchld, synch, proc, next, ticks, heard, told, nested>>
      /\ child[p] = "alive" /\ written[p] < MaxOutput
      /\ written' = [written EXCEPT ![p] = @ + 1]
      /\ pipe' = IF proc[p].open THEN [pipe EXCEPT ![p] = @ + 1] ELSE pipe
  BY StackSame DEF Write, history
<1>2. Types /\ Books /\ \A q \in Procs : pipe[q] \in Nat /\ written[q] \in Nat /\ heard[q] \in Nat
  BY DEF Inv, Types
<1>3. Types'
  <2>1. pipe[p] + 1 \in Nat /\ written[p] + 1 \in Nat
    BY <1>2
  <2>2. pipe' \in [Procs -> Nat] /\ written' \in [Procs -> Nat]
    BY <1>1, <1>2, <2>1 DEF Types
  <2> QED BY <1>1, <1>2, <2>2 DEF Types
<1>4. Counted' /\ News'
  BY <1>1 DEF Inv, Counted, Dead, DeadOfCall, News, Top, Changed
<1>5. Books'
  <2>1. ASSUME NEW q \in Procs PROVE Listing(q)' /\ Output(q)' /\ Telling(q)'
    <3>1. Listing(q) /\ Output(q) /\ Telling(q)
      BY <1>2 DEF Books
    <3>2. Listing(q)' /\ Telling(q)'
      BY <1>1, <3>1 DEF Listing, Telling, Started, Reading
    <3>3. ASSUME q = p PROVE Output(q)'
      <4>1. Started(p)
        BY <1>1 DEF Started
      <4>2. written'[p] = written[p] + 1 /\ (pipe'[p] = pipe[p] + 1 \/ (~proc[p].open /\ pipe'[p] = pipe[p]))
            /\ (proc[p].open => pipe'[p] = pipe[p] + 1)
        BY <1>1, <1>2 DEF Types
      <4>3. heard'[p] = heard[p] /\ proc'[p] = proc[p] /\ child'[p] = child[p] /\ written[p] < MaxOutput
        BY <1>1
      <4>4. /\ heard[p] + pipe[p] <= written[p] /\ written[p] <= MaxOutput
            /\ proc[p].open => heard[p] + pipe[p] = written[p]
        BY <3>1, <3>3 DEF Output
      <4>5. /\ heard'[p] + pipe'[p] <= written'[p] /\ written'[p] <= MaxOutput
            /\ proc[p].open => heard'[p] + pipe'[p] = written'[p]
        BY <1>2, <4>2, <4>3, <4>4, BoundAssumption
      <4> QED BY <3>3, <4>1, <4>3, <4>5 DEF Output, Started
    <3>4. ASSUME q # p PROVE Output(q)'
      <4>1. written'[q] = written[q] /\ pipe'[q] = pipe[q]
        BY <1>1, <1>2, <3>4 DEF Types
      <4> QED BY <1>1, <3>1, <4>1 DEF Output, Started
    <3> QED BY <3>2, <3>3, <3>4
  <2> QED BY <2>1 DEF Books
<1>6. \A q \in Procs : (Started(q)' <=> Started(q)) /\ proc'[q] = proc[q]
  BY <1>1 DEF Started
<1> QED BY <1>1, <1>3, <1>4, <1>5, <1>6, Assembled

(* The children that have died and were not waited for are finitely many.    *)
LEMMA DeadCounts ==
  /\ IsFiniteSet(Dead) /\ Cardinality(Dead) \in Nat
  /\ \A p \in Procs : Cardinality(Dead \cup {p}) = Cardinality(Dead) + (IF p \in Dead THEN 0 ELSE 1)
  /\ \A p \in Procs : Cardinality(Dead \ {p}) = Cardinality(Dead) - (IF p \in Dead THEN 1 ELSE 0)
<1>1. Dead \subseteq Procs
  BY DEF Dead
<1>2. IsFiniteSet(Dead)
  BY <1>1, ProcAssumption, FS_Subset
<1>3. Cardinality(Dead) \in Nat
  BY <1>2, FS_CardinalityType
<1>4. \A p \in Procs : Cardinality(Dead \cup {p}) = Cardinality(Dead) + (IF p \in Dead THEN 0 ELSE 1)
  <2>1. ASSUME NEW p \in Procs, p \in Dead PROVE Cardinality(Dead \cup {p}) = Cardinality(Dead)
    BY <1>2, <2>1, FS_AddElement
  <2>2. ASSUME NEW p \in Procs, p \notin Dead PROVE Cardinality(Dead \cup {p}) = Cardinality(Dead) + 1
    BY <1>2, <2>2, FS_AddElement
  <2> QED BY <1>3, <2>1, <2>2
<1>5. \A p \in Procs : Cardinality(Dead \ {p}) = Cardinality(Dead) - (IF p \in Dead THEN 1 ELSE 0)
  <2>1. ASSUME NEW p \in Procs, p \in Dead PROVE Cardinality(Dead \ {p}) = Cardinality(Dead) - 1
    BY <1>2, <2>1, FS_RemoveElement
  <2>2. ASSUME NEW p \in Procs, p \notin Dead PROVE Cardinality(Dead \ {p}) = Cardinality(Dead)
    BY <1>2, <2>2, FS_RemoveElement
  <2> QED BY <1>3, <2>1, <2>2
<1> QED BY <1>2, <1>3, <1>4, <1>5

(* A child dies: one more SIGCHLD waits, for one more child.                 *)
LEMMA ExitKeeps == ASSUME Inv, NEW p \in Procs, Exit(p) PROVE Inv'
<1>1. /\ Steps(Len(stack)) /\ Len(stack) \in Nat /\ Len(stack') \in Nat /\ stack' = stack
      /\ UNCHANGED <<pipe, written, synch, proc, next, ticks, heard, told, nested>>
      /\ child[p] = "alive" /\ child' = [child EXCEPT ![p] = "exit"] /\ sigchld' = sigchld + 1
  BY StackSame DEF Exit, history
<1>2. Types /\ Books /\ child \in [Procs -> {"none", "alive", "exit", "signal", "reaped"}]
      /\ sigchld \in Nat
  BY DEF Inv, Types
<1>3. Types'
  <2>1. sigchld' \in Nat /\ child' \in [Procs -> {"none", "alive", "exit", "signal", "reaped"}]
    BY <1>1, <1>2
  <2> QED BY <1>1, <1>2, <2>1 DEF Types
<1>4. News'
  BY <1>1 DEF Inv, News, Top, Changed
<1>5. Counted'
  <2>1. Dead' = Dead \cup {p} /\ p \notin Dead
    BY <1>1, <1>2 DEF Dead
  <2>2. Cardinality(Dead') = Cardinality(Dead) + 1 /\ Cardinality(Dead) \in Nat
    BY <2>1, DeadCounts
  <2>3. sigchld = Cardinality(Dead) + DeadOfCall /\ DeadOfCall \in Nat
    BY DEF Inv, Counted, DeadOfCall
  <2>4. DeadOfCall' = DeadOfCall
    BY <1>1 DEF DeadOfCall
  <2> QED BY <1>1, <2>2, <2>3, <2>4 DEF Counted
<1>6. \A q \in Procs : (Started(q)' <=> Started(q)) /\ proc'[q] = proc[q]
  BY <1>1, <1>2 DEF Started
<1>7. Books'
  <2>1. ASSUME NEW q \in Procs PROVE Listing(q)' /\ Output(q)' /\ Telling(q)'
    <3>1. Listing(q) /\ Output(q) /\ Telling(q)
      BY <1>2 DEF Books
    <3> QED BY <1>1, <1>6, <3>1 DEF Listing, Output, Telling, Reading
  <2> QED BY <2>1 DEF Books
<1> QED BY <1>1, <1>3, <1>4, <1>5, <1>6, <1>7, Assembled

(* The child of call-process dies.                                           *)
LEMMA SynchExitKeeps == ASSUME Inv, SynchExit PROVE Inv'
<1>1. /\ Steps(Len(stack)) /\ Len(stack) \in Nat /\ Len(stack') \in Nat /\ stack' = stack
      /\ UNCHANGED <<child, pipe, written, proc, next, ticks, heard, told, nested>>
      /\ synch.child = "alive" /\ synch' = [synch EXCEPT !.child = "exit"] /\ sigchld' = sigchld + 1
  BY StackSame DEF SynchExit, history
<1>2. Types /\ Books /\ synch \in Synch /\ sigchld \in Nat
  BY DEF Inv, Types
<1>3. synch' \in Synch /\ sigchld' \in Nat /\ synch'.child = "exit"
  BY <1>1, <1>2 DEF Synch
<1>4. Types'
  BY <1>1, <1>2, <1>3 DEF Types
<1>5. News'
  BY <1>1 DEF Inv, News, Top, Changed
<1>6. Counted'
  <2>1. Dead' = Dead /\ Cardinality(Dead) \in Nat
    BY <1>1, DeadCounts DEF Dead
  <2>2. DeadOfCall = 0 /\ DeadOfCall' = 1
    BY <1>1, <1>3 DEF DeadOfCall
  <2>3. sigchld = Cardinality(Dead) + DeadOfCall
    BY DEF Inv, Counted
  <2> QED BY <1>1, <2>1, <2>2, <2>3 DEF Counted
<1>7. \A q \in Procs : (Started(q)' <=> Started(q)) /\ proc'[q] = proc[q]
  BY <1>1 DEF Started
<1>8. Books'
  <2>1. ASSUME NEW q \in Procs PROVE Listing(q)' /\ Output(q)' /\ Telling(q)'
    <3>1. Listing(q) /\ Output(q) /\ Telling(q)
      BY <1>2 DEF Books
    <3> QED BY <1>1, <1>7, <3>1 DEF Listing, Output, Telling, Reading
  <2> QED BY <2>1 DEF Books
<1> QED BY <1>1, <1>4, <1>5, <1>6, <1>7, <1>8, Assembled

(* A wait the handler of SIGCHLD interrupts, before or in its select.        *)
LEMMA AwokenSteps ==
  ASSUME Inv, stack' = Awoken, \A p \in Procs : Started(p) => Started(p)'
  PROVE  \E m \in Nat : Steps(m) /\ News'
<1>0. /\ Types /\ Shape /\ Top.kind \in Kinds /\ Top.zapped \in BOOLEAN /\ Top.missed \in BOOLEAN
      /\ Top.avail \in SUBSET Procs /\ Top \in Frames /\ Top.stage \in Stages
  BY TopFrame DEF Inv
<1>1. CASE Top.kind \in {"keyboard", "accept"} /\ Top.stage = "select"
  <2> DEFINE f == Going("check", Top.avail, Top.zapped, FALSE)
  <2>1. Becomes(f)
    BY <1>0, <1>1 DEF Awoken, At, Top, Types, Becomes, Frames, Going
  <2>2. f \in Frames /\ f.kind = Top.kind /\ f.proc = Top.proc /\ f.stage = "check"
    <3>1. "check" \in Stages
      BY DEF Stages
    <3> QED BY <1>0, <3>1 DEF Going, Frames
  <2> HIDE DEF f
  <2>3. Steps(Len(stack) - 1) /\ Len(stack) - 1 \in Nat /\ Top' = f
    BY <1>1, <2>1, <2>2, GoesOn
  <2>4. News'
    BY <2>2, <2>3 DEF News, Bound
  <2> QED BY <2>3, <2>4
<1>2. CASE Top.kind = "keyboard" /\ Top.stage \in {"check", "ready", "masked", "armed"}
  <2> DEFINE f == Going(Top.stage, Top.avail, TRUE, Top.missed)
  <2>1. Becomes(f)
    BY <1>0, <1>2 DEF Awoken, Top, Types, Becomes, Frames, Going
  <2>2. f \in Frames /\ f.kind = Top.kind /\ f.proc = Top.proc /\ f.zapped
    BY <1>0 DEF Going, Frames
  <2> HIDE DEF f
  <2>3. Steps(Len(stack) - 1) /\ Len(stack) - 1 \in Nat /\ Top' = f
    BY <1>2, <2>1, <2>2, GoesOn
  <2>4. News'
    BY <2>2, <2>3 DEF News
  <2> QED BY <2>3, <2>4
<1>3. CASE Top.kind = "keyboard" /\ Top.stage = "redisplay"
  <2> DEFINE f == Going(Top.stage, Top.avail, Top.zapped, TRUE)
  <2>1. Becomes(f)
    BY <1>0, <1>3 DEF Awoken, Top, Types, Becomes, Frames, Going
  <2>2. f \in Frames /\ f.kind = Top.kind /\ f.proc = Top.proc /\ f.missed
    BY <1>0 DEF Going, Frames
  <2> HIDE DEF f
  <2>3. Steps(Len(stack) - 1) /\ Len(stack) - 1 \in Nat /\ Top' = f
    BY <1>3, <2>1, <2>2, GoesOn
  <2>4. News'
    BY <2>2, <2>3 DEF News
  <2> QED BY <2>3, <2>4
<1>4. CASE ~(Top.kind = "keyboard" /\ Top.stage \in Bound \cup {"check"})
           /\ ~(Top.kind = "accept" /\ Top.stage = "select")
  <2>1. stack' = stack
    BY <1>4 DEF Awoken, Bound
  <2>2. Steps(Len(stack)) /\ Len(stack) \in Nat
    BY <2>1, StackSame
  <2>3. News'
    BY <1>4, <2>1 DEF News, Bound, Top
  <2> QED BY <2>2, <2>3
<1> QED BY <1>1, <1>2, <1>3, <1>4 DEF Bound

(* The handler records the death of a process: news for the next walk.       *)
LEMMA SigchldListedKeeps == ASSUME Inv, NEW p \in Procs, SigchldListed(p) PROVE Inv'
<1>1. /\ stack' = Awoken /\ next' = next
      /\ UNCHANGED <<pipe, written, synch, next, heard, told, nested>>
      /\ sigchld > 0 /\ child[p] \in {"exit", "signal"} /\ proc[p].listed
      /\ sigchld' = sigchld - 1 /\ child' = [child EXCEPT ![p] = "reaped"]
      /\ ticks' = [ticks EXCEPT !.process = @ + 1]
      /\ proc' = [proc EXCEPT ![p].tick = ticks'.process, ![p].raw = child[p], ![p].mask = FALSE]
  BY DEF SigchldListed, history
<1>2. /\ Types /\ Books /\ child \in [Procs -> {"none", "alive", "exit", "signal", "reaped"}]
      /\ sigchld \in Nat /\ proc \in [Procs -> Process] /\ proc[p] \in Process
      /\ ticks \in [process : Nat, update : Nat] /\ ticks.update <= ticks.process
  BY DEF Inv, Types
<1>3. \A q \in Procs : Started(q)' <=> Started(q)
  BY <1>1, <1>2 DEF Started
<1>4. PICK m \in Nat : Steps(m) /\ News'
  BY <1>1, <1>3, AwokenSteps
<1>5. /\ ticks.process \in Nat /\ ticks.update \in Nat /\ ticks'.process = ticks.process + 1
      /\ ticks' \in [process : Nat, update : Nat] /\ ticks'.update = ticks.update
  <2>1. ticks.process \in Nat /\ ticks.update \in Nat
    BY <1>2
  <2>2. ticks.process + 1 \in Nat
    BY <2>1
  <2> QED BY <1>1, <1>2, <2>1, <2>2
<1>6. /\ proc' \in [Procs -> Process] /\ \A q \in Procs \ {p} : proc'[q] = proc[q]
      /\ proc'[p].tick = ticks.process + 1 /\ proc'[p].update = proc[p].update
      /\ proc'[p].listed = proc[p].listed /\ proc'[p].open = proc[p].open /\ ~proc'[p].mask
  <2>1. ticks'.process \in Nat
    BY <1>5
  <2>2. child[p] \in {"none", "exit", "signal"}
    BY <1>1
  <2> QED BY <1>1, <1>2, <1>5, <2>1, <2>2 DEF Process
<1>7. Types'
  <2>1. sigchld' \in Nat /\ child' \in [Procs -> {"none", "alive", "exit", "signal", "reaped"}]
    BY <1>1, <1>2
  <2>2. stack' \in Seq(Frames) /\ ticks'.update <= ticks'.process
    BY <1>2, <1>4, <1>5 DEF Steps
  <2> QED BY <1>1, <1>2, <1>5, <1>6, <2>1, <2>2 DEF Types
<1>8. Counted'
  <2>1. Dead' = Dead \ {p} /\ p \in Dead
    BY <1>1, <1>2 DEF Dead
  <2>2. Cardinality(Dead') = Cardinality(Dead) - 1 /\ Cardinality(Dead) \in Nat
    BY <2>1, DeadCounts
  <2>3. sigchld = Cardinality(Dead) + DeadOfCall /\ DeadOfCall \in Nat
    BY DEF Inv, Counted, DeadOfCall
  <2>4. DeadOfCall' = DeadOfCall
    BY <1>1 DEF DeadOfCall
  <2> QED BY <1>1, <2>2, <2>3, <2>4 DEF Counted
<1>9. ASSUME NEW q \in Procs
      PROVE  /\ Listing(q) /\ Output(q) /\ Telling(q) /\ proc'[q].open = proc[q].open
             /\ proc[q].update <= proc[q].tick /\ proc[q].tick <= ticks.process
             /\ proc[q].update \in Nat /\ proc[q].tick \in Nat /\ proc'[q].listed = proc[q].listed
             /\ proc[q].tick # proc[q].update => proc'[q].tick # proc'[q].update
  <2>1. Listing(q) /\ Output(q) /\ Telling(q) /\ proc[q] \in Process
    BY <1>2 DEF Books
  <2>2. /\ proc[q].update <= proc[q].tick /\ proc[q].tick <= ticks.process
        /\ proc[q].update \in Nat /\ proc[q].tick \in Nat
    BY <2>1 DEF Listing, Process
  <2>3. CASE q = p
    BY <1>5, <1>6, <2>1, <2>2, <2>3
  <2>4. CASE q # p
    BY <1>6, <2>1, <2>2, <2>4
  <2> QED BY <2>3, <2>4
<1>10. Books'
  <2>1. ASSUME NEW q \in Procs PROVE Listing(q)' /\ Output(q)' /\ Telling(q)'
    <3>1. Output(q)'
      BY <1>1, <1>3, <1>9, OutputKept
    <3>2. \A i \in m + 1 .. Len(stack') : ~Reading(i, q)'
      BY <1>4 DEF Steps, Quiet, Reading
    <3>3. Telling(q)'
      <4>1. Keeps(m) /\ Len(stack') \in Nat
        BY <1>4, <1>7 DEF Steps, Quiet, Types
      <4>2. proc'[q].open = proc[q].open /\ told'[q] = told[q] /\ nested' = nested
        BY <1>1, <1>9
      <4> QED BY <1>2, <1>9, <3>2, <4>1, <4>2, TellingKept
    <3>4. Listing(q)'
      <4>1. CASE q = p
        BY <1>1, <1>3, <1>5, <1>6, <1>9, <4>1 DEF Listing
      <4>2. CASE q # p
        BY <1>1, <1>3, <1>5, <1>6, <1>9, <4>2 DEF Listing
      <4> QED BY <4>1, <4>2
    <3> QED BY <3>1, <3>3, <3>4
  <2> QED BY <2>1 DEF Books
<1> QED BY <1>1, <1>3, <1>4, <1>7, <1>8, <1>9, <1>10, Assembled

(* A step that waits for a child of no process on the list, or starts one.   *)
LEMMA ChildOnly ==
  ASSUME Inv, NEW m \in Nat, Steps(m), News', Types', Counted',
         UNCHANGED <<pipe, written, proc, next, ticks, history>>,
         \A p \in Procs : Started(p)' <=> Started(p)
  PROVE  Inv'
<1>1. \A p \in Procs : SameRecord(p) /\ proc'[p] = proc[p]
  BY DEF SameRecord
<1>2. Len(stack') \in Nat /\ ticks'.process \in Nat /\ ticks'.process >= ticks.process /\ Types /\ Books
  BY DEF Inv, Types
<1>3. pipe' = pipe /\ written' = written /\ heard' = heard /\ told' = told /\ nested' = nested /\ Quiet(m)
  BY DEF history, Steps
<1>4. Books'
  BY <1>1, <1>2, <1>3, BooksKept
<1> QED BY <1>1, <1>4, Assembled

(* The handler takes a child of no process for that of call-process.         *)
LEMMA SigchldStrayKeeps == ASSUME Inv, NEW p \in Procs, SigchldStray(p) PROVE Inv'
<1>1. /\ stack' = Awoken /\ UNCHANGED <<pipe, written, proc, next, ticks, history>>
      /\ sigchld > 0 /\ child[p] \in {"exit", "signal"}
      /\ sigchld' = sigchld - 1 /\ child' = [child EXCEPT ![p] = "reaped"]
      /\ \/ synch' = [synch EXCEPT !.retcode = "other"]
         \/ synch' = [synch EXCEPT !.death = TRUE]
  BY DEF SigchldStray
<1>2. /\ Types /\ child \in [Procs -> {"none", "alive", "exit", "signal", "reaped"}]
      /\ sigchld \in Nat /\ synch \in Synch
  BY DEF Inv, Types
<1>3. \A q \in Procs : Started(q)' <=> Started(q)
  BY <1>1, <1>2 DEF Started
<1>4. PICK m \in Nat : Steps(m) /\ News'
  BY <1>1, <1>3, AwokenSteps
<1>5. synch' \in Synch /\ synch'.child = synch.child
  BY <1>1, <1>2 DEF Synch
<1>6. Types'
  <2>1. sigchld' \in Nat /\ child' \in [Procs -> {"none", "alive", "exit", "signal", "reaped"}]
    BY <1>1, <1>2
  <2>2. stack' \in Seq(Frames)
    BY <1>4 DEF Steps
  <2> QED BY <1>1, <1>2, <1>5, <2>1, <2>2 DEF Types, history
<1>7. Counted'
  <2>1. Dead' = Dead \ {p} /\ p \in Dead
    BY <1>1, <1>2 DEF Dead
  <2>2. Cardinality(Dead') = Cardinality(Dead) - 1 /\ Cardinality(Dead) \in Nat
    BY <2>1, DeadCounts
  <2>3. sigchld = Cardinality(Dead) + DeadOfCall /\ DeadOfCall \in Nat
    BY DEF Inv, Counted, DeadOfCall
  <2>4. DeadOfCall' = DeadOfCall
    BY <1>5 DEF DeadOfCall
  <2> QED BY <1>1, <2>2, <2>3, <2>4 DEF Counted
<1> QED BY <1>1, <1>3, <1>4, <1>6, <1>7, ChildOnly

(* The handler takes the child of call-process.                              *)
LEMMA SigchldSynchKeeps == ASSUME Inv, SigchldSynch PROVE Inv'
<1>1. /\ stack' = Awoken /\ UNCHANGED <<child, pipe, written, proc, next, ticks, history>>
      /\ sigchld > 0 /\ sigchld' = sigchld - 1 /\ synch.child = "exit"
      /\ synch' = [synch EXCEPT !.child = "none", !.retcode = "own"]
  BY DEF SigchldSynch
<1>2. Types /\ sigchld \in Nat /\ synch \in Synch
  BY DEF Inv, Types
<1>3. \A q \in Procs : Started(q)' <=> Started(q)
  BY <1>1 DEF Started
<1>4. PICK m \in Nat : Steps(m) /\ News'
  BY <1>1, <1>3, AwokenSteps
<1>5. synch' \in Synch /\ synch'.child = "none"
  BY <1>1, <1>2 DEF Synch
<1>6. Types'
  <2>1. sigchld' \in Nat
    BY <1>1, <1>2
  <2>2. stack' \in Seq(Frames)
    BY <1>4 DEF Steps
  <2> QED BY <1>1, <1>2, <1>5, <2>1, <2>2 DEF Types, history
<1>7. Counted'
  <2>1. Dead' = Dead /\ Cardinality(Dead) \in Nat
    BY <1>1, DeadCounts DEF Dead
  <2>2. DeadOfCall = 1 /\ DeadOfCall' = 0
    BY <1>1, <1>5 DEF DeadOfCall
  <2>3. sigchld = Cardinality(Dead) + DeadOfCall
    BY DEF Inv, Counted
  <2> QED BY <1>1, <2>1, <2>2, <2>3 DEF Counted
<1> QED BY <1>1, <1>3, <1>4, <1>6, <1>7, ChildOnly

-----------------------------------------------------------------------------
(* Lisp's calls.                                                             *)
LEMMA CallProcessKeeps == ASSUME Inv, CallProcess PROVE Inv'
<1> DEFINE f == Frame("call", Nil, "run")
<1>1. f \in Frames /\ f.kind = "call" /\ f.proc = Nil
  <2>1. "call" \in Kinds /\ "run" \in Stages /\ Nil \in Procs \cup {Nil}
    BY DEF Kinds, Stages
  <2> QED BY <2>1, NewFrame
<1>2. Types /\ Calls(<<f>>)
  BY DEF Inv, CallProcess
<1> HIDE DEF f
<1>3. stack' = Append(stack, f)
  BY <1>1, <1>2, CallsPushes
<1>4. /\ Top.kind # "keyboard" /\ UNCHANGED <<system, proc, next, ticks, history>>
      /\ synch.child = "none"
      /\ synch' = [child |-> "alive", retcode |-> "none", death |-> FALSE]
  BY DEF CallProcess, LispRuns
<1>5. Steps(Len(stack)) /\ News' /\ Len(stack) \in Nat
  BY <1>1, <1>3, <1>4, ProcAssumption, CallsOne
<1>6. synch' \in Synch /\ synch'.child = "alive"
  BY <1>4 DEF Synch
<1>7. Types'
  <2>1. stack' \in Seq(Frames)
    BY <1>5 DEF Steps
  <2> QED BY <1>2, <1>4, <1>6, <2>1 DEF Types, history, system
<1>8. Counted'
  BY <1>4, <1>6 DEF Inv, Counted, Dead, DeadOfCall, system
<1>9. \A q \in Procs : Started(q)' <=> Started(q)
  BY <1>4 DEF Started, system
<1> QED BY <1>4, <1>5, <1>7, <1>8, <1>9, ChildOnly DEF system

(* A process that starts is the youngest.                                    *)
LEMMA StartProcessKeeps == ASSUME Inv, NEW p \in Procs, StartProcess(p) PROVE Inv'
<1>1. /\ Steps(Len(stack)) /\ Len(stack) \in Nat /\ Len(stack') \in Nat /\ stack' = stack
      /\ UNCHANGED <<pipe, sigchld, written, synch, ticks, heard, told, nested>>
      /\ child[p] = "none" /\ child' = [child EXCEPT ![p] = "alive"]
      /\ proc' = [proc EXCEPT ![p].listed = TRUE, ![p].open = TRUE, ![p].mask = TRUE]
      /\ next' = [next EXCEPT ![Nil] = p, ![p] = next[Nil]]
  BY StackSame DEF StartProcess, history
<1>2. /\ Types /\ Books /\ Shape /\ Ordered
      /\ child \in [Procs -> {"none", "alive", "exit", "signal", "reaped"}]
      /\ proc \in [Procs -> Process] /\ next \in [Procs \cup {Nil} -> Procs \cup {Nil}]
  BY DEF Inv, Types
<1>3. ~Started(p) /\ \A q \in Procs : Started(q)' <=> Started(q) \/ q = p
  BY <1>1, <1>2 DEF Started
<1>4. /\ proc' \in [Procs -> Process] /\ \A q \in Procs \ {p} : proc'[q] = proc[q]
      /\ proc'[p].tick = proc[p].tick /\ proc'[p].update = proc[p].update
      /\ proc'[p].listed /\ proc'[p].open /\ proc'[p].mask
  BY <1>1, <1>2 DEF Process
<1>5. /\ next' \in [Procs \cup {Nil} -> Procs \cup {Nil}] /\ next'[Nil] = p /\ next'[p] = next[Nil]
      /\ \A q \in Procs \ {p} : next'[q] = next[q]
  BY <1>1, <1>2, ProcAssumption
<1>6. Types'
  <2>1. child' \in [Procs -> {"none", "alive", "exit", "signal", "reaped"}]
    BY <1>1, <1>2
  <2> QED BY <1>1, <1>2, <1>4, <1>5, <2>1 DEF Types
<1>7. Counted' /\ News'
  <2>1. Dead' = Dead
    BY <1>1, <1>2 DEF Dead
  <2> QED BY <1>1, <2>1 DEF Inv, Counted, DeadOfCall, News, Top, Changed
<1>8. Removals
  BY <1>3, <1>4 DEF Removals
<1>9. Shape'
  BY <1>1, <1>2, <1>8, ShapeKept DEF Steps, Quiet
<1>10. \A q \in Procs : proc[q].listed <=> proc[q].open
  BY <1>2 DEF Books, Listing
<1>11. \A q \in Procs : proc[q].open => Started(q)
  BY <1>2 DEF Books, Listing
<1>12. Books'
  <2>1. ASSUME NEW q \in Procs PROVE Listing(q)' /\ Output(q)' /\ Telling(q)'
    <3>1. Listing(q) /\ Output(q) /\ Telling(q)
      BY <1>2 DEF Books
    <3>2. CASE q = p
      <4>1. Listing(q)'
        BY <1>1, <1>3, <1>4, <3>1, <3>2 DEF Listing
      <4>2. Output(q)'
        <5>1. heard[q] \in Nat /\ pipe[q] \in Nat /\ written[q] = 0
          BY <1>2, <1>3, <3>1, <3>2 DEF Types, Output
        <5> QED BY <1>1, <1>3, <3>1, <3>2, <5>1 DEF Output
      <4>3. Telling(q)'
        BY <1>1, <1>4, <3>1, <3>2 DEF Telling, Reading
      <4> QED BY <4>1, <4>2, <4>3
    <3>3. CASE q # p
      <4>1. proc'[q] = proc[q] /\ (Started(q)' <=> Started(q))
        BY <1>3, <1>4, <3>3
      <4> QED BY <1>1, <3>1, <4>1 DEF Listing, Output, Telling, Reading
    <3> QED BY <3>2, <3>3
  <2> QED BY <2>1 DEF Books
<1>13. PICK rank \in [Procs -> Nat], N \in Nat : Order(rank, N) /\ Deletes(rank)
  BY <1>2 DEF Ordered
<1> DEFINE late == [rank EXCEPT ![p] = N]
<1>14. /\ late \in [Procs -> Nat] /\ late[p] = N
       /\ \A q \in Procs : Started(q) => late[q] = rank[q] /\ q # p /\ rank[q] < N
       /\ \A q \in Procs : rank[q] \in Nat
  BY <1>3, <1>13 DEF Order, Ages
<1> HIDE DEF late
<1>15. N + 1 \in Nat /\ N < N + 1 /\ \A k \in Nat : k < N => k < N + 1 /\ k <= N /\ k # N
  BY <1>13
<1>16. Ages(late, N + 1)'
  BY <1>3, <1>14, <1>15 DEF Ages
<1>17. Distinct(late)'
  BY <1>3, <1>13, <1>14, <1>15 DEF Distinct, Order
<1>18. Linked(late)'
  <2>1. ASSUME NEW q \in Procs, next'[q] \in Procs
        PROVE  Started(q)' /\ Started(next[q])' /\ late[next'[q]] < late[q]
    <3>1. CASE q = p
      <4>1. Started(next[Nil]) /\ next'[q] = next[Nil]
        BY <1>5, <1>13, <2>1, <3>1 DEF Order, Linked
      <4> QED BY <1>3, <1>14, <2>1, <3>1, <4>1 DEF Started
    <3>2. CASE q # p
      <4>1. next'[q] = next[q] /\ Started(q) /\ Started(next[q]) /\ rank[next[q]] < rank[q]
        BY <1>5, <1>13, <2>1, <3>2 DEF Order, Linked
      <4> QED BY <1>3, <1>14, <2>1, <4>1 DEF Started
    <3> QED BY <3>1, <3>2
  <2>2. Started(p)'
    BY <1>3
  <2> QED BY <1>5, <2>1, <2>2 DEF Linked, Started
<1>19. Skipless(late)'
  <2>1. ASSUME NEW r \in Procs, NEW q \in Procs, Started(q)', proc'[r].listed, late[r] < late[q]
        PROVE  next'[q] \in Procs /\ late[r] <= late[next'[q]]
    <3>1. CASE q = p
      <4>1. r # p
        BY <1>14, <1>15, <2>1, <3>1
      <4>2. proc[r].listed /\ Started(r)
        BY <1>4, <1>10, <1>11, <2>1, <4>1
      <4>3. next[Nil] \in Procs /\ rank[r] <= rank[next[Nil]] /\ Started(next[Nil])
        BY <1>13, <4>2 DEF Order, Skipless, Linked
      <4> QED BY <1>5, <1>14, <3>1, <4>2, <4>3
    <3>2. CASE q # p
      <4>1. Started(q) /\ late[q] = rank[q] /\ rank[q] < N
        BY <1>3, <1>14, <2>1, <3>2
      <4>2. r # p
        BY <1>14, <1>15, <2>1, <4>1
      <4>3. proc[r].listed /\ Started(r)
        BY <1>4, <1>10, <1>11, <2>1, <4>2
      <4>4. rank[r] < rank[q]
        BY <1>14, <2>1, <4>1, <4>3
      <4>5. next[q] \in Procs /\ rank[r] <= rank[next[q]] /\ Started(next[q])
        BY <1>13, <4>1, <4>3, <4>4 DEF Order, Skipless, Linked
      <4> QED BY <1>5, <1>14, <3>2, <4>3, <4>5
    <3> QED BY <3>1, <3>2
  <2>2. ASSUME NEW r \in Procs, proc'[r].listed
        PROVE  next'[Nil] \in Procs /\ late[r] <= late[next'[Nil]]
    <3>1. CASE r = p
      BY <1>5, <1>14, <3>1
    <3>2. CASE r # p
      <4>1. Started(r)
        BY <1>4, <1>10, <1>11, <2>2, <3>2
      <4> QED BY <1>5, <1>14, <1>15, <4>1
    <3> QED BY <3>1, <3>2
  <2> QED BY <2>1, <2>2 DEF Skipless
<1>20. Deletes(late)'
  <2>1. ASSUME NEW i \in 1 .. Len(stack), stack[i].kind = "delete", proc'[stack[i].proc].open
        PROVE  Pending(late, i, stack[i].proc)'
    <3>1. stack[i].proc \in Procs /\ Started(stack[i].proc)
      BY <1>2, <2>1 DEF Shape, Fits
    <3>2. proc'[stack[i].proc] = proc[stack[i].proc]
      BY <1>3, <1>4, <3>1
    <3>3. Pending(rank, i, stack[i].proc)
      BY <1>13, <2>1, <3>2 DEF Deletes
    <3>4. i + 1 \in 1 .. Len(stack)
      BY <1>1, <3>3 DEF Pending
    <3>5. Started(stack[i + 1].proc)
      BY <1>2, <3>3, <3>4 DEF Shape, Fits, Pending
    <3> QED BY <1>1, <1>14, <3>1, <3>2, <3>3, <3>5 DEF Pending, Reading
  <2> QED BY <1>1, <2>1 DEF Deletes
<1>21. Ordered'
  BY <1>14, <1>15, <1>16, <1>17, <1>18, <1>19, <1>20 DEF Ordered, Order
<1> QED BY <1>6, <1>7, <1>9, <1>12, <1>21 DEF Inv

(* The walk of delete-process has the process deleted ahead of it.           *)
LEMMA DeleteProcessKeeps == ASSUME Inv, NEW p \in Procs, DeleteProcess(p) PROVE Inv'
<1> DEFINE f == Frame("delete", p, "run")
           g == NotifyFrame
<1>1. f \in Frames /\ f.kind = "delete" /\ f.proc = p
  <2>1. "delete" \in Kinds /\ "run" \in Stages /\ p \in Procs \cup {Nil}
    BY DEF Kinds, Stages
  <2> QED BY <2>1, NewFrame
<1>2. /\ g \in Frames /\ g.kind = "notify" /\ g.stage = "visit" /\ g.proc = next[Nil]
      /\ (g.proc \in Procs => Started(g.proc))
  BY NotifyFrameIs
<1>3. stack' = stack \o <<f, g>>
  BY DEF DeleteProcess, Calls
<1> HIDE DEF f, g
<1>4. /\ Top.kind # "keyboard" /\ proc[p].open /\ next' = next
      /\ UNCHANGED <<pipe, written, synch, heard, told, nested>>
      /\ ticks' = [process |-> ticks.process + 1, update |-> ticks.process + 1]
      /\ proc' = [proc EXCEPT ![p].raw = "none", ![p].status = "signal", ![p].tick = ticks'.process]
      /\ IF child[p] = "alive"
         THEN child' = [child EXCEPT ![p] = "signal"] /\ sigchld' = sigchld + 1
         ELSE UNCHANGED <<child, sigchld>>
  BY DEF DeleteProcess, LispRuns, history
<1>5. /\ Types /\ Shape /\ Books /\ Ordered
      /\ child \in [Procs -> {"none", "alive", "exit", "signal", "reaped"}]
      /\ proc \in [Procs -> Process] /\ ticks.process \in Nat /\ sigchld \in Nat
  BY DEF Inv, Types
<1>6. /\ stack' \in Seq(Frames) /\ Len(stack') = Len(stack) + 2
      /\ stack'[Len(stack) + 1] = f /\ stack'[Len(stack) + 2] = g
      /\ Keeps(Len(stack))
      /\ \A i \in Len(stack) + 1 .. Len(stack') : i = Len(stack) + 1 \/ i = Len(stack) + 2
  BY <1>1, <1>2, <1>3, <1>5, TwoPushed
<1>7. Len(stack) \in Nat /\ Len(stack') \in Nat /\ Len(stack) > 0
  BY <1>5, <1>6 DEF Types, Shape
<1>8. \A q \in Procs : Started(q)' <=> Started(q)
  BY <1>4, <1>5 DEF Started
<1>9. ticks'.process = ticks.process + 1 /\ ticks'.update = ticks.process + 1 /\ ticks.process + 1 \in Nat
  BY <1>4, <1>5
<1>10. /\ proc' \in [Procs -> Process] /\ \A q \in Procs \ {p} : proc'[q] = proc[q]
       /\ proc'[p].tick = ticks.process + 1 /\ proc'[p].update = proc[p].update
       /\ proc'[p].listed = proc[p].listed /\ proc'[p].open = proc[p].open
       /\ proc'[p].mask = proc[p].mask
  <2> DEFINE r == [proc[p] EXCEPT !.raw = "none", !.status = "signal", !.tick = ticks.process + 1]
  <2>1. proc[p] \in Process /\ ticks.process + 1 \in Nat
    BY <1>5, <1>9
  <2>2. proc' = [proc EXCEPT ![p] = r]
    BY <1>4, <1>5, <1>9
  <2>3. /\ r \in Process /\ r.tick = ticks.process + 1 /\ r.update = proc[p].update
        /\ r.listed = proc[p].listed /\ r.open = proc[p].open /\ r.mask = proc[p].mask
    BY <2>1 DEF Process
  <2> HIDE DEF r
  <2> QED BY <1>5, <2>2, <2>3
<1>11. Types'
  <2>1. sigchld' \in Nat /\ child' \in [Procs -> {"none", "alive", "exit", "signal", "reaped"}]
    BY <1>4, <1>5
  <2>2. ticks' \in [process : Nat, update : Nat] /\ ticks'.update <= ticks'.process
    BY <1>4, <1>9
  <2> QED BY <1>4, <1>5, <1>6, <1>10, <2>1, <2>2 DEF Types
<1>12. Counted'
  <2>1. sigchld = Cardinality(Dead) + DeadOfCall /\ DeadOfCall \in Nat /\ DeadOfCall' = DeadOfCall
    BY <1>4 DEF Inv, Counted, DeadOfCall
  <2>2. CASE child[p] = "alive"
    <3>1. Dead' = Dead \cup {p} /\ p \notin Dead
      BY <1>4, <1>5, <2>2 DEF Dead
    <3>2. Cardinality(Dead') = Cardinality(Dead) + 1 /\ Cardinality(Dead) \in Nat
      BY <3>1, DeadCounts
    <3> QED BY <1>4, <2>1, <2>2, <3>2 DEF Counted
  <2>3. CASE child[p] # "alive"
    <3>1. Dead' = Dead
      BY <1>4, <2>3 DEF Dead
    <3> QED BY <1>4, <2>1, <2>3, <3>1 DEF Counted
  <2> QED BY <2>2, <2>3
<1>13. Removals
  BY <1>8, <1>10 DEF Removals
<1>14. ASSUME NEW i \in Len(stack) + 1 .. Len(stack')
       PROVE  Fits(i)' /\ \A q \in Procs : ~Reading(i, q)'
  <2>1. CASE i = Len(stack) + 1
    <3>1. stack'[i] = f /\ Started(p)'
      BY <1>4, <1>5, <1>6, <1>8, <2>1 DEF Books, Listing
    <3> QED BY <1>1, <3>1 DEF Fits, Reading, Started
  <2>2. CASE i = Len(stack) + 2
    <3>1. stack'[i] = g /\ (g.proc \in Procs => child'[g.proc] # "none")
      BY <1>2, <1>6, <1>8, <2>2 DEF Started
    <3> QED BY <1>2, <3>1 DEF Fits, Reading, Started
  <2> QED BY <1>6, <2>1, <2>2
<1>15. Shape'
  BY <1>4, <1>5, <1>6, <1>7, <1>13, <1>14, ShapeKept DEF Top
<1>16. News'
  <2>1. Top' = g
    BY <1>6 DEF Top
  <2> QED BY <1>2, <2>1 DEF News
<1>17. ASSUME NEW q \in Procs
       PROVE  /\ Listing(q) /\ Output(q) /\ Telling(q) /\ proc'[q].open = proc[q].open
              /\ proc[q].update <= proc[q].tick /\ proc[q].tick <= ticks.process
              /\ proc[q].update \in Nat /\ proc[q].tick \in Nat /\ proc'[q].listed = proc[q].listed
              /\ proc[q].tick # proc[q].update => proc'[q].tick # proc'[q].update
  <2>1. Listing(q) /\ Output(q) /\ Telling(q) /\ proc[q] \in Process
    BY <1>5 DEF Books
  <2>2. /\ proc[q].update <= proc[q].tick /\ proc[q].tick <= ticks.process
        /\ proc[q].update \in Nat /\ proc[q].tick \in Nat
    BY <2>1 DEF Listing, Process
  <2>3. CASE q = p
    BY <1>5, <1>10, <2>1, <2>2, <2>3
  <2>4. CASE q # p
    BY <1>10, <2>1, <2>2, <2>4
  <2> QED BY <2>3, <2>4
<1>18. Books'
  <2>1. ASSUME NEW q \in Procs PROVE Listing(q)' /\ Output(q)' /\ Telling(q)'
    <3>1. Output(q)'
      BY <1>4, <1>8, <1>17, OutputKept
    <3>2. told'[q] = told[q] /\ nested' = nested
      BY <1>4
    <3>3. Telling(q)'
      BY <1>5, <1>6, <1>7, <1>14, <1>17, <3>2, TellingKept
    <3>4. Listing(q)'
      <4>1. CASE q = p
        <5>1. proc[q].open
          BY <1>4, <4>1
        <5> QED BY <1>5, <1>8, <1>9, <1>10, <1>17, <3>2, <4>1, <5>1 DEF Listing
      <4>2. CASE q # p
        <5>1. proc'[q] = proc[q]
          BY <1>10, <4>2
        <5> QED BY <1>5, <1>8, <1>9, <1>17, <3>2, <5>1 DEF Listing
      <4> QED BY <4>1, <4>2
    <3> QED BY <3>1, <3>3, <3>4
  <2> QED BY <2>1 DEF Books
<1>19. PICK rank \in [Procs -> Nat], N \in Nat : Order(rank, N) /\ Deletes(rank)
  BY <1>5 DEF Ordered
<1>20. Order(rank, N)'
  BY <1>4, <1>8, <1>17, <1>19, OrderKept
<1>21. ~Pending(rank, Len(stack), stack[Len(stack)].proc)
  BY <1>7 DEF Pending
<1>22. next[Nil] \in Procs /\ rank[p] <= rank[next[Nil]]
  BY <1>4, <1>17, <1>19 DEF Order, Skipless, Listing
<1>23. ASSUME NEW i \in Len(stack) + 1 .. Len(stack'), stack'[i].kind = "delete"
       PROVE  Pending(rank, i, stack[i].proc)'
  <2>1. i = Len(stack) + 1
    BY <1>2, <1>6, <1>23
  <2>2. /\ i < Len(stack') /\ stack'[i] = f /\ stack'[i + 1] = g
    BY <1>6, <1>7, <2>1
  <2>3. proc'[p].tick # proc'[p].update
    BY <1>5, <1>10, <1>17
  <2> QED BY <1>1, <1>2, <1>22, <2>2, <2>3 DEF Pending
<1>24. Deletes(rank)'
  <2>1. \A k \in Len(stack) + 1 .. Len(stack) : FALSE
    BY <1>7
  <2> QED BY <1>5, <1>6, <1>7, <1>13, <1>17, <1>19, <1>21, <1>23, <2>1, DeletesKept
<1>25. Ordered'
  BY <1>19, <1>20, <1>24 DEF Ordered
<1> QED BY <1>11, <1>12, <1>15, <1>16, <1>18, <1>25 DEF Inv

(* The walk has removed the process: nothing is left for delete-process.     *)
LEMMA DeleteDoneKeeps == ASSUME Inv, DeleteDone PROVE Inv'
<1>1. /\ Types /\ Shape /\ Books /\ Ordered /\ Fits(Len(stack)) /\ Top = stack[Len(stack)]
      /\ Top.kind = "delete" /\ proc \in [Procs -> Process] /\ Len(stack) \in Nat
      /\ Len(stack) \in 1 .. Len(stack) /\ pipe \in [Procs -> Nat]
  BY TopFrame DEF DeleteDone, Inv, Types
<1>2. PICK p \in Procs : p = Top.proc
  BY <1>1 DEF Fits
<1>3. ~proc[p].open /\ ~proc[p].listed /\ ~proc[p].mask
  <2>1. PICK rank : Deletes(rank)
    BY <1>1 DEF Ordered
  <2>2. ~Pending(rank, Len(stack), p)
    BY <1>1 DEF Pending
  <2>3. ~proc[p].open
    BY <1>1, <1>2, <2>1, <2>2 DEF Deletes
  <2> QED BY <1>1, <2>3 DEF Books, Listing
<1>4. proc' = proc /\ next' = next
  <2>1. /\ proc' = [proc EXCEPT ![p] = [proc[p] EXCEPT !.listed = FALSE, !.open = FALSE, !.mask = FALSE]]
        /\ next' = next
    BY <1>2, <1>3 DEF DeleteDone, RemoveProcess, Unlinked
  <2>2. proc[p] \in Process
    BY <1>1
  <2>3. proc[p] = [proc[p] EXCEPT !.listed = FALSE, !.open = FALSE, !.mask = FALSE]
    BY <1>3, <2>2 DEF Process
  <2> QED BY <1>1, <2>1, <2>3
<1>5. /\ stack' = Pop /\ pipe' = [pipe EXCEPT ![p] = 0]
      /\ UNCHANGED <<child, sigchld, written, synch, ticks, heard, told, nested>>
  BY <1>2 DEF DeleteDone, RemoveProcess, history
<1>6. Steps(Len(stack) - 1) /\ News' /\ Len(stack) - 1 \in Nat
  BY <1>1, <1>5, Returns DEF Kinds
<1>7. Types'
  <2>1. pipe' \in [Procs -> Nat]
    BY <1>1, <1>5
  <2> QED BY <1>1, <1>4, <1>5, <1>6, <2>1 DEF Types, Steps
<1>8. Counted'
  BY <1>5 DEF Inv, Counted, Dead, DeadOfCall
<1>9. \A q \in Procs : Started(q)' <=> Started(q)
  BY <1>5 DEF Started
<1>10. Books'
  <2>1. ASSUME NEW q \in Procs PROVE Listing(q)' /\ Output(q)' /\ Telling(q)'
    <3>1. Listing(q) /\ Output(q) /\ Telling(q) /\ heard[q] \in Nat /\ written[q] \in Nat
          /\ pipe[q] \in Nat
      BY <1>1 DEF Books, Types
    <3>2. Listing(q)'
      BY <1>4, <1>5, <1>9, <3>1 DEF Listing
    <3>3. Output(q)'
      <4>1. CASE q = p
        BY <1>1, <1>3, <1>4, <1>5, <1>9, <3>1, <4>1 DEF Output
      <4>2. CASE q # p
        <5>1. pipe'[q] = pipe[q]
          BY <1>1, <1>5, <4>2
        <5> QED BY <1>4, <1>5, <1>9, <3>1, <5>1 DEF Output
      <4> QED BY <4>1, <4>2
    <3>4. Telling(q)'
      <4>1. \A i \in (Len(stack) - 1) + 1 .. Len(stack') : ~Reading(i, q)'
        BY <1>6 DEF Steps, Quiet, Reading
      <4>2. Keeps(Len(stack) - 1) /\ Len(stack') \in Nat
        BY <1>6, <1>7 DEF Steps, Quiet, Types
      <4> QED BY <1>1, <1>4, <1>5, <1>6, <3>1, <4>1, <4>2, TellingKept
    <3> QED BY <3>2, <3>3, <3>4
  <2> QED BY <2>1 DEF Books
<1> QED BY <1>4, <1>6, <1>7, <1>8, <1>9, <1>10, Assembled

-----------------------------------------------------------------------------
(* The walk.  A listed process that is not younger than P, and is not P, is  *)
(* not younger than what follows P.                                          *)
LEMMA Ahead ==
  ASSUME NEW rank \in [Procs -> Nat], NEW N, Order(rank, N), Books, NEW p \in Procs, Started(p),
         NEW q \in Procs, proc[q].open, rank[q] <= rank[p], q # p
  PROVE  next[p] \in Procs /\ rank[q] <= rank[next[p]] /\ rank[q] < rank[p]
<1>1. proc[q].listed /\ Started(q) /\ rank[q] \in Nat /\ rank[p] \in Nat
  BY DEF Books, Listing
<1>2. rank[q] # rank[p]
  BY <1>1 DEF Order, Distinct
<1>3. rank[q] < rank[p]
  BY <1>1, <1>2
<1> QED BY <1>1, <1>3 DEF Order, Skipless

(* A process without news is passed over.                                    *)
LEMMA PassKeeps ==
  ASSUME Inv, Visit, proc[Top.proc].tick = proc[Top.proc].update
  PROVE  Inv'
<1>1. /\ Types /\ Shape /\ Books /\ Ordered /\ Top = stack[Len(stack)]
      /\ Top.kind = "notify" /\ Top.stage = "visit" /\ Top.proc # Nil /\ Top.proc \in Procs \cup {Nil}
      /\ Len(stack) \in Nat /\ Len(stack) > 1 /\ Top \in Frames
  BY TopFrame DEF Visit, Inv, Types
<1>2. PICK p \in Procs : p = Top.proc
  BY <1>1
<1> DEFINE f == [Top EXCEPT !.proc = next[p]]
<1>3. f \in Frames /\ f.kind = "notify" /\ f.stage = "visit" /\ f.proc = next[p]
      /\ (next[p] \in Procs => Started(next[p]))
  BY <1>1, NextStarted DEF Frames
<1>4. /\ Becomes(f) /\ UNCHANGED <<child, pipe, sigchld, written, synch, proc, next, ticks, heard, told, nested>>
      /\ proc[p].tick = proc[p].update
  BY <1>1, <1>2 DEF Visit, Becomes, Top, history, system
<1> HIDE DEF f
<1>5. /\ stack' \in Seq(Frames) /\ Len(stack') = Len(stack) /\ stack'[Len(stack)] = f
      /\ Keeps(Len(stack) - 1) /\ \A i \in (Len(stack) - 1) + 1 .. Len(stack') : i = Len(stack)
  BY <1>1, <1>3, <1>4, Replaced
<1>6. /\ Len(stack') \in Nat /\ Len(stack) - 1 \in Nat /\ Len(stack) - 1 # Len(stack)
      /\ \A i \in (Len(stack) - 1) + 1 .. Len(stack') : stack'[i] = f /\ i = Len(stack)
  BY <1>1, <1>5
<1>7. Types'
  BY <1>1, <1>4, <1>5 DEF Types
<1>8. Counted'
  BY <1>4 DEF Inv, Counted, Dead, DeadOfCall
<1>9. News'
  <2>1. Top' = f
    BY <1>5 DEF Top
  <2> QED BY <1>3, <2>1 DEF News
<1>10. Removals /\ \A q \in Procs : Started(q)' <=> Started(q)
  BY <1>4 DEF Removals, Started
<1>11. Shape'
  <2>1. \A i \in (Len(stack) - 1) + 1 .. Len(stack') : Fits(i)'
    BY <1>3, <1>4, <1>6 DEF Fits, Started
  <2> QED BY <1>1, <1>5, <1>6, <1>10, <2>1, ShapeKept
<1>12. Books'
  <2>1. ASSUME NEW q \in Procs PROVE Listing(q)' /\ Output(q)' /\ Telling(q)'
    <3>1. Listing(q) /\ Output(q) /\ Telling(q)
      BY <1>1 DEF Books
    <3>2. Listing(q)' /\ Output(q)'
      BY <1>4, <1>10, <3>1 DEF Listing, Output
    <3>3. \A i \in (Len(stack) - 1) + 1 .. Len(stack') : ~Reading(i, q)'
      BY <1>3, <1>6 DEF Reading
    <3>4. Telling(q)'
      BY <1>1, <1>4, <1>5, <1>6, <3>1, <3>3, TellingKept
    <3> QED BY <3>2, <3>4
  <2> QED BY <2>1 DEF Books
<1>13. PICK rank \in [Procs -> Nat], N \in Nat : Order(rank, N) /\ Deletes(rank)
  BY <1>1 DEF Ordered
<1>14. Order(rank, N)'
  BY <1>4, <1>10, <1>13, OrderKept
<1>15. \A k \in (Len(stack) - 1) + 1 .. Len(stack), q \in Procs : ~Reading(k, q)
  <2>1. \A k \in (Len(stack) - 1) + 1 .. Len(stack) : k = Len(stack)
    BY <1>1
  <2> QED BY <1>1, <2>1 DEF Reading
<1>16. ASSUME NEW q \in Procs, proc[q].open, Pending(rank, Len(stack) - 1, q)
       PROVE  next[p] \in Procs /\ rank[q] <= rank[next[p]]
  <2>1. (Len(stack) - 1) + 1 = Len(stack)
    BY <1>1
  <2>2. rank[q] <= rank[p] /\ proc[q].tick # proc[q].update
    BY <1>1, <1>2, <1>15, <1>16, <2>1 DEF Pending
  <2>3. q # p
    BY <1>4, <2>2
  <2>4. Started(p)
    BY <1>1, <1>2 DEF Shape, Fits
  <2> QED BY <1>1, <1>13, <1>16, <2>2, <2>3, <2>4, Ahead
<1>17. Deletes(rank)'
  <2> DEFINE m == Len(stack) - 1
  <2>1. stack[m].kind = "delete" => stack[m].proc \in Procs
    <3>1. m \in 1 .. Len(stack)
      BY <1>1
    <3> QED BY <1>1, <3>1 DEF Shape, Fits
  <2>2. stack[m].kind = "delete" /\ proc'[stack[m].proc].open /\ Pending(rank, m, stack[m].proc) =>
           /\ m < Len(stack') /\ stack'[m + 1].kind = "notify" /\ stack'[m + 1].proc \in Procs
           /\ rank[stack[m].proc] <= rank[stack'[m + 1].proc]
    <3>1. m < Len(stack') /\ stack'[m + 1] = f
      BY <1>1, <1>5
    <3> QED BY <1>3, <1>4, <1>16, <2>1, <3>1
  <2>3. \A i \in m + 1 .. Len(stack') : stack'[i].kind # "delete"
    BY <1>3, <1>6
  <2>4. m \in Nat /\ Keeps(m) /\ \A k \in m + 1 .. Len(stack), q \in Procs : ~Reading(k, q)
    BY <1>5, <1>6, <1>15
  <2> HIDE DEF m
  <2> QED BY <1>1, <1>4, <1>6, <1>10, <1>13, <2>2, <2>3, <2>4, DeletesKept
<1> QED BY <1>7, <1>8, <1>9, <1>11, <1>12, <1>13, <1>14, <1>17 DEF Inv, Ordered

(* A process with news is seen, and the rest of its output is read.          *)
LEMMA SeeKeeps ==
  ASSUME Inv, Visit, proc[Top.proc].tick # proc[Top.proc].update
  PROVE  Inv'
<1>1. /\ Types /\ Shape /\ Books /\ Ordered /\ Top = stack[Len(stack)]
      /\ Top.kind = "notify" /\ Top.stage = "visit" /\ Top.proc # Nil /\ Top.proc \in Procs \cup {Nil}
      /\ Len(stack) \in Nat /\ Len(stack) > 1 /\ Top \in Frames /\ proc \in [Procs -> Process]
  BY TopFrame DEF Visit, Inv, Types
<1>2. PICK p \in Procs : p = Top.proc
  BY <1>1
<1>3. Started(p) /\ proc[p].tick # proc[p].update /\ proc[p].open
  <2>1. Started(p)
    BY <1>1, <1>2 DEF Shape, Fits
  <2> QED BY <1>1, <1>2, <2>1 DEF Books, Listing
<1> DEFINE f == [Top EXCEPT !.stage = "read"]
<1>4. f \in Frames /\ f.kind = "notify" /\ f.stage = "read" /\ f.proc = p
  BY <1>1, <1>2 DEF Frames, Stages
<1>5. /\ Becomes(f) /\ UNCHANGED <<child, pipe, sigchld, written, synch, next, ticks, heard, told, nested>>
      /\ proc' = [proc EXCEPT ![p].update = proc[p].tick]
  BY <1>1, <1>2, <1>3 DEF Visit, Becomes, At, Top, history, system
<1> HIDE DEF f
<1>6. /\ stack' \in Seq(Frames) /\ Len(stack') = Len(stack) /\ stack'[Len(stack)] = f
      /\ Keeps(Len(stack) - 1) /\ \A i \in (Len(stack) - 1) + 1 .. Len(stack') : i = Len(stack)
  BY <1>1, <1>4, <1>5, Replaced
<1>7. /\ Len(stack') \in Nat /\ Len(stack) - 1 \in Nat /\ Len(stack) - 1 # Len(stack)
      /\ \A i \in (Len(stack) - 1) + 1 .. Len(stack') : stack'[i] = f /\ i = Len(stack)
  BY <1>1, <1>6
<1>8. /\ proc' \in [Procs -> Process] /\ \A q \in Procs \ {p} : proc'[q] = proc[q]
      /\ proc'[p].tick = proc[p].tick /\ proc'[p].update = proc[p].tick
      /\ proc'[p].listed = proc[p].listed /\ proc'[p].open = proc[p].open
      /\ proc'[p].mask = proc[p].mask /\ proc[p].tick \in Nat
  <2>1. proc[p].tick \in Nat
    BY <1>1 DEF Process
  <2> QED BY <1>1, <1>5, <2>1 DEF Process
<1>9. Types'
  BY <1>1, <1>5, <1>6, <1>8 DEF Types
<1>10. Counted'
  BY <1>5 DEF Inv, Counted, Dead, DeadOfCall
<1>11. News'
  <2>1. Top' = f
    BY <1>6 DEF Top
  <2> QED BY <1>4, <2>1 DEF News
<1>12. /\ Removals /\ \A q \in Procs : Started(q)' <=> Started(q)
       /\ \A q \in Procs : proc'[q].open = proc[q].open /\ proc'[q].listed = proc[q].listed
  BY <1>5, <1>8 DEF Removals, Started
<1>13. Shape'
  <2>1. \A i \in (Len(stack) - 1) + 1 .. Len(stack') : Fits(i)'
    BY <1>3, <1>4, <1>5, <1>7 DEF Fits, Started
  <2> QED BY <1>1, <1>6, <1>7, <1>12, <2>1, ShapeKept
<1>14. Books'
  <2>1. ASSUME NEW q \in Procs PROVE Listing(q)' /\ Output(q)' /\ Telling(q)'
    <3>1. Listing(q) /\ Output(q) /\ Telling(q)
      BY <1>1 DEF Books
    <3>2. Output(q)'
      BY <1>5, <1>12, <3>1 DEF Output
    <3>3. Listing(q)'
      <4>1. CASE q = p
        BY <1>5, <1>8, <1>12, <3>1, <4>1 DEF Listing
      <4>2. CASE q # p
        BY <1>5, <1>8, <1>12, <3>1, <4>2 DEF Listing
      <4> QED BY <4>1, <4>2
    <3>4. \A i \in (Len(stack) - 1) + 1 .. Len(stack') : Reading(i, q)' => proc[q].open
      BY <1>3, <1>4, <1>7 DEF Reading
    <3>5. Telling(q)'
      BY <1>1, <1>5, <1>6, <1>7, <1>12, <3>1, <3>4, TellingKept
    <3> QED BY <3>2, <3>3, <3>5
  <2> QED BY <2>1 DEF Books
<1>15. PICK rank \in [Procs -> Nat], N \in Nat : Order(rank, N) /\ Deletes(rank)
  BY <1>1 DEF Ordered
<1>16. Order(rank, N)'
  BY <1>5, <1>12, <1>15, OrderKept
<1>17. Deletes(rank)'
  <2> DEFINE m == Len(stack) - 1
  <2>1. m \in Nat /\ Keeps(m) /\ m + 1 = Len(stack) /\ m + 1 \in m + 1 .. Len(stack') /\ m < Len(stack')
    BY <1>1, <1>6
  <2>2. stack'[m + 1] = f /\ stack[m + 1] = Top
    BY <1>1, <1>6, <2>1
  <2>3. Reading(m + 1, p)'
    BY <1>4, <1>6, <2>1 DEF Reading
  <2>4. \A q \in Procs : proc'[q].open /\ proc[q].tick # proc[q].update =>
           \/ proc'[q].tick # proc'[q].update
           \/ \E k \in m + 1 .. Len(stack') : Reading(k, q)'
    BY <1>8, <2>1, <2>3
  <2>5. \A k \in m + 1 .. Len(stack), q \in Procs : ~Reading(k, q)
    <3>1. \A k \in m + 1 .. Len(stack) : k = Len(stack)
      BY <1>1
    <3> QED BY <1>1, <3>1 DEF Reading
  <2>6. Pending(rank, m, stack[m].proc) =>
           /\ m < Len(stack') /\ stack'[m + 1].kind = "notify" /\ stack'[m + 1].proc \in Procs
           /\ rank[stack[m].proc] <= rank[stack'[m + 1].proc]
    BY <1>2, <1>4, <2>1, <2>2 DEF Pending
  <2>7. \A i \in m + 1 .. Len(stack') : stack'[i].kind # "delete"
    BY <1>4, <1>7
  <2> HIDE DEF m
  <2> QED BY <1>1, <1>7, <1>12, <1>15, <2>1, <2>4, <2>5, <2>6, <2>7, DeletesKept
<1> QED BY <1>9, <1>10, <1>11, <1>13, <1>14, <1>15, <1>16, <1>17 DEF Inv, Ordered

(* What is taken off the list is unlinked: the order of the others stays.    *)
LEMMA UnlinkedKept ==
  ASSUME Types, NEW rank \in [Procs -> Nat], NEW N, Order(rank, N), Books, NEW p \in Procs,
         next' = Unlinked(p), ~proc'[p].listed,
         \A q \in Procs \ {p} : proc'[q].listed = proc[q].listed,
         \A q \in Procs : Started(q)' <=> Started(q)
  PROVE  Order(rank, N)'
<1>1. CASE ~proc[p].listed
  <2>1. next' = next
    BY <1>1 DEF Unlinked
  <2>2. \A q \in Procs : proc'[q].listed => proc[q].listed
    OBVIOUS
  <2> QED BY <2>1, <2>2, OrderKept
<1>2. CASE proc[p].listed
  <2>1. /\ next \in [Procs \cup {Nil} -> Procs \cup {Nil}]
        /\ \A q \in Procs : next'[q] = IF next[q] = p /\ proc[q].listed THEN next[p] ELSE next[q]
        /\ next'[Nil] = IF next[Nil] = p THEN next[p] ELSE next[Nil]
    BY <1>2, ProcAssumption DEF Unlinked, Types
  <2>2. Started(p) /\ \A q \in Procs : proc[q].listed => Started(q)
    BY <1>2 DEF Books, Listing
  <2>3. \A q \in Procs : rank[q] \in Nat
    OBVIOUS
  <2>4. Ages(rank, N)' /\ Distinct(rank)'
    BY DEF Order, Ages, Distinct
  <2>5. Linked(rank)'
    <3>1. ASSUME NEW q \in Procs, next'[q] \in Procs
          PROVE  Started(q)' /\ Started(next[q])' /\ rank[next'[q]] < rank[q]
      <4>1. CASE next'[q] = next[q]
        <5>1. Started(q) /\ Started(next[q]) /\ rank[next[q]] < rank[q]
          BY <3>1, <4>1 DEF Order, Linked
        <5> QED BY <3>1, <4>1, <5>1 DEF Started
      <4>2. CASE next[q] = p /\ next'[q] = next[p]
        <5>1. Started(q) /\ rank[p] < rank[q] /\ Started(next[p]) /\ rank[next[p]] < rank[p]
          BY <3>1, <4>2 DEF Order, Linked
        <5>2. rank[next[p]] < rank[q]
          BY <2>3, <3>1, <4>2, <5>1
        <5> QED BY <3>1, <4>2, <5>1, <5>2 DEF Started
      <4> QED BY <2>1, <4>1, <4>2
    <3>2. next'[Nil] \in Procs => Started(next[Nil])'
      <4>1. CASE next'[Nil] = next[Nil]
        BY <4>1 DEF Order, Linked, Started
      <4>2. CASE next'[Nil] = next[p]
        BY <4>2 DEF Order, Linked, Started
      <4> QED BY <2>1, <4>1, <4>2
    <3> QED BY <3>1, <3>2 DEF Linked, Started
  <2>6. \A r \in Procs : proc'[r].listed => proc[r].listed /\ r # p /\ proc[r].open
    BY DEF Books, Listing
  <2>7. Skipless(rank)'
    <3>1. ASSUME NEW r \in Procs, NEW q \in Procs, Started(q)', proc'[r].listed, rank[r] < rank[q]
          PROVE  next'[q] \in Procs /\ rank[r] <= rank[next'[q]]
      <4>1. next[q] \in Procs /\ rank[r] <= rank[next[q]]
        BY <2>6, <3>1 DEF Order, Skipless
      <4>2. CASE next[q] = p
        <5>1. next[p] \in Procs /\ rank[r] <= rank[next[p]]
          BY <2>2, <2>6, <3>1, <4>1, <4>2, Ahead
        <5> QED BY <2>1, <4>1, <5>1
      <4>3. CASE next[q] # p
        BY <2>1, <4>1, <4>3
      <4> QED BY <4>2, <4>3
    <3>2. ASSUME NEW r \in Procs, proc'[r].listed
          PROVE  next'[Nil] \in Procs /\ rank[r] <= rank[next'[Nil]]
      <4>1. next[Nil] \in Procs /\ rank[r] <= rank[next[Nil]]
        BY <2>6, <3>2 DEF Order, Skipless
      <4>2. CASE next[Nil] = p
        <5>1. next[p] \in Procs /\ rank[r] <= rank[next[p]]
          BY <2>2, <2>6, <3>2, <4>1, <4>2, Ahead
        <5> QED BY <2>1, <4>1, <5>1
      <4>3. CASE next[Nil] # p
        BY <2>1, <4>1, <4>3
      <4> QED BY <4>2, <4>3
    <3> QED BY <3>1, <3>2 DEF Skipless
  <2> QED BY <2>4, <2>5, <2>7 DEF Order
<1> QED BY <1>1, <1>2

(* What a report does to the process, and to the functions in progress: the  *)
(* walk goes on, with the sentinel called or the next process.               *)
LEMMA Reports ==
  ASSUME Inv, Report, NEW p \in Procs, p = Top.proc
  PROVE  /\ UNCHANGED <<child, sigchld, written, synch, ticks, heard>>
         /\ Exhausted(p) /\ next' = Unlinked(p) /\ pipe' = [pipe EXCEPT ![p] = 0]
         /\ proc' \in [Procs -> Process] /\ \A q \in Procs \ {p} : proc'[q] = proc[q]
         /\ ~proc'[p].listed /\ ~proc'[p].open /\ ~proc'[p].mask
         /\ proc'[p].tick = proc[p].tick /\ proc'[p].update = proc[p].tick
         /\ nested' = nested \cup {q \in {p} : WalkedBelow(q)}
         /\ told' \in [Procs -> Nat] /\ \A q \in Procs \ {p} : told'[q] = told[q]
         /\ told'[p] = told[p] \/ told'[p] = told[p] + 1
<1>1. p = Top.proc /\ proc \in [Procs -> Process] /\ proc[p] \in Process /\ told \in [Procs -> Nat]
  BY DEF Inv, Types
<1>2. /\ UNCHANGED <<child, sigchld, written, synch, ticks, heard>>
      /\ Exhausted(p) /\ next' = Unlinked(p) /\ pipe' = [pipe EXCEPT ![p] = 0]
      /\ nested' = nested \cup {q \in {p} : WalkedBelow(q)}
      /\ told' = told \/ told' = [told EXCEPT ![p] = @ + 1]
      /\ proc' = [proc EXCEPT ![p] =
           [[Updated(p) EXCEPT !.update = Updated(p).tick, !.sentinel = FALSE]
              EXCEPT !.listed = FALSE, !.open = FALSE, !.mask = FALSE]]
  BY <1>1 DEF Report, RemoveProcess
<1>3. Updated(p) \in Process /\ Updated(p).tick = proc[p].tick /\ proc[p].tick \in Nat
  BY <1>1, UpdatedIs DEF Process
<1>4. /\ proc' \in [Procs -> Process] /\ \A q \in Procs \ {p} : proc'[q] = proc[q]
      /\ ~proc'[p].listed /\ ~proc'[p].open /\ ~proc'[p].mask
      /\ proc'[p].tick = proc[p].tick /\ proc'[p].update = proc[p].tick
  <2> DEFINE r == [[Updated(p) EXCEPT !.update = Updated(p).tick, !.sentinel = FALSE]
                     EXCEPT !.listed = FALSE, !.open = FALSE, !.mask = FALSE]
  <2>1. /\ r \in Process /\ ~r.listed /\ ~r.open /\ ~r.mask
        /\ r.tick = proc[p].tick /\ r.update = proc[p].tick
    BY <1>3 DEF Process
  <2> HIDE DEF r
  <2>2. proc' = [proc EXCEPT ![p] = r]
    BY <1>2 DEF r
  <2> QED BY <1>1, <2>1, <2>2
<1>5. /\ told' \in [Procs -> Nat] /\ \A q \in Procs \ {p} : told'[q] = told[q]
      /\ told'[p] = told[p] \/ told'[p] = told[p] + 1
  <2>1. told[p] + 1 \in Nat
    BY <1>1
  <2> QED BY <1>1, <1>2, <2>1
<1> QED BY <1>2, <1>4, <1>5

(* The walk passes on, or calls the sentinel and waits at the process.       *)
LEMMA ReportsOnStack ==
  ASSUME Inv, Report, NEW p \in Procs, p = Top.proc
  PROVE  \E f \in Frames :
           /\ f.kind = "notify" /\ f.stage = "visit"
           /\ stack' \in Seq(Frames) /\ Keeps(Len(stack) - 1) /\ stack'[Len(stack)] = f
           /\ \/ f.proc = next[p] /\ Len(stack') = Len(stack)
              \/ /\ f.proc = p /\ Len(stack') = Len(stack) + 1
                 /\ stack'[Len(stack) + 1] = Frame("sentinel", p, "run")
<1>1. /\ Types /\ Shape /\ Top = stack[Len(stack)] /\ Top.kind = "notify" /\ Top.kind # "command"
      /\ Len(stack) \in Nat /\ Top \in Frames /\ p = Top.proc
  BY TopFrame DEF Report, Inv
<1> DEFINE f == [Top EXCEPT !.stage = "visit"]
           h == [Top EXCEPT !.stage = "visit", !.proc = next[p]]
           g == Frame("sentinel", p, "run")
<1>2. f \in Frames /\ f.kind = "notify" /\ f.stage = "visit" /\ f.proc = p
  BY <1>1 DEF Frames, Stages
<1>3. h \in Frames /\ h.kind = "notify" /\ h.stage = "visit" /\ h.proc = next[p]
  BY <1>1, NextStarted DEF Frames, Stages
<1>4. g \in Frames
  <2>1. "sentinel" \in Kinds /\ "run" \in Stages /\ p \in Procs \cup {Nil}
    BY DEF Kinds, Stages
  <2> QED BY <2>1, NewFrame
<1>5. At("visit") = [stack EXCEPT ![Len(stack)] = f]
  BY DEF At, Top
<1>6. [At("visit") EXCEPT ![Len(stack)].proc = next[p]] = [stack EXCEPT ![Len(stack)] = h]
  BY <1>1 DEF At, Top, Types, Frames
<1>7. stack' = Append(At("visit"), g) \/ stack' = [At("visit") EXCEPT ![Len(stack)].proc = next[p]]
  BY <1>1 DEF Report
<1>8. CASE stack' = Append(At("visit"), g)
  <2> HIDE DEF f, g
  <2>1. stack' = Append([stack EXCEPT ![Len(stack)] = f], g)
    BY <1>5, <1>8
  <2>2. /\ stack' \in Seq(Frames) /\ Len(stack') = Len(stack) + 1 /\ stack'[Len(stack)] = f
        /\ stack'[Len(stack) + 1] = g /\ Keeps(Len(stack) - 1)
    BY <1>1, <1>2, <1>4, <2>1, ReplacedPushed
  <2> QED BY <1>2, <2>2 DEF g
<1>9. CASE stack' = [At("visit") EXCEPT ![Len(stack)].proc = next[p]]
  <2> HIDE DEF h
  <2>1. Becomes(h)
    BY <1>6, <1>9 DEF Becomes
  <2>2. /\ stack' \in Seq(Frames) /\ Len(stack') = Len(stack) /\ stack'[Len(stack)] = h
        /\ Keeps(Len(stack) - 1)
    BY <1>1, <1>3, <2>1, Replaced
  <2> QED BY <1>3, <2>2
<1> QED BY <1>7, <1>8, <1>9

(* A process is reported: it is off the list for good, told of once.         *)
LEMMA ReportKeeps == ASSUME Inv, Report PROVE Inv'
<1>1. /\ Types /\ Shape /\ Books /\ Ordered /\ Top = stack[Len(stack)] /\ Fits(Len(stack))
      /\ Top.kind = "notify" /\ Top.stage = "read" /\ Len(stack) \in Nat /\ Len(stack) > 1
      /\ pipe \in [Procs -> Nat]
  BY TopFrame DEF Report, Inv, Types
<1>2. PICK p \in Procs : p = Top.proc
  BY <1>1 DEF Fits
<1>3. Started(p)
  BY <1>1, <1>2 DEF Fits
<1>4. /\ UNCHANGED <<child, sigchld, written, synch, ticks, heard>>
      /\ Exhausted(p) /\ next' = Unlinked(p) /\ pipe' = [pipe EXCEPT ![p] = 0]
      /\ proc' \in [Procs -> Process] /\ \A q \in Procs \ {p} : proc'[q] = proc[q]
      /\ ~proc'[p].listed /\ ~proc'[p].open /\ ~proc'[p].mask
      /\ proc'[p].tick = proc[p].tick /\ proc'[p].update = proc[p].tick
      /\ nested' = nested \cup {q \in {p} : WalkedBelow(q)}
      /\ told' \in [Procs -> Nat] /\ \A q \in Procs \ {p} : told'[q] = told[q]
      /\ told'[p] = told[p] \/ told'[p] = told[p] + 1
  BY <1>2, Reports
<1>5. PICK f \in Frames :
        /\ f.kind = "notify" /\ f.stage = "visit"
        /\ stack' \in Seq(Frames) /\ Keeps(Len(stack) - 1) /\ stack'[Len(stack)] = f
        /\ \/ f.proc = next[p] /\ Len(stack') = Len(stack)
           \/ /\ f.proc = p /\ Len(stack') = Len(stack) + 1
              /\ stack'[Len(stack) + 1] = Frame("sentinel", p, "run")
  BY <1>2, ReportsOnStack
<1> DEFINE m == Len(stack) - 1
<1>6. /\ Len(stack') \in Nat /\ m \in Nat /\ m # Len(stack) /\ m + 1 = Len(stack) /\ m > 0 /\ Keeps(m)
      /\ \A i \in m + 1 .. Len(stack') : i = Len(stack) \/ (i = Len(stack) + 1 /\ i = Len(stack'))
      /\ m < Len(stack')
  BY <1>1, <1>5
<1> HIDE DEF m
<1>7. ASSUME NEW i \in m + 1 .. Len(stack')
      PROVE  /\ stack'[i] = f \/ (/\ stack'[i] = Frame("sentinel", p, "run") /\ i = Len(stack) + 1
                                  /\ i - 1 = Len(stack) /\ i > 1 /\ f.proc = p)
             /\ stack'[i].kind \in {"notify", "sentinel"} /\ stack'[i].stage # "read"
  <2>1. CASE i = Len(stack)
    BY <1>5, <2>1
  <2>2. CASE i = Len(stack) + 1 /\ i = Len(stack')
    <3>1. stack'[i] = Frame("sentinel", p, "run") /\ f.proc = p /\ i - 1 = Len(stack) /\ i > 1
      BY <1>1, <1>5, <2>2
    <3> QED BY <2>2, <3>1 DEF Frame
  <2> QED BY <1>6, <2>1, <2>2
<1>8. /\ \A q \in Procs : Started(q)' <=> Started(q)
      /\ Removals
      /\ \A q \in Procs : proc'[q].open <=> proc[q].open /\ q # p
  BY <1>4 DEF Started, Removals
<1>9. Types'
  <2>1. pipe' \in [Procs -> Nat] /\ nested' \subseteq Procs
    BY <1>1, <1>4 DEF Types
  <2>2. next' \in [Procs \cup {Nil} -> Procs \cup {Nil}]
    <3>1. next \in [Procs \cup {Nil} -> Procs \cup {Nil}]
      BY <1>1 DEF Types
    <3> QED BY <1>4, <3>1 DEF Unlinked
  <2> QED BY <1>1, <1>4, <1>5, <2>1, <2>2 DEF Types
<1>10. Counted'
  BY <1>4 DEF Inv, Counted, Dead, DeadOfCall
<1>11. News'
  <2>1. Len(stack') \in m + 1 .. Len(stack')
    BY <1>6
  <2>2. Top'.kind \in {"notify", "sentinel"}
    BY <1>7, <2>1 DEF Top
  <2> QED BY <2>2 DEF News
<1>12. Shape'
  <2>1. ASSUME NEW i \in m + 1 .. Len(stack') PROVE Fits(i)'
    <3>1. CASE stack'[i] = f
      <4>1. f.proc \in Procs => Started(f.proc)
        BY <1>3, <1>5, NextStarted
      <4>2. f.proc \in Procs => child'[f.proc] # "none"
        BY <1>4, <4>1 DEF Started
      <4> QED BY <1>5, <3>1, <4>2 DEF Fits, Started
    <3>2. CASE stack'[i] = Frame("sentinel", p, "run") /\ i - 1 = Len(stack) /\ i > 1 /\ f.proc = p
      <4>1. stack'[i - 1] = f /\ child'[p] # "none" /\ p \in Procs
        BY <1>3, <1>4, <1>5, <3>2 DEF Started
      <4>2. stack'[i].kind = "sentinel" /\ stack'[i].proc = p
        BY <3>2 DEF Frame
      <4> QED BY <1>4, <1>5, <3>2, <4>1, <4>2 DEF Fits, Started
    <3> QED BY <1>7, <3>1, <3>2
  <2> QED BY <1>1, <1>6, <1>8, <2>1, ShapeKept
<1>13. \A i \in m + 1 .. Len(stack'), q \in Procs : ~Reading(i, q)'
  BY <1>7 DEF Reading
<1>14. Books'
  <2>1. ASSUME NEW q \in Procs PROVE Listing(q)' /\ Output(q)' /\ Telling(q)'
    <3>1. Listing(q) /\ Output(q) /\ Telling(q) /\ heard[q] \in Nat /\ written[q] \in Nat
          /\ pipe[q] \in Nat
      BY <1>1 DEF Books, Types
    <3>2. CASE q # p
      <4>1. proc'[q] = proc[q] /\ told'[q] = told[q] /\ pipe'[q] = pipe[q] /\ (Started(q)' <=> Started(q))
        BY <1>1, <1>4, <1>8, <3>2
      <4>2. Listing(q)' /\ Output(q)'
        BY <1>4, <3>1, <4>1 DEF Listing, Output
      <4>3. q \notin nested' => q \notin nested
        BY <1>4
      <4>4. Telling(q)'
        BY <1>1, <1>6, <1>13, <3>1, <4>1, <4>3, TellingKept
      <4> QED BY <4>2, <4>4
    <3>3. CASE q = p
      <4>1. Listing(q)'
        <5>1. proc[p] \in Process /\ proc[p].tick \in Nat
          BY <1>1 DEF Types, Process
        <5> QED BY <1>3, <1>4, <1>8, <3>1, <3>3, <5>1 DEF Listing
      <4>2. Output(q)'
        <5>1. pipe'[q] = 0
          BY <1>1, <1>4, <3>3
        <5> QED BY <1>3, <1>4, <1>8, <3>1, <3>3, <5>1 DEF Output
      <4>3. Telling(q)'
        <5> SUFFICES ASSUME q \notin nested'
                     PROVE  told'[q] <= 1 /\ \A i \in 1 .. Len(stack') : ~Reading(i, q)'
          BY DEF Telling
        <5>1. q \notin nested /\ ~WalkedBelow(q)
          BY <1>4, <3>3
        <5>2. Reading(Len(stack), q) /\ Len(stack) \in 1 .. Len(stack)
          BY <1>1, <1>2, <3>3 DEF Reading
        <5>3. proc[q].open /\ told[q] = 0
          BY <3>1, <5>1, <5>2 DEF Telling, Listing
        <5>4. told'[q] <= 1
          BY <1>4, <3>3, <5>3
        <5>5. \A i \in 1 .. m : ~Reading(i, q)'
          <6>1. \A i \in 1 .. m : i \in 1 .. Len(stack) - 1 /\ stack'[i] = stack[i]
            BY <1>1, <1>6 DEF Keeps
          <6> QED BY <5>1, <6>1 DEF WalkedBelow, Reading
        <5>6. \A i \in 1 .. Len(stack') : i \in 1 .. m \/ i \in m + 1 .. Len(stack')
          BY <1>6
        <5> QED BY <1>13, <5>4, <5>5, <5>6
      <4> QED BY <4>1, <4>2, <4>3
    <3> QED BY <3>2, <3>3
  <2> QED BY <2>1 DEF Books
<1>15. PICK rank \in [Procs -> Nat], N \in Nat : Order(rank, N) /\ Deletes(rank)
  BY <1>1 DEF Ordered
<1>16. Order(rank, N)'
  <2>1. \A q \in Procs \ {p} : proc'[q].listed = proc[q].listed
    BY <1>4
  <2> QED BY <1>1, <1>4, <1>8, <1>15, <2>1, UnlinkedKept
<1>17. Deletes(rank)'
  <2>1. \A q \in Procs : proc'[q].open /\ proc[q].tick # proc[q].update =>
          proc'[q].tick # proc'[q].update
    BY <1>4
  <2>2. \A k \in m + 1 .. Len(stack), q \in Procs : Reading(k, q) => ~proc'[q].open
    <3>1. \A k \in m + 1 .. Len(stack) : k = Len(stack)
      BY <1>6
    <3> QED BY <1>1, <1>2, <1>4, <3>1 DEF Reading
  <2>3. stack[m].kind = "delete" => stack[m].proc \in Procs
    <3>1. m \in 1 .. Len(stack)
      BY <1>6
    <3> QED BY <1>1, <3>1 DEF Shape, Fits
  <2>4. stack[m].kind = "delete" /\ proc'[stack[m].proc].open /\ Pending(rank, m, stack[m].proc) =>
           /\ m < Len(stack') /\ stack'[m + 1].kind = "notify" /\ stack'[m + 1].proc \in Procs
           /\ rank[stack[m].proc] <= rank[stack'[m + 1].proc]
    <3> SUFFICES ASSUME NEW q \in Procs, stack[m].proc = q, proc'[q].open, Pending(rank, m, q)
                 PROVE  f.proc \in Procs /\ rank[q] <= rank[f.proc]
      BY <1>5, <1>6, <2>3
    <3>1. rank[q] <= rank[p] /\ q # p /\ proc[q].open
      BY <1>1, <1>2, <1>6, <1>8 DEF Pending
    <3>2. next[p] \in Procs /\ rank[q] <= rank[next[p]]
      BY <1>1, <1>3, <1>15, <3>1, Ahead
    <3> QED BY <1>5, <3>1, <3>2
  <2>5. \A i \in m + 1 .. Len(stack') : stack'[i].kind # "delete"
    BY <1>7
  <2> QED BY <1>1, <1>6, <1>8, <1>15, <2>1, <2>2, <2>4, <2>5, DeletesKept
<1> QED BY <1>9, <1>10, <1>11, <1>12, <1>14, <1>15, <1>16, <1>17 DEF Inv, Ordered

(* The functions that are left when one returns.                             *)
LEMMA PopIs ==
  ASSUME stack \in Seq(Frames), Len(stack) > 1
  PROVE  /\ Pop \in Seq(Frames) /\ Len(Pop) = Len(stack) - 1
         /\ \A i \in 1 .. Len(stack) - 1 : Pop[i] = stack[i]
<1>1. Len(stack) \in Nat /\ 1 \in Int /\ Len(stack) - 1 \in Int /\ 1 <= Len(stack) - 1
  OBVIOUS
<1>2. \A i \in 1 .. Len(stack) - 1 : stack[i] \in Frames
  OBVIOUS
<1>3. /\ Pop \in Seq(Frames) /\ Len(Pop) = (Len(stack) - 1) - 1 + 1
      /\ \A i \in 1 .. (Len(stack) - 1) - 1 + 1 : Pop[i] = stack[1 + i - 1]
  BY <1>1, <1>2, SubSeqProperties DEF Pop
<1>4. \A i \in 1 .. Len(stack) - 1 : i \in 1 .. (Len(stack) - 1) - 1 + 1 /\ 1 + i - 1 = i
  BY <1>1
<1> QED BY <1>1, <1>3, <1>4
(* A sequence of frames with one frame changed.                              *)
LEMMA SeqSet ==
  ASSUME NEW s \in Seq(Frames), NEW f \in Frames, NEW n \in 1 .. Len(s)
  PROVE  /\ [s EXCEPT ![n] = f] \in Seq(Frames) /\ Len([s EXCEPT ![n] = f]) = Len(s)
         /\ [s EXCEPT ![n] = f][n] = f
         /\ \A i \in 1 .. Len(s) : i # n => [s EXCEPT ![n] = f][i] = s[i]
  OBVIOUS
(* Its elements are frames.                                                  *)
LEMMA SeqHas ==
  ASSUME NEW s \in Seq(Frames), NEW n \in 1 .. Len(s)
  PROVE  s[n] \in Frames
  OBVIOUS

(* The walk that called the sentinel goes on after the process.              *)
LEMMA ReturnSentinelKeeps == ASSUME Inv, ReturnSentinel PROVE Inv'
<1>1. /\ Types /\ Shape /\ Books /\ Ordered /\ Top = stack[Len(stack)] /\ Fits(Len(stack))
      /\ Top.kind = "sentinel" /\ Len(stack) \in Nat /\ proc \in [Procs -> Process]
      /\ stack \in Seq(Frames) /\ stack[1].kind = "command"
  BY TopFrame DEF ReturnSentinel, Inv, Types, Shape
<1>2. PICK p \in Procs : p = Top.proc
  BY <1>1 DEF Fits
<1> DEFINE n == Len(stack) - 1
           m == Len(stack) - 2
<1>3. /\ Started(p) /\ ~proc[p].open /\ Len(stack) > 1
      /\ stack[n].kind = "notify" /\ stack[n].stage = "visit" /\ stack[n].proc = p
  BY <1>1, <1>2 DEF Fits
<1>4. /\ n # 1 /\ n \in Nat /\ n \in 1 .. Len(stack) /\ m \in Nat /\ m \in 1 .. Len(stack)
      /\ m + 1 = n /\ m < n /\ m # Len(stack) /\ n \in m + 1 .. Len(stack)
  BY <1>1, <1>3
<1>5. \A k \in m + 1 .. Len(stack) : k = n \/ k = Len(stack)
  BY <1>1
<1> DEFINE f == [stack[n] EXCEPT !.proc = next[p]]
<1>6. f \in Frames /\ f.kind = "notify" /\ f.stage = "visit" /\ f.proc = next[p]
      /\ (next[p] \in Procs => Started(next[p]))
  <2>1. stack[n] \in Frames
    <3> HIDE DEF n
    <3> QED BY <1>1, <1>4, SeqHas
  <2> QED BY <1>3, <2>1, NextStarted DEF Frames
<1>7. /\ stack' = [Pop EXCEPT ![n] = f]
      /\ UNCHANGED <<child, pipe, sigchld, written, synch, next, ticks, heard, told, nested>>
      /\ proc' = [proc EXCEPT ![p].sentinel = TRUE]
  <2>1. Pop[n] = stack[n]
    <3>1. n \in 1 .. n
      <4> HIDE DEF n, m
      <4> QED BY <1>4
    <3> QED BY <1>1, <1>3, <3>1, PopIs
  <2> QED BY <1>2, <2>1 DEF ReturnSentinel, history, system
<1> HIDE DEF f
<1>8. /\ stack' \in Seq(Frames) /\ Len(stack') = n /\ stack'[n] = f
      /\ \A i \in 1 .. m : stack'[i] = stack[i]
  <2>1. Pop \in Seq(Frames) /\ Len(Pop) = n /\ \A i \in 1 .. n : Pop[i] = stack[i]
    BY <1>1, <1>3, PopIs
  <2>2. n \in 1 .. Len(Pop) /\ \A i \in 1 .. m : i \in 1 .. n /\ i # n
    <3> HIDE DEF n, m
    <3> QED BY <1>4, <2>1
  <2> HIDE DEF n, m
  <2> QED BY <1>6, <1>7, <2>1, <2>2, SeqSet
<1> HIDE DEF n, m
<1>9. Keeps(m) /\ Len(stack') \in Nat /\ m < Len(stack')
      /\ \A i \in m + 1 .. Len(stack') : i = n /\ stack'[i] = f
  BY <1>4, <1>8 DEF Keeps
<1>10. /\ proc' \in [Procs -> Process] /\ \A q \in Procs : SameRecord(q)
       /\ \A q \in Procs : Started(q)' <=> Started(q)
  BY <1>1, <1>7 DEF Process, SameRecord, Started
<1>11. Types'
  BY <1>1, <1>7, <1>8, <1>10 DEF Types
<1>12. Counted'
  BY <1>7 DEF Inv, Counted, Dead, DeadOfCall
<1>13. News'
  <2>1. Top' = f
    BY <1>8 DEF Top
  <2> QED BY <1>6, <2>1 DEF News
<1>14. Removals
  BY <1>10 DEF Removals, SameRecord
<1>15. Shape'
  <2>1. next[p] \in Procs => child'[next[p]] # "none"
    BY <1>6, <1>7 DEF Started
  <2>2. \A i \in m + 1 .. Len(stack') : Fits(i)'
    BY <1>6, <1>9, <2>1 DEF Fits, Started
  <2> QED BY <1>1, <1>4, <1>9, <1>14, <2>2, ShapeKept
<1>16. \A i \in m + 1 .. Len(stack'), q \in Procs : ~Reading(i, q)'
  BY <1>6, <1>9 DEF Reading
<1>17. Books'
  <2>1. ASSUME NEW q \in Procs PROVE Listing(q)' /\ Output(q)' /\ Telling(q)'
    <3>1. Listing(q) /\ Output(q) /\ Telling(q) /\ SameRecord(q) /\ (Started(q)' <=> Started(q))
      BY <1>1, <1>10 DEF Books
    <3>2. ticks'.process \in Nat /\ ticks'.process >= ticks.process
      BY <1>1, <1>7 DEF Types
    <3>3. Listing(q)'
      BY <1>1, <1>7, <3>1, <3>2, ListingKept
    <3>4. Output(q)'
      BY <1>7, <3>1, OutputKept DEF SameRecord
    <3>5. Telling(q)'
      BY <1>1, <1>4, <1>7, <1>9, <1>16, <3>1, TellingKept DEF SameRecord
    <3> QED BY <3>3, <3>4, <3>5
  <2> QED BY <2>1 DEF Books
<1>18. PICK rank \in [Procs -> Nat], N \in Nat : Order(rank, N) /\ Deletes(rank)
  BY <1>1 DEF Ordered
<1>19. Order(rank, N)'
  BY <1>7, <1>10, <1>18, OrderKept DEF SameRecord
<1>20. Deletes(rank)'
  <2>1. \A q \in Procs : proc'[q].open /\ proc[q].tick # proc[q].update =>
          proc'[q].tick # proc'[q].update
    BY <1>10 DEF SameRecord
  <2>2. \A k \in m + 1 .. Len(stack), q \in Procs : ~Reading(k, q)
    BY <1>1, <1>3, <1>5 DEF Reading
  <2>3. stack[m].kind = "delete" => stack[m].proc \in Procs
    BY <1>1, <1>4 DEF Shape, Fits
  <2>4. stack[m].kind = "delete" /\ proc'[stack[m].proc].open /\ Pending(rank, m, stack[m].proc) =>
           /\ m < Len(stack') /\ stack'[m + 1].kind = "notify" /\ stack'[m + 1].proc \in Procs
           /\ rank[stack[m].proc] <= rank[stack'[m + 1].proc]
    <3> SUFFICES ASSUME NEW q \in Procs, stack[m].proc = q, proc'[q].open, Pending(rank, m, q)
                 PROVE  f.proc \in Procs /\ rank[q] <= rank[f.proc]
      BY <1>4, <1>6, <1>8, <1>9, <2>3
    <3>1. rank[q] <= rank[p] /\ q # p /\ proc[q].open
      BY <1>3, <1>4, <1>10 DEF Pending, SameRecord
    <3> QED BY <1>1, <1>3, <1>6, <1>18, <3>1, Ahead
  <2>5. \A i \in m + 1 .. Len(stack') : stack'[i].kind # "delete"
    BY <1>6, <1>9
  <2> QED BY <1>1, <1>4, <1>9, <1>14, <1>18, <2>1, <2>2, <2>4, <2>5, DeletesKept
<1> QED BY <1>11, <1>12, <1>13, <1>15, <1>17, <1>18, <1>19, <1>20 DEF Inv, Ordered

-----------------------------------------------------------------------------
(* The invariant holds at first: nothing was started.                        *)
LEMMA Starts == ASSUME Init PROVE Inv
<1>1. /\ Len(stack) = 1 /\ stack[1] = Frame("command", Nil, "run") /\ stack \in Seq(Frames)
      /\ Frame("command", Nil, "run").kind = "command" /\ Frame("command", Nil, "run").proc = Nil
  <2>1. "command" \in Kinds /\ "run" \in Stages /\ Nil \in Procs \cup {Nil}
    BY DEF Kinds, Stages
  <2>2. Frame("command", Nil, "run") \in Frames
    BY <2>1, NewFrame
  <2>3. /\ Frame("command", Nil, "run").kind = "command" /\ Frame("command", Nil, "run").proc = Nil
    BY DEF Frame
  <2>4. stack = <<Frame("command", Nil, "run")>>
    BY DEF Init
  <2> QED BY <2>2, <2>3, <2>4
<1>2. proc \in [Procs -> Process]
  BY DEF Init, Process
<1>3. Types
  BY <1>1, <1>2 DEF Init, Types, Synch
<1>4. Counted
  <2>1. Dead = {}
    BY DEF Init, Dead
  <2>2. DeadOfCall = 0 /\ sigchld = 0
    BY DEF Init, DeadOfCall
  <2> QED BY <2>1, <2>2, FS_EmptySet DEF Counted
<1>5. Shape
  BY <1>1, ProcAssumption DEF Shape, Fits
<1>6. News
  BY <1>1 DEF News, Top
<1>7. Books
  <2>1. \A p \in Procs, i \in 1 .. Len(stack) : ~Reading(i, p)
    BY <1>1 DEF Reading
  <2>2. \A p \in Procs : Listing(p)
    BY DEF Init, Listing, Started
  <2>3. \A p \in Procs : Output(p)
    BY BoundAssumption DEF Init, Output
  <2>4. \A p \in Procs : Telling(p)
    BY <2>1 DEF Init, Telling
  <2> QED BY <2>2, <2>3, <2>4 DEF Books
<1>8. Ordered
  <2> DEFINE rank == [p \in Procs |-> 0]
  <2>1. rank \in [Procs -> Nat]
    OBVIOUS
  <2>2. \A p \in Procs : ~Started(p) /\ ~proc[p].listed /\ next[p] = Nil
    BY DEF Init, Started
  <2>3. next[Nil] = Nil
    BY DEF Init
  <2> HIDE DEF rank
  <2>4. Order(rank, 0)
    BY <2>2, <2>3, ProcAssumption DEF Order, Ages, Distinct, Linked, Skipless
  <2>5. Deletes(rank)
    BY <1>1 DEF Deletes
  <2> QED BY <2>1, <2>4, <2>5 DEF Ordered
<1> QED BY <1>3, <1>4, <1>5, <1>6, <1>7, <1>8 DEF Inv

(* A step that changes nothing.                                              *)
LEMMA Stutters == ASSUME Inv, UNCHANGED vars PROVE Inv'
<1>1. /\ stack' = stack /\ UNCHANGED <<child, pipe, written, proc, next, ticks, history>>
      /\ synch' = synch /\ sigchld' = sigchld
  BY DEF vars, system
<1>2. Steps(Len(stack)) /\ Len(stack) \in Nat
  BY <1>1, StackSame
<1>3. UNCHANGED <<system, synch, proc, next, ticks, history>>
  BY <1>1 DEF system
<1>4. News'
  BY <1>1 DEF Inv, News, Top, Changed
<1> QED BY <1>2, <1>3, <1>4, StackOnly

(* Every step keeps the invariant.                                           *)
LEMMA NextKeeps == ASSUME Inv, [Next]_vars PROVE Inv'
<1>1. CASE Emacs
  <2>1. CASE ReadKeyboard
    BY <2>1, ReadKeyboardKeeps
  <2>2. CASE ReturnCall \/ ReturnFilter \/ NotifyDone
    BY <2>2, ReturnsKeep
  <2>3. CASE DeleteDone
    BY <2>3, DeleteDoneKeeps
  <2>4. CASE CheckNotifies
    BY <2>4, CheckNotifiesKeeps
  <2>5. CASE CheckBusy \/ CheckNothing
    BY <2>5, CheckKeeps
  <2>6. CASE CheckProcess
    BY <2>6, CheckProcessKeeps
  <2>7. CASE Drain
    BY <2>7, DrainKeeps
  <2>8. CASE CopyMask \/ Redisplay \/ Redisplayed \/ EnterSelect
    BY <2>8, EnterSelectKeeps
  <2>9. CASE SelectReturns
    BY <2>9, SelectReturnsKeeps
  <2>10. CASE \E p \in Procs : Serve(p)
    BY <2>10, ServeKeeps
  <2>11. CASE Visit
    BY <2>11, PassKeeps, SeeKeeps
  <2>12. CASE ReadRest
    BY <2>12, ReadRestKeeps
  <2>13. CASE Report
    BY <2>13, ReportKeeps
  <2>14. CASE ReturnSentinel
    BY <2>14, ReturnSentinelKeeps
  <2> QED BY <1>1, <2>1, <2>2, <2>3, <2>4, <2>5, <2>6, <2>7, <2>8, <2>9, <2>10, <2>11, <2>12,
             <2>13, <2>14 DEF Emacs
<1>2. CASE Lisp
  <2>1. CASE CallProcess
    BY <2>1, CallProcessKeeps
  <2>2. CASE \E p \in Procs : StartProcess(p) \/ AcceptProcessOutput(p) \/ DeleteProcess(p)
    BY <2>2, StartProcessKeeps, AcceptKeeps, DeleteProcessKeeps
  <2> QED BY <1>2, <2>1, <2>2 DEF Lisp
<1>3. CASE System
  <2>1. CASE SynchExit
    BY <2>1, SynchExitKeeps
  <2>2. CASE SigchldSynch
    BY <2>2, SigchldSynchKeeps
  <2>3. CASE \E p \in Procs : SigchldListed(p) \/ SigchldStray(p)
    BY <2>3, SigchldListedKeeps, SigchldStrayKeeps
  <2>4. CASE \E p \in Procs : Write(p) \/ Exit(p)
    BY <2>4, WriteKeeps, ExitKeeps
  <2> QED BY <1>3, <2>1, <2>2, <2>3, <2>4 DEF System, Sigchld
<1>4. CASE InputArrives \/ TimeRunsOut
  BY <1>4, ReturnsKeep
<1>5. CASE UNCHANGED vars
  BY <1>5, Stutters
<1> QED BY <1>1, <1>2, <1>3, <1>4, <1>5 DEF Next

(* The order in which processes were started governs the list throughout:    *)
(* status_notify and remove_process (process.c) as delete-process, filters   *)
(* and sentinels call them.                                                  *)
THEOREM Invariance == Spec => []Inv
<1>1. Init => Inv
  BY Starts
<1>2. Inv /\ [Next]_vars => Inv'
  BY NextKeeps
<1> QED BY <1>1, <1>2, PTL DEF Spec

-----------------------------------------------------------------------------
(* Values and bounds: no more SIGCHLDs wait than there are children, no      *)
(* chunk is heard twice, and only open pipes are in the masks of select.     *)
THEOREM TypesHold == Spec => []TypeOK
<1>1. Inv => TypeOK
  <2> SUFFICES ASSUME Inv PROVE TypeOK
    OBVIOUS
  <2>1. Types /\ Books /\ Counted
    BY DEF Inv
  <2>2. /\ pipe \in [Procs -> 0 .. MaxOutput] /\ written \in [Procs -> 0 .. MaxOutput]
        /\ heard \in [Procs -> 0 .. MaxOutput]
    <3>1. \A p \in Procs : pipe[p] \in 0 .. MaxOutput /\ written[p] \in 0 .. MaxOutput
                           /\ heard[p] \in 0 .. MaxOutput
      <4>1. ASSUME NEW p \in Procs
            PROVE  /\ pipe[p] \in Nat /\ written[p] \in Nat /\ heard[p] \in Nat
                   /\ heard[p] + pipe[p] <= written[p] /\ written[p] <= MaxOutput
        BY <2>1 DEF Types, Books, Output
      <4> QED BY <4>1, BoundAssumption
    <3>2. \A g \in [Procs -> Nat] : (\A p \in Procs : g[p] \in 0 .. MaxOutput)
                                       => g \in [Procs -> 0 .. MaxOutput]
      OBVIOUS
    <3> QED BY <2>1, <3>1, <3>2 DEF Types
  <2>3. sigchld \in 0 .. Cardinality(Procs) + 1
    <3>1. Dead \subseteq Procs
      BY DEF Dead
    <3>2. Cardinality(Dead) <= Cardinality(Procs) /\ Cardinality(Procs) \in Nat /\ Cardinality(Dead) \in Nat
      BY <3>1, ProcAssumption, FS_Subset, FS_CardinalityType
    <3>3. DeadOfCall \in {0, 1}
      BY DEF DeadOfCall
    <3> QED BY <2>1, <3>2, <3>3 DEF Counted, Types
  <2>4. \A i \in 1 .. Len(stack) : stack[i].proc \in Procs \cup {Nil}
    <3>1. stack \in Seq(Frames)
      BY <2>1 DEF Types
    <3>2. \A i \in 1 .. Len(stack) : stack[i] \in Frames
      BY <3>1, SeqHas
    <3> QED BY <3>2 DEF Frames
  <2>5. ticks.process \in Nat /\ ticks.update \in 0 .. ticks.process
    <3>1. ticks \in [process : Nat, update : Nat] /\ ticks.update <= ticks.process
      BY <2>1 DEF Types
    <3> QED BY <3>1
  <2>6. \A p \in Procs : proc[p].mask => proc[p].open /\ proc[p].listed
    BY <2>1 DEF Books, Listing
  <2> QED BY <2>1, <2>2, <2>3, <2>4, <2>5, <2>6 DEF TypeOK, Types
<1> QED BY <1>1, Invariance, PTL

(* A sentinel runs once, however deletions, deaths and waits nest, unless    *)
(* status_notify was entered again from the last filter of the process.      *)
THEOREM SentinelRunsOnce == Spec => []ToldOnce
<1>1. Inv => ToldOnce
  BY DEF Inv, Books, Telling, ToldOnce
<1> QED BY <1>1, Invariance, PTL

(* The wait for the keyboard does not block in select while a change is      *)
(* unreported, unless SIGCHLD came during the redisplay just before select.   *)
THEOREM NeverSleeps == Spec => []NeverSleepsOnNews
<1>1. Inv => NeverSleepsOnNews
  BY DEF Inv, News, Bound, NeverSleepsOnNews, Waits
<1> QED BY <1>1, Invariance, PTL

(* The filter has all of a process's output before the sentinel is called.   *)
THEOREM OutputComesFirst == Spec => OutputFirst
<1>1. Inv /\ [Next]_vars =>
        [\A p \in Procs \ nested' : told'[p] # told[p] => heard[p] = written[p]]_vars
  <2> SUFFICES ASSUME Inv, [Next]_vars, NEW p \in Procs \ nested', told'[p] # told[p]
               PROVE  heard[p] = written[p]
    OBVIOUS
  <2>1. Report
    BY DEF Next, Emacs, Lisp, System, Sigchld, vars, system, history,
           ReadKeyboard, ReturnCall, DeleteDone, ReturnFilter, CheckNotifies, CheckBusy, CheckNothing,
           CheckProcess, Drain, CopyMask, Redisplay, Redisplayed, EnterSelect, SelectReturns, Serve, Visit, NotifyDone, ReadRest,
           ReturnSentinel, ReadOutput, StartProcess, AcceptProcessOutput, DeleteProcess, CallProcess,
           SigchldSynch, SigchldListed, SigchldStray, SynchExit, Write, Exit, InputArrives, TimeRunsOut
  <2>2. Types /\ Shape /\ Books
    BY DEF Inv
  <2>3. /\ Top = stack[Len(stack)] /\ Fits(Len(stack)) /\ Len(stack) \in 1 .. Len(stack)
        /\ Top.kind = "notify" /\ Top.stage = "read"
    BY <2>1, <2>2, TopFrame DEF Report
  <2>4. PICK q \in Procs : q = Top.proc
    BY <2>3 DEF Fits
  <2>5. q = p /\ Exhausted(p) /\ p \notin nested
    BY <2>1, <2>4, Reports
  <2>6. Reading(Len(stack), p)
    BY <2>3, <2>4, <2>5 DEF Reading
  <2>7. proc[p].open
    BY <2>2, <2>3, <2>5, <2>6 DEF Books, Telling
  <2>8. pipe[p] = 0 /\ heard[p] \in Nat
    BY <2>2, <2>5, <2>7 DEF Exhausted, Readable, Types
  <2> QED BY <2>2, <2>7, <2>8 DEF Books, Output
<1> QED BY <1>1, Invariance, PTL DEF Spec, OutputFirst
=============================================================================
