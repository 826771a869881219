------------------------- MODULE PmScrollbarProofs -------------------------
(***************************************************************************)
(* Proofs about PmScrollbar, for any number of windows, frames, bars, ids, *)
(* redisplays and drags: the lists of scroll bars are sound, an id names   *)
(* the same bar on both sides of the pipes, and what is displayed is what  *)
(* was asked for.  The argument is that a list is a linear order of its    *)
(* bars, that of the requests under way at most one destroys a given id,   *)
(* and that Emacs sends nothing while it waits for a new bar.              *)
(***************************************************************************)
EXTENDS PmScrollbar, SequenceTheorems, FiniteSetTheorems, WellFoundedInduction, TLAPS

Links == Bars \cup {Nil}
Requests ==
  [op : {"create"}, bar : Bars, to : Values, at : Places]
    \cup [op : {"destroy"}, id : Ids, frame : Frames]
    \cup [op : {"update"}, id : Ids, to : Values] \cup [op : {"move"}, id : Ids, to : Places]
    \cup [op : {"delete"}, frame : Frames, bars : SUBSET Bars]
Events == [id : Ids, bar : Bars, frame : Frames]

EmacsTypes ==
  /\ live \subseteq Windows /\ barOf \in [Windows -> Links]
  /\ bars \in [Frames -> Links] /\ condemned \in [Frames -> Links]
  /\ next \in [Bars -> Links] /\ prev \in [Bars -> Links]
  /\ win \in [Bars -> Windows \cup {Nil}] /\ id \in [Bars -> Ids \cup {NoId}]
  /\ want \in [Bars -> Values \cup {NoValue}] /\ place \in [Bars -> Places \cup {NoPlace}]
  /\ at \in {"idle", "redisplay", "await", "aborted"}
  /\ judging \in BOOLEAN /\ todo \subseteq Windows /\ made \in 0 .. MaxBars
PipeTypes ==
  /\ req \in Seq(Requests) /\ answer \in {<<>>} \cup {<<i>> : i \in Ids \cup {NoId}}
  /\ events \in Seq(Events)
ScreenTypes ==
  /\ pipeThread \in {"idle", "waiting", "defer", "set"}
  /\ pipeThread \in {"defer", "set"} => request \in Requests /\ request.op \in {"update", "move"}
  /\ pipeThread = "defer" => request.op = "update"
  /\ post \in Seq(Requests) /\ \A k \in 1 .. Len(post) : post[k].op \in {"create", "destroy"}
  /\ table \in [Ids -> Links] /\ async \in [Ids -> Values \cup {NoValue}]
  /\ shown \in [Bars -> Values \cup {NoValue}] /\ placed \in [Bars -> Places \cup {NoPlace}]
  /\ exist \subseteq Bars /\ drag \in BOOLEAN /\ dragged \in Links
  /\ changes \in Nat /\ clicks \in Nat /\ drags \in Nat /\ deletions \in Nat
Types == EmacsTypes /\ PipeTypes /\ ScreenTypes

(* Where redisplay is: only the frame whose bars were condemned has           *)
(* condemned bars, and only until they are judged.                           *)
Stages ==
  /\ at = "idle" => \A f \in Frames : condemned[f] = Nil
  /\ at \in {"redisplay", "await"} =>
       /\ frame \in Frames /\ \A w \in todo : FrameOf[w] = frame
       /\ \A f \in Frames : condemned[f] # Nil => f = frame /\ judging
  /\ at = "await" => /\ window \in todo /\ barOf[window] = Nil
                     /\ made # 0 /\ win[made] = Nil /\ id[made] = NoId

(* The bars C form a list from HEAD: the links of each lead to others of C,  *)
(* in both directions, and ranks descend along the list.                     *)
Linked(C, head, nx, pv, rank, N) ==
  /\ head # Nil => head \in C /\ pv[head] = Nil
  /\ \A b \in C : /\ rank[b] < N
                  /\ nx[b] # Nil => nx[b] \in C /\ pv[nx[b]] = b /\ rank[nx[b]] < rank[b]
                  /\ pv[b] # Nil => pv[b] \in C /\ nx[pv[b]] = b
                  /\ pv[b] = Nil => b = head
Linear(C, head, nx, pv) ==
  /\ C \subseteq Bars /\ head \in Links /\ nx \in [Bars -> Links] /\ pv \in [Bars -> Links]
  /\ \E rank \in [Bars -> Nat] : \E N \in Nat : Linked(C, head, nx, pv, rank, N)

(* The bars of windows, those of one frame; a bar in use is of one window.   *)
Owned == {barOf[w] : w \in {x \in Windows : barOf[x] # Nil}}
OwnedIn(f) == {barOf[w] : w \in {x \in Windows : FrameOf[x] = f /\ barOf[x] # Nil}}
Owners == \A w \in Windows : barOf[w] # Nil => win[barOf[w]] = w
Split(f, L, D) ==
  /\ Linear(L, bars[f], next, prev) /\ Linear(D, condemned[f], next, prev)
  /\ L \cap D = {} /\ L \cup D = OwnedIn(f)
Lists == Owners /\ \A f \in Frames : \E L, D \in SUBSET Bars : Split(f, L, D)
(* Emacs waits for the answer to its last request, the creation of a bar,    *)
(* and sends nothing meanwhile.                                              *)
NoCreate(s, n) == \A k \in 1 .. n : s[k].op # "create"
Asks(s) ==
  /\ s # <<>> /\ s[Len(s)] = [op |-> "create", bar |-> made, to |-> want[made], at |-> place[made]]
  /\ NoCreate(s, Len(s) - 1)
Unborn == \A i \in Ids : table[i] # made
Born(i) ==
  /\ table[i] = made /\ made \in exist
  /\ drags = 0 => shown[made] = want[made] /\ placed[made] = place[made]
Creating ==
  IF at = "await"
  THEN \/ /\ answer = <<>> /\ Asks(req) /\ NoCreate(post, Len(post)) /\ pipeThread # "waiting" /\ Unborn
       \/ /\ answer = <<>> /\ req = <<>> /\ Asks(post) /\ pipeThread = "waiting" /\ Unborn
       \/ /\ answer # <<>> /\ req = <<>> /\ NoCreate(post, Len(post)) /\ pipeThread = "idle"
          /\ answer[1] # NoId => Born(answer[1])
  ELSE answer = <<>> /\ NoCreate(req, Len(req)) /\ NoCreate(post, Len(post)) /\ pipeThread # "waiting"

(* The table names bars that were made, each once; what it says of a bar in  *)
(* use is what Emacs says.                                                   *)
Fresh == \A b \in Bars : b > made => win[b] = Nil /\ id[b] = NoId
Table ==
  \A i \in Ids : table[i] # Nil =>
    /\ table[i] <= made /\ (win[table[i]] \in Windows => id[table[i]] = i)
    /\ \A j \in Ids : table[j] = table[i] => j = i
Named == \A b \in Owned : id[b] \in Ids /\ table[id[b]] = b /\ b \in exist

(* A bar to be destroyed is not used any more and still has its id, which is *)
(* the only one on its way to be given back.                                 *)
Condemns(i) == table[i] # Nil /\ table[i] \notin Owned /\ (at = "await" => table[i] # made)
Destroys(s, k, i) == s[k].op = "destroy" /\ s[k].id = i
Destroying ==
  \A i \in Ids :
    /\ \A k \in 1 .. Len(req) : Destroys(req, k, i) =>
         /\ Condemns(i) /\ \A m \in 1 .. Len(req) : Destroys(req, m, i) => m = k
         /\ \A m \in 1 .. Len(post) : ~Destroys(post, m, i)
    /\ \A k \in 1 .. Len(post) : Destroys(post, k, i) =>
         Condemns(i) /\ \A m \in 1 .. Len(post) : Destroys(post, m, i) => m = k
Deleting ==
  \A k \in 1 .. Len(req) : req[k].op = "delete" =>
    \A b \in req[k].bars : b <= made /\ b \notin Owned /\ (at = "await" => b # made)

(* An event has the id of its bar. *)
Told == \A k \in 1 .. Len(events) : id[events[k].bar] = events[k].id

(* The last request about a bar asks for what Emacs wants of it; when there  *)
(* is none left, that is so.                                                 *)
About(r, op, i) == r.op = op /\ r.id = i
Unasked(s, n, op, i) == \A k \in n .. Len(s) : ~About(s[k], op, i)
Asked(s, op, i, v) ==
  \E k \in 1 .. Len(s) : About(s[k], op, i) /\ s[k].to = v /\ Unasked(s, k + 1, op, i)
FollowsIn(s, thread, r, op, i, v, now) ==
  \/ Asked(s, op, i, v)
  \/ Unasked(s, 1, op, i) /\ v = IF thread = "set" /\ About(r, op, i) THEN r.to ELSE now
Follows(op, i, v, now) == FollowsIn(req, pipeThread, request, op, i, v, now)
Synced ==
  drags = 0 =>
    /\ ~drag /\ pipeThread # "defer"
    /\ \A b \in Owned : /\ Follows("update", id[b], want[b], shown[b])
                        /\ Follows("move", id[b], place[b], placed[b])

Inv ==
  /\ Types /\ Stages /\ Lists /\ Creating /\ Fresh /\ Table /\ Named
  /\ Destroying /\ Deleting /\ Told /\ Synced

(* No id is lost: who has one is in use, or being made or destroyed.  Room is *)
(* invariant when frames are not deleted: a deleted frame's ids are lost.     *)
Accounted(i) ==
  \/ table[i] \in Owned
  \/ at = "await" /\ answer = <<i>>
  \/ \E k \in 1 .. Len(req) : Destroys(req, k, i)
  \/ \E k \in 1 .. Len(post) : Destroys(post, k, i)
Room ==
  /\ NeverAborts /\ answer # <<NoId>> /\ \A i \in Ids : table[i] # Nil => Accounted(i)
  /\ \A k \in 1 .. Len(req) : req[k].op # "delete"
-----------------------------------------------------------------------------
(* A set of numbers has a least one. *)
LEMMA LeastNumber ==
  ASSUME NEW T \in SUBSET Nat, T # {}
  PROVE  \E n \in T : \A m \in T : n <= m
<1> DEFINE I == {0 .. n : n \in T}
<1>1. I \subseteq FiniteSubsetsOf(Nat)
  <2>1. ASSUME NEW n \in T PROVE 0 .. n \in SUBSET Nat /\ IsFiniteSet(0 .. n)
    BY FS_Interval
  <2>2. QED BY <2>1 DEF FiniteSubsetsOf
<1>2. I # {}
  OBVIOUS
<1>3. IsWellFoundedOn(StrictSubsetOrdering(Nat), FiniteSubsetsOf(Nat))
  BY FS_StrictSubsetOrderingWellFounded
<1>4. PICK x \in I : \A y \in I : <<y, x>> \notin StrictSubsetOrdering(Nat)
  BY <1>1, <1>2, <1>3, WFMin
<1>5. PICK n \in T : x = 0 .. n
  OBVIOUS
<1>6. ASSUME NEW m \in T, m < n PROVE FALSE
  <2>1. 0 .. m \in I
    OBVIOUS
  <2>2. <<0 .. m, 0 .. n>> \in StrictSubsetOrdering(Nat)
    BY <1>6 DEF StrictSubsetOrdering
  <2>3. QED BY <2>1, <2>2, <1>4, <1>5
<1>7. QED BY <1>6

(* The steps along a list, from its head, for any number of them.            *)
Follow(g, n, head, nx) ==
  g = [k \in 1 .. n |-> IF k = 1 THEN head ELSE IF g[k - 1] = Nil THEN Nil ELSE nx[g[k - 1]]]

(* Such steps exist: there is no least number for which they do not. *)
LEMMA Following ==
  ASSUME NEW n \in Nat, NEW head, NEW nx
  PROVE  \E g : Follow(g, n, head, nx)
<1> DEFINE T == {m \in Nat : ~\E g : Follow(g, m, head, nx)}
<1>1. SUFFICES ASSUME T # {} PROVE FALSE
  OBVIOUS
<1>2. PICK m \in T : \A k \in T : m <= k
  BY <1>1, LeastNumber
<1>3. m # 0
  <2>1. Follow([k \in {} |-> 0], 0, head, nx)
    <3>1. 1 .. 0 = {}
      OBVIOUS
    <3>2. QED BY <3>1 DEF Follow
  <2>2. QED BY <2>1
<1>4. m - 1 \in Nat /\ m - 1 \notin T
  BY <1>2, <1>3
<1>5. PICK g : Follow(g, m - 1, head, nx)
  BY <1>4
<1> DEFINE v == IF m = 1 THEN head ELSE IF g[m - 1] = Nil THEN Nil ELSE nx[g[m - 1]]
           h == [k \in 1 .. m |-> IF k = m THEN v ELSE g[k]]
<1>6. ASSUME NEW k \in 1 .. m
      PROVE  h[k] = IF k = 1 THEN head ELSE IF h[k - 1] = Nil THEN Nil ELSE nx[h[k - 1]]
  <2>1. k # 1 => k - 1 \in 1 .. m /\ k - 1 # m /\ h[k - 1] = g[k - 1]
    BY <1>4
  <2>2. CASE k = m
    BY <2>1, <2>2
  <2>3. CASE k # m
    <3>1. k \in 1 .. m - 1
      BY <2>3, <1>4
    <3>2. g[k] = IF k = 1 THEN head ELSE IF g[k - 1] = Nil THEN Nil ELSE nx[g[k - 1]]
      BY <3>1, <1>5 DEF Follow
    <3>3. QED BY <2>1, <2>3, <3>2
  <2>4. QED BY <2>2, <2>3
<1>7. Follow(h, m, head, nx)
  <2> HIDE DEF v
  <2>1. h = [k \in 1 .. m |-> h[k]]
    OBVIOUS
  <2> HIDE DEF h
  <2>2. QED BY <1>6, <2>1 DEF Follow
<1>8. QED BY <1>2, <1>7

Steps(g, head) ==
  g = [k \in Bars |-> IF k = 1 THEN head ELSE IF g[k - 1] = Nil THEN Nil ELSE next[g[k - 1]]]
(* Chain is made of the steps from the head through the links. *)
LEMMA ChainSteps ==
  ASSUME NEW head
  PROVE  \E g : Steps(g, head) /\ Chain(head) = [k \in {j \in Bars : g[j] # Nil} |-> g[k]]
<1>1. \E g : Steps(g, head)
  <2>1. MaxBars \in Nat
    BY BoundAssumption
  <2>2. PICK g : Follow(g, MaxBars, head, next)
    BY <2>1, Following
  <2>3. QED BY <2>2 DEF Follow, Steps, Bars
<1> DEFINE g == CHOOSE g : Steps(g, head)
<1>2. Steps(g, head)
  BY <1>1
<1>3. Chain(head) = [k \in {j \in Bars : g[j] # Nil} |-> g[k]]
  BY DEF Chain, Steps
<1>4. QED BY <1>2, <1>3

(* Whatever list it follows, the chain ends and goes through the bars of the *)
(* list, each once, in the order of its links.                               *)
LEMMA ChainOf ==
  ASSUME NEW C, NEW head, Linear(C, head, next, prev)
  PROVE  /\ Elements(Chain(head)) = C /\ \E n \in Nat : DOMAIN Chain(head) = 1 .. n
         /\ head = Nil => C = {}
         /\ \A i, j \in DOMAIN Chain(head) : i # j => Chain(head)[i] # Chain(head)[j]
         /\ \A i \in DOMAIN Chain(head) :
              prev[Chain(head)[i]] = IF i = 1 THEN Nil ELSE Chain(head)[i - 1]
<1>0. MaxBars \in Nat
  BY BoundAssumption
<1>1. PICK g : Steps(g, head) /\ Chain(head) = [k \in {j \in Bars : g[j] # Nil} |-> g[k]]
  BY ChainSteps
<1>2. PICK rank \in [Bars -> Nat], N \in Nat : Linked(C, head, next, prev, rank, N)
  BY DEF Linear
<1>3. C \subseteq Bars /\ Bars \subseteq Nat \ {0} /\ Bars = 1 .. MaxBars
  BY <1>0 DEF Linear, Bars
<1>4. \A k \in Bars : g[k] = IF k = 1 THEN head ELSE IF g[k - 1] = Nil THEN Nil ELSE next[g[k - 1]]
  BY <1>1, Zenon DEF Steps
<1>5. \A k \in Bars : g[k] = Nil \/ g[k] \in C
  <2> DEFINE T == {k \in Bars : g[k] # Nil /\ g[k] \notin C}
  <2>1. SUFFICES ASSUME T # {} PROVE FALSE
    OBVIOUS
  <2>2. PICK k \in T : \A m \in T : k <= m
    BY <2>1, <1>3, LeastNumber
  <2>3. CASE k = 1
    BY <2>3, <2>2, <1>2, <1>4 DEF Linked
  <2>4. CASE k # 1
    <3>1. k - 1 \in Bars /\ k - 1 \notin T
      BY <2>2, <2>4, <1>0, <1>3
    <3>2. QED BY <3>1, <2>2, <2>4, <1>2, <1>4 DEF Linked
  <2>5. QED BY <2>3, <2>4
<1>6. \A j \in Bars : \A k \in Bars : j < k /\ g[k] # Nil => g[j] # Nil /\ rank[g[k]] < rank[g[j]]
  <2> SUFFICES ASSUME NEW j \in Bars
               PROVE  \A k \in Bars : j < k /\ g[k] # Nil => g[j] # Nil /\ rank[g[k]] < rank[g[j]]
    OBVIOUS
  <2> DEFINE T == {k \in Bars : j < k /\ g[k] # Nil /\ ~(g[j] # Nil /\ rank[g[k]] < rank[g[j]])}
  <2>1. SUFFICES ASSUME T # {} PROVE FALSE
    OBVIOUS
  <2>2. PICK k \in T : \A m \in T : k <= m
    BY <2>1, <1>3, LeastNumber
  <2>3. k - 1 \in Bars /\ k - 1 \notin T /\ k # 1
    BY <2>2, <1>0, <1>3
  <2>4. g[k - 1] # Nil /\ g[k] = next[g[k - 1]] /\ g[k] # Nil
    BY <2>2, <2>3, <1>4
  <2>5. g[k - 1] \in C /\ g[k] \in C /\ rank[g[k]] < rank[g[k - 1]]
    BY <2>3, <2>4, <1>2, <1>5 DEF Linked
  <2>6. CASE k = j + 1
    BY <2>2, <2>4, <2>5, <2>6, <1>3
  <2>7. CASE k # j + 1
    <3>1. j < k - 1
      BY <2>2, <2>7, <1>3
    <3>2. g[j] # Nil /\ rank[g[k - 1]] < rank[g[j]]
      BY <3>1, <2>3, <2>4
    <3>3. rank[g[k]] \in Nat /\ rank[g[k - 1]] \in Nat /\ rank[g[j]] \in Nat
      BY <3>2, <2>5, <1>3, <1>5
    <3>4. QED BY <3>2, <3>3, <2>2, <2>5
  <2>8. QED BY <2>6, <2>7
<1>7. PICK n \in Nat : {j \in Bars : g[j] # Nil} = 1 .. n
  <2> DEFINE T == {m \in Nat \ {0} : m \notin Bars \/ g[m] = Nil}
  <2>1. MaxBars + 1 \in T
    BY <1>0, <1>3
  <2>2. PICK m \in T : \A k \in T : m <= k
    BY <2>1, LeastNumber
  <2>3. m - 1 \in Nat
    BY <2>2
  <2>4. ASSUME NEW j \in Bars, g[j] # Nil PROVE j \in 1 .. m - 1
    <3>1. SUFFICES ASSUME m <= j PROVE FALSE
      BY <2>3, <1>3
    <3>2. m \in Bars /\ g[m] = Nil
      BY <3>1, <2>2, <2>3, <1>0, <1>3
    <3>3. m # j
      BY <3>2, <2>4
    <3>4. m < j
      BY <3>1, <3>3, <1>3
    <3>5. QED BY <3>2, <3>4, <2>4, <1>6
  <2>5. ASSUME NEW j \in 1 .. m - 1 PROVE j \in Bars /\ g[j] # Nil
    BY <2>2, <1>3
  <2>6. {j \in Bars : g[j] # Nil} = 1 .. m - 1
    BY <2>4, <2>5
  <2>7. QED BY <2>3, <2>6
<1>8. DOMAIN Chain(head) = 1 .. n /\ \A k \in 1 .. n : Chain(head)[k] = g[k]
  BY <1>1, <1>7
<1>9. \A k \in 1 .. n : k \in Bars /\ g[k] \in C /\ rank[g[k]] \in Nat
  BY <1>2, <1>3, <1>5, <1>7
<1>10. \A i, j \in 1 .. n : i # j => g[i] # g[j]
  <2>1. ASSUME NEW i \in 1 .. n, NEW j \in 1 .. n, i < j PROVE g[i] # g[j]
    <3>1. i \in Bars /\ j \in Bars /\ g[j] # Nil /\ rank[g[j]] \in Nat
      BY <1>7, <1>9
    <3>2. rank[g[j]] < rank[g[i]]
      BY <3>1, <2>1, <1>6
    <3>3. QED BY <3>1, <3>2
  <2>2. QED BY <2>1
<1>11. \A i \in 1 .. n : prev[g[i]] = IF i = 1 THEN Nil ELSE g[i - 1]
  <2> SUFFICES ASSUME NEW i \in 1 .. n PROVE prev[g[i]] = IF i = 1 THEN Nil ELSE g[i - 1]
    OBVIOUS
  <2>1. CASE i = 1
    BY <2>1, <1>2, <1>4, <1>7, <1>9 DEF Linked
  <2>2. CASE i # 1
    <3>1. i - 1 \in 1 .. n
      BY <2>2
    <3>2. g[i] = next[g[i - 1]] /\ g[i] # Nil
      BY <3>1, <2>2, <1>4, <1>7
    <3>3. QED BY <3>1, <3>2, <2>2, <1>2, <1>9 DEF Linked
  <2>3. QED BY <2>1, <2>2
<1>12. \A x \in C : \E k \in 1 .. n : g[k] = x
  <2> DEFINE T == {N - rank[x] : x \in {y \in C : \A k \in 1 .. n : g[k] # y}}
  <2>1. SUFFICES ASSUME T # {} PROVE FALSE
    OBVIOUS
  <2>2. T \in SUBSET Nat
    <3>1. ASSUME NEW x \in C PROVE N - rank[x] \in Nat
      BY <1>2, <1>3 DEF Linked
    <3>2. QED BY <3>1
  <2>3. PICK t \in T : \A u \in T : t <= u
    BY <2>1, <2>2, LeastNumber
  <2>4. PICK x \in C : t = N - rank[x] /\ \A k \in 1 .. n : g[k] # x
    BY <2>3
  <2>5. \A y \in C : rank[x] < rank[y] => \E k \in 1 .. n : g[k] = y
    <3> SUFFICES ASSUME NEW y \in C, rank[x] < rank[y], \A k \in 1 .. n : g[k] # y PROVE FALSE
      OBVIOUS
    <3>1. N - rank[y] \in T
      OBVIOUS
    <3>2. N - rank[x] <= N - rank[y]
      BY <3>1, <2>3, <2>4
    <3>3. rank[x] \in Nat /\ rank[y] \in Nat
      BY <1>3
    <3>4. QED BY <3>2, <3>3
  <2>6. prev[x] # Nil
    <3>1. SUFFICES ASSUME prev[x] = Nil PROVE FALSE
      OBVIOUS
    <3>2. x = head
      BY <3>1, <1>2 DEF Linked
    <3>3. 1 \in Bars
      BY <1>0, <1>3
    <3>4. x # Nil
      BY <1>3 DEF Nil
    <3>5. g[1] = x /\ 1 \in 1 .. n
      BY <3>2, <3>3, <3>4, <1>4, <1>7
    <3>6. QED BY <3>5, <2>4
  <2>7. prev[x] \in C /\ next[prev[x]] = x /\ x # Nil
    <3>1. prev[x] \in C /\ next[prev[x]] = x
      BY <2>6, <1>2 DEF Linked
    <3>2. x # Nil
      BY <1>3 DEF Nil
    <3>3. QED BY <3>1, <3>2
  <2>8. rank[x] < rank[prev[x]]
    BY <2>7, <1>2 DEF Linked
  <2>9. PICK k \in 1 .. n : g[k] = prev[x]
    BY <2>5, <2>7, <2>8
  <2>10. k + 1 \notin Bars
    <3>1. SUFFICES ASSUME k + 1 \in Bars PROVE FALSE
      OBVIOUS
    <3>2. g[k + 1] = x
      <4>1. k + 1 # 1 /\ (k + 1) - 1 = k
        OBVIOUS
      <4>2. g[k + 1] = IF g[k] = Nil THEN Nil ELSE next[g[k]]
        BY <4>1, <3>1, <1>4
      <4>3. QED BY <4>2, <2>6, <2>7, <2>9
    <3>3. k + 1 \in 1 .. n
      BY <3>1, <3>2, <2>7, <1>7
    <3>4. QED BY <3>2, <3>3, <2>4
  <2>11. n = MaxBars
    <3>1. k \in Bars /\ k = MaxBars
      <4>1. k \in Bars
        BY <1>9
      <4>2. k \in 1 .. MaxBars /\ k + 1 \notin 1 .. MaxBars
        BY <4>1, <2>10, <1>3
      <4>3. QED BY <4>1, <4>2, <1>0
    <3>2. n \in Bars
      BY <1>9
    <3>3. QED BY <3>1, <3>2, <1>3
  <2> DEFINE h == [i \in 1 .. n |-> g[i]]
  <2>12. h \in [Bars -> Bars \ {x}] /\ \A i, j \in Bars : h[i] = h[j] => i = j
    BY <2>4, <2>11, <1>3, <1>9, <1>10
  <2>13. IsFiniteSet(Bars) /\ IsFiniteSet(Bars \ {x}) /\ Cardinality(Bars \ {x}) < Cardinality(Bars)
    <3>1. IsFiniteSet(1 .. MaxBars)
      BY <1>0, FS_Interval
    <3>2. x \in Bars
      BY <1>3
    <3>3. IsFiniteSet(Bars) /\ Cardinality(Bars) \in Nat
      BY <3>1, <1>3, FS_CardinalityType
    <3>4. IsFiniteSet(Bars \ {x}) /\ Cardinality(Bars \ {x}) = Cardinality(Bars) - 1
      BY <3>2, <3>3, FS_RemoveElement
    <3>5. QED BY <3>3, <3>4
  <2> HIDE DEF h
  <2>14. \E i, j \in Bars : i # j /\ h[i] = h[j]
    BY <2>12, <2>13, FS_PigeonHole
  <2>15. QED BY <2>12, <2>14
<1>13. Elements(Chain(head)) = C
  BY <1>8, <1>9, <1>12 DEF Elements
<1>14. \A i \in 1 .. n : i # 1 => i - 1 \in 1 .. n
  OBVIOUS
<1>15. \A i \in DOMAIN Chain(head) :
         prev[Chain(head)[i]] = IF i = 1 THEN Nil ELSE Chain(head)[i - 1]
  BY <1>8, <1>11, <1>14
<1>16. \A i, j \in DOMAIN Chain(head) : i # j => Chain(head)[i] # Chain(head)[j]
  BY <1>8, <1>10
<1>17. head = Nil => C = {}
  <2> SUFFICES ASSUME head = Nil, NEW x \in C PROVE FALSE
    OBVIOUS
  <2>1. PICK k \in 1 .. n : g[k] = x
    BY <1>12
  <2>2. 1 \in 1 .. n /\ 1 \in Bars
    BY <1>9
  <2>3. g[1] = head /\ g[1] # Nil
    BY <2>2, <1>4, <1>7
  <2>4. QED BY <2>3
<1>18. QED BY <1>8, <1>13, <1>15, <1>16, <1>17

(* A list is not disturbed by what happens to the links of other bars. *)
LEMMA Elsewhere ==
  ASSUME NEW C, NEW head, NEW nx, NEW pv, Linear(C, head, nx, pv),
         NEW nx2 \in [Bars -> Links], NEW pv2 \in [Bars -> Links],
         \A b \in C : nx2[b] = nx[b] /\ pv2[b] = pv[b]
  PROVE  Linear(C, head, nx2, pv2)
<1>1. PICK rank \in [Bars -> Nat], N \in Nat : Linked(C, head, nx, pv, rank, N)
  BY DEF Linear
<1>2. Linked(C, head, nx2, pv2, rank, N)
  BY <1>1 DEF Linked
<1>3. QED BY <1>2 DEF Linear

(* A bar is put in front of a list. *)
FrontNext(nx, b, head) == [nx EXCEPT ![b] = head]
FrontPrev(pv, b, head) == [k \in Bars |-> CASE k = b -> Nil [] k = head -> b [] OTHER -> pv[k]]
(* What PushFront does to the links leaves a list. *)
LEMMA PushedFront ==
  ASSUME NEW C, NEW head, NEW nx, NEW pv, Linear(C, head, nx, pv), NEW b \in Bars \ C,
         NEW nx2, nx2 = FrontNext(nx, b, head), NEW pv2, pv2 = FrontPrev(pv, b, head)
  PROVE  Linear(C \cup {b}, b, nx2, pv2)
<1>1. PICK rank \in [Bars -> Nat], N \in Nat : Linked(C, head, nx, pv, rank, N)
  BY DEF Linear
<1>2. C \subseteq Bars /\ head \in Links /\ nx \in [Bars -> Links] /\ pv \in [Bars -> Links]
      /\ Nil \notin Bars /\ head # b /\ (head # Nil => head \in C /\ pv[head] = Nil)
  BY <1>1 DEF Linear, Links, Bars, Nil, Linked
<1>3. nx2 \in [Bars -> Links] /\ nx2[b] = head /\ \A k \in C : nx2[k] = nx[k]
  BY <1>2 DEF Links, FrontNext
<1>4. pv2 \in [Bars -> Links] /\ pv2[b] = Nil /\ (head # Nil => pv2[head] = b)
      /\ \A k \in C : k # head => pv2[k] = pv[k]
  BY <1>2 DEF Links, FrontPrev
<1> DEFINE rank2 == [rank EXCEPT ![b] = N]
<1>5. rank2 \in [Bars -> Nat] /\ N + 1 \in Nat /\ rank2[b] = N /\ \A k \in C : rank2[k] = rank[k] /\ rank[k] < N
  BY <1>1, <1>2 DEF Linked
<1> HIDE DEF rank2
<1>6. Linked(C \cup {b}, b, nx2, pv2, rank2, N + 1)
  <2>1. ASSUME NEW k \in C
        PROVE  /\ rank2[k] < N + 1
               /\ nx2[k] # Nil => nx2[k] \in C /\ pv2[nx2[k]] = k /\ rank2[nx2[k]] < rank2[k]
               /\ pv2[k] # Nil => pv2[k] \in C \cup {b} /\ nx2[pv2[k]] = k
               /\ pv2[k] # Nil
    <3>1. rank2[k] < N + 1
      BY <1>2, <1>5
    <3>2. ASSUME nx2[k] # Nil PROVE nx2[k] \in C /\ pv2[nx2[k]] = k /\ rank2[nx2[k]] < rank2[k]
      <4>1. nx[k] # Nil /\ nx[k] \in C /\ pv[nx[k]] = k /\ rank[nx[k]] < rank[k]
        BY <3>2, <1>1, <1>3 DEF Linked
      <4>2. nx[k] # head
        BY <4>1, <1>2
      <4>3. QED BY <4>1, <4>2, <1>3, <1>4, <1>5
    <3>3. pv2[k] # Nil /\ pv2[k] \in C \cup {b} /\ nx2[pv2[k]] = k
      <4>1. CASE k = head
        BY <4>1, <1>2, <1>3, <1>4
      <4>2. CASE k # head
        <5>1. pv[k] # Nil /\ pv[k] \in C /\ nx[pv[k]] = k
          BY <4>2, <1>1 DEF Linked
        <5>2. QED BY <4>2, <5>1, <1>3, <1>4
      <4>3. QED BY <4>1, <4>2
    <3>4. QED BY <3>1, <3>2, <3>3
  <2>2. nx2[b] # Nil => nx2[b] \in C /\ pv2[nx2[b]] = b /\ rank2[nx2[b]] < rank2[b]
    BY <1>2, <1>3, <1>4, <1>5
  <2>3. b # Nil /\ pv2[b] = Nil /\ rank2[b] < N + 1
    BY <1>2, <1>4, <1>5
  <2>4. QED BY <2>1, <2>2, <2>3 DEF Linked
<1>7. QED BY <1>2, <1>3, <1>4, <1>5, <1>6 DEF Linear, Links

(* A bar is taken out of a list. *)
PastNext(nx, pv, b) == [k \in Bars |-> IF pv[b] # Nil /\ k = pv[b] THEN nx[b] ELSE nx[k]]
PastPrev(nx, pv, b) == [k \in Bars |-> IF nx[b] # Nil /\ k = nx[b] THEN pv[b] ELSE pv[k]]
(* What Redeem does to the links of its neighbours leaves a list. *)
LEMMA Unlinked ==
  ASSUME NEW C, NEW head, NEW nx, NEW pv, Linear(C, head, nx, pv), NEW b \in C,
         NEW nx2, nx2 = PastNext(nx, pv, b), NEW pv2, pv2 = PastPrev(nx, pv, b)
  PROVE  Linear(C \ {b}, IF pv[b] = Nil THEN nx[b] ELSE head, nx2, pv2)
<1>1. PICK rank \in [Bars -> Nat], N \in Nat : Linked(C, head, nx, pv, rank, N)
  BY DEF Linear
<1>2. C \subseteq Bars /\ head \in Links /\ nx \in [Bars -> Links] /\ pv \in [Bars -> Links]
      /\ Nil \notin Bars /\ b \in Bars
  BY DEF Linear, Bars, Nil
<1> DEFINE h2 == IF pv[b] = Nil THEN nx[b] ELSE head
<1>0. /\ nx2 = [k \in Bars |-> IF pv[b] # Nil /\ k = pv[b] THEN nx[b] ELSE nx[k]]
      /\ pv2 = [k \in Bars |-> IF nx[b] # Nil /\ k = nx[b] THEN pv[b] ELSE pv[k]]
  BY DEF PastNext, PastPrev
<1>3. h2 \in Links /\ nx2 \in [Bars -> Links] /\ pv2 \in [Bars -> Links]
  BY <1>0, <1>2 DEF Links
<1>4. /\ \A k \in C : rank[k] \in Nat /\ rank[k] < N
      /\ nx[b] # Nil => nx[b] \in C /\ pv[nx[b]] = b /\ rank[nx[b]] < rank[b]
      /\ pv[b] # Nil => pv[b] \in C /\ nx[pv[b]] = b
      /\ pv[b] = Nil <=> b = head
  BY <1>1, <1>2 DEF Linked
<1>5. nx[b] # b /\ pv[b] # b
  <2>1. nx[b] # b
    BY <1>2, <1>4
  <2>2. QED BY <2>1, <1>2, <1>4
<1>6. h2 # Nil => h2 \in C \ {b} /\ pv2[h2] = Nil
  <2>1. CASE pv[b] = Nil
    BY <2>1, <1>0, <1>2, <1>4, <1>5
  <2>2. CASE pv[b] # Nil
    <3>1. head # Nil => head \in C /\ pv[head] = Nil /\ head # b
      BY <2>2, <1>1 DEF Linked
    <3>2. head # Nil => head # nx[b]
      BY <3>1, <2>2, <1>0, <1>2, <1>4
    <3>3. QED BY <2>2, <3>1, <3>2, <1>0, <1>2
  <2>3. QED BY <2>1, <2>2
<1>7. ASSUME NEW k \in C \ {b}
      PROVE  /\ rank[k] < N
             /\ nx2[k] # Nil => nx2[k] \in C \ {b} /\ pv2[nx2[k]] = k /\ rank[nx2[k]] < rank[k]
             /\ pv2[k] # Nil => pv2[k] \in C \ {b} /\ nx2[pv2[k]] = k
             /\ pv2[k] = Nil => k = h2
  <2>1. /\ nx[k] # Nil => nx[k] \in C /\ pv[nx[k]] = k /\ rank[nx[k]] < rank[k]
        /\ pv[k] # Nil => pv[k] \in C /\ nx[pv[k]] = k
        /\ pv[k] = Nil => k = head
    BY <1>1 DEF Linked
  <2>2. ASSUME nx2[k] # Nil PROVE nx2[k] \in C \ {b} /\ pv2[nx2[k]] = k /\ rank[nx2[k]] < rank[k]
    <3>1. CASE k = pv[b] /\ pv[b] # Nil
      <4>1. nx2[k] = nx[b] /\ nx[b] # Nil /\ nx[k] = b
        BY <3>1, <2>2, <1>0, <1>2, <1>4
      <4>2. nx[b] \in C \ {b} /\ pv2[nx[b]] = k /\ rank[nx[b]] < rank[b]
        BY <3>1, <4>1, <1>0, <1>2, <1>4, <1>5
      <4>3. rank[b] < rank[k] /\ rank[b] \in Nat /\ rank[k] \in Nat /\ rank[nx[b]] \in Nat
        BY <4>1, <4>2, <2>1, <1>2, <1>4
      <4>4. QED BY <4>1, <4>2, <4>3
    <3>2. CASE ~(k = pv[b] /\ pv[b] # Nil)
      <4>1. nx2[k] = nx[k] /\ nx[k] # Nil
        BY <3>2, <2>2, <1>0, <1>2
      <4>2. nx[k] # b
        BY <3>2, <4>1, <2>1, <1>2
      <4>3. nx[b] # Nil => nx[k] # nx[b]
        BY <4>1, <2>1, <1>4
      <4>4. QED BY <4>1, <4>2, <4>3, <2>1, <1>0, <1>2
    <3>3. QED BY <3>1, <3>2
  <2>3. /\ pv2[k] # Nil => pv2[k] \in C \ {b} /\ nx2[pv2[k]] = k
        /\ pv2[k] = Nil => k = h2
    <3>1. CASE k = nx[b] /\ nx[b] # Nil
      BY <3>1, <1>0, <1>2, <1>4, <1>5
    <3>2. CASE ~(k = nx[b] /\ nx[b] # Nil)
      <4>1. pv2[k] = pv[k]
        BY <3>2, <1>0, <1>2
      <4>2. k # Nil
        BY <1>2
      <4>3. ASSUME pv[k] # Nil PROVE pv[k] \in C \ {b} /\ nx2[pv[k]] = k
        <5>1. pv[k] # b
          BY <3>2, <4>2, <4>3, <2>1
        <5>2. ~(pv[b] # Nil /\ pv[k] = pv[b])
          BY <4>3, <2>1, <1>4
        <5>3. QED BY <4>3, <5>1, <5>2, <2>1, <1>0, <1>2
      <4>4. ASSUME pv[k] = Nil PROVE k = h2
        <5>1. k = head /\ head # b
          BY <4>4, <2>1
        <5>2. QED BY <5>1, <1>4
      <4>5. QED BY <4>1, <4>3, <4>4
    <3>3. QED BY <3>1, <3>2
  <2>4. QED BY <2>2, <2>3, <1>4
<1>8. Linked(C \ {b}, h2, nx2, pv2, rank, N)
  <2> HIDE DEF h2
  <2>1. QED BY <1>6, <1>7 DEF Linked
<1>9. Linear(C \ {b}, h2, nx2, pv2)
  BY <1>2, <1>3, <1>8 DEF Linear
<1>10. QED BY <1>9

-----------------------------------------------------------------------------
(* The two lists of each frame.  Frames have no bar in common. *)
LEMMA Apart ==
  ASSUME Owners, NEW f \in Frames, NEW g \in Frames, f # g
  PROVE  OwnedIn(f) \cap OwnedIn(g) = {}
  BY DEF Owners, OwnedIn

(* A bar in use is of a window, and on the lists of its frame. *)
LEMMA OwnedInFrames ==
  ASSUME EmacsTypes, Lists
  PROVE  /\ \A f \in Frames : OwnedIn(f) \subseteq Owned
         /\ Owned \subseteq Bars
         /\ \A b \in Owned : win[b] \in Windows /\ barOf[win[b]] = b /\ b \in OwnedIn(FrameOf[win[b]])
         /\ \A f \in Frames : \A b \in OwnedIn(f) : win[b] \in Windows /\ FrameOf[win[b]] = f
         /\ \A w \in Windows : barOf[w] # Nil => barOf[w] \in OwnedIn(FrameOf[w]) /\ FrameOf[w] \in Frames
<1>1. /\ \A w \in Windows : barOf[w] # Nil => win[barOf[w]] = w /\ barOf[w] \in Bars
      /\ \A w \in Windows : FrameOf[w] \in Frames
  BY FrameOfAssumption DEF EmacsTypes, Lists, Owners, Links
<1>2. QED BY <1>1 DEF Owned, OwnedIn

(* What the lists are made of, and that they are what the code walks.        *)
LEMMA SplitSound ==
  ASSUME NEW f, NEW L, NEW D, Split(f, L, D)
  PROVE  /\ Elements(Chain(bars[f])) = L /\ Elements(Chain(condemned[f])) = D /\ Listed(f) = OwnedIn(f)
         /\ condemned[f] = Nil => D = {} /\ L = OwnedIn(f)
         /\ \A c \in {Chain(bars[f]), Chain(condemned[f])} :
              /\ \A i, j \in DOMAIN c : i # j => c[i] # c[j]
              /\ \A i \in DOMAIN c : prev[c[i]] = IF i = 1 THEN Nil ELSE c[i - 1]
<1>1. Linear(L, bars[f], next, prev) /\ Linear(D, condemned[f], next, prev) /\ L \cup D = OwnedIn(f)
  BY DEF Split
<1>2. /\ Elements(Chain(bars[f])) = L
      /\ \A i, j \in DOMAIN Chain(bars[f]) : i # j => Chain(bars[f])[i] # Chain(bars[f])[j]
      /\ \A i \in DOMAIN Chain(bars[f]) :
           prev[Chain(bars[f])[i]] = IF i = 1 THEN Nil ELSE Chain(bars[f])[i - 1]
  BY <1>1, ChainOf
<1>3. /\ Elements(Chain(condemned[f])) = D /\ (condemned[f] = Nil => D = {})
      /\ \A i, j \in DOMAIN Chain(condemned[f]) : i # j => Chain(condemned[f])[i] # Chain(condemned[f])[j]
      /\ \A i \in DOMAIN Chain(condemned[f]) :
           prev[Chain(condemned[f])[i]] = IF i = 1 THEN Nil ELSE Chain(condemned[f])[i - 1]
  BY <1>1, ChainOf
<1>4. Listed(f) = OwnedIn(f)
  BY <1>1, <1>2, <1>3 DEF Listed
<1>5. QED BY <1>1, <1>2, <1>3, <1>4, Zenon

(* Only the lists of the frame F0 change. *)
LEMMA Relinked ==
  ASSUME Lists, Owners', NEW f0 \in Frames, next' \in [Bars -> Links], prev' \in [Bars -> Links],
         \A f \in Frames \ {f0} : bars'[f] = bars[f] /\ condemned'[f] = condemned[f] /\ OwnedIn(f)' = OwnedIn(f),
         \A f \in Frames \ {f0} : \A b \in OwnedIn(f) : next'[b] = next[b] /\ prev'[b] = prev[b],
         NEW L \in SUBSET Bars, NEW D \in SUBSET Bars, Split(f0, L, D)'
  PROVE  Lists'
<1>1. ASSUME NEW f \in Frames PROVE \E M, E \in SUBSET Bars : Split(f, M, E)'
  <2>1. CASE f = f0
    BY <2>1
  <2>2. CASE f # f0
    <3>1. PICK M \in SUBSET Bars, E \in SUBSET Bars : Split(f, M, E)
      BY DEF Lists
    <3>2. \A b \in M \cup E : next'[b] = next[b] /\ prev'[b] = prev[b]
      BY <2>2, <3>1 DEF Split
    <3>3. Linear(M, bars[f], next', prev')
      BY <3>1, <3>2, Elsewhere DEF Split
    <3>4. Linear(E, condemned[f], next', prev')
      BY <3>1, <3>2, Elsewhere DEF Split
    <3>5. Split(f, M, E)'
      BY <2>2, <3>1, <3>3, <3>4 DEF Split
    <3>6. QED BY <3>5
  <2>3. QED BY <2>1, <2>2
<1>2. QED BY <1>1 DEF Lists

(* A bar that is put in front of the list of FRAME, where it was not. *)
LEMMA PutInFront ==
  ASSUME EmacsTypes, Lists, Owners', NEW fr \in Frames, fr = frame, NEW b \in Bars, NEW nx, NEW pv,
         NEW L \in SUBSET Bars, NEW D \in SUBSET Bars, NEW d,
         Linear(L, bars[fr], nx, pv), Linear(D, d, nx, pv), b \notin L \cup D, L \cap D = {},
         condemned' = [condemned EXCEPT ![fr] = d], PushFront(b, nx, pv),
         OwnedIn(fr)' = L \cup D \cup {b}, \A f \in Frames \ {fr} : OwnedIn(f)' = OwnedIn(f),
         \A f \in Frames \ {fr} : \A k \in OwnedIn(f) : k # b /\ k \notin L /\ nx[k] = next[k] /\ pv[k] = prev[k]
  PROVE  Lists'
<1>1. /\ fr \in Frames /\ nx \in [Bars -> Links] /\ pv \in [Bars -> Links] /\ L \subseteq Bars /\ D \subseteq Bars
      /\ bars[fr] \in Links /\ (bars[fr] # Nil => bars[fr] \in L)
      /\ bars \in [Frames -> Links] /\ condemned \in [Frames -> Links] /\ Nil \notin Bars
  BY DEF Linear, Linked, EmacsTypes, Bars, Nil
<1>2. /\ bars' = [bars EXCEPT ![fr] = b] /\ next' = [nx EXCEPT ![b] = bars[fr]]
      /\ prev' = [k \in Bars |-> CASE k = b -> Nil [] k = bars[fr] -> b [] OTHER -> pv[k]]
      /\ condemned' = [condemned EXCEPT ![fr] = d]
  BY DEF PushFront
<1>3. Linear(L \cup {b}, b, next', prev')
  <2>1. b \in Bars \ L
    OBVIOUS
  <2>2. next' = FrontNext(nx, b, bars[fr]) /\ prev' = FrontPrev(pv, b, bars[fr])
    BY <1>2 DEF FrontNext, FrontPrev
  <2>3. QED BY <2>1, <2>2, PushedFront
<1>4. next' \in [Bars -> Links] /\ prev' \in [Bars -> Links]
  BY <1>3 DEF Linear
<1>5. \A k \in Bars : k # b /\ k \notin L => next'[k] = nx[k] /\ prev'[k] = pv[k]
  BY <1>1, <1>2
<1>6. Linear(D, d, next', prev')
  <2>1. \A k \in D : next'[k] = nx[k] /\ prev'[k] = pv[k]
    BY <1>1, <1>5
  <2>2. QED BY <1>4, <2>1, Elsewhere
<1>7. bars'[fr] = b /\ condemned'[fr] = d /\ \A f \in Frames \ {fr} : bars'[f] = bars[f] /\ condemned'[f] = condemned[f]
  BY <1>1, <1>2
<1>8. Split(fr, L \cup {b}, D)'
  <2>1. (L \cup {b}) \cap D = {} /\ (L \cup {b}) \cup D = OwnedIn(fr)'
    OBVIOUS
  <2>2. QED BY <1>3, <1>6, <1>7, <2>1 DEF Split
<1>9. QED
  <2>1. \A f \in Frames \ {fr} : \A k \in OwnedIn(f) : next'[k] = next[k] /\ prev'[k] = prev[k]
    <3>1. \A f \in Frames \ {fr} : \A k \in OwnedIn(f) : k \in Bars
      BY OwnedInFrames
    <3>2. QED BY <1>5, <3>1
  <2>2. L \cup {b} \in SUBSET Bars
    BY <1>1
  <2>3. QED BY <1>1, <1>4, <1>7, <1>8, <2>1, <2>2, Relinked

-----------------------------------------------------------------------------
(* What is kept of a sequence: in its first N elements, then in all.         *)
Filter(g, n, s, set) ==
  g = [k \in 0 .. n |->
         IF k = 0 THEN <<>> ELSE IF s[k] \in set THEN Append(g[k - 1], s[k]) ELSE g[k - 1]]
(* Such a function exists, as for the steps along a list. *)
LEMMA Filtering ==
  ASSUME NEW n \in Nat, NEW s, NEW set
  PROVE  \E g : Filter(g, n, s, set)
<1> DEFINE T == {m \in Nat : ~\E g : Filter(g, m, s, set)}
<1>1. SUFFICES ASSUME T # {} PROVE FALSE
  OBVIOUS
<1>2. PICK m \in T : \A k \in T : m <= k
  BY <1>1, LeastNumber
<1>3. m # 0
  <2> DEFINE z == [k \in 0 .. 0 |-> <<>>]
  <2>1. Filter(z, 0, s, set)
    BY DEF Filter
  <2>2. QED BY <2>1
<1>4. m - 1 \in Nat /\ m - 1 \notin T
  BY <1>2, <1>3
<1>5. PICK g : Filter(g, m - 1, s, set)
  BY <1>4
<1> DEFINE v == IF s[m] \in set THEN Append(g[m - 1], s[m]) ELSE g[m - 1]
           h == [k \in 0 .. m |-> IF k = m THEN v ELSE g[k]]
<1>6. ASSUME NEW k \in 0 .. m
      PROVE  h[k] = IF k = 0 THEN <<>> ELSE IF s[k] \in set THEN Append(h[k - 1], s[k]) ELSE h[k - 1]
  <2>1. k # 0 => k - 1 \in 0 .. m /\ k - 1 # m /\ h[k - 1] = g[k - 1]
    BY <1>4
  <2>2. CASE k = m
    BY <2>1, <2>2, <1>3
  <2>3. CASE k # m
    <3>1. k \in 0 .. m - 1
      BY <2>3, <1>4
    <3>2. g[k] = IF k = 0 THEN <<>> ELSE IF s[k] \in set THEN Append(g[k - 1], s[k]) ELSE g[k - 1]
      BY <3>1, <1>5, Zenon DEF Filter
    <3>3. QED BY <2>1, <2>3, <3>2
  <2>4. QED BY <2>2, <2>3
<1>7. Filter(h, m, s, set)
  <2> HIDE DEF v
  <2>1. h = [k \in 0 .. m |-> h[k]]
    OBVIOUS
  <2> HIDE DEF h
  <2>2. QED BY <1>6, <2>1, Zenon DEF Filter
<1>8. QED BY <1>2, <1>7

(* The elements kept are elements of the sequence at different places.       *)
Embedded(t, s, n, set) ==
  \E f \in [1 .. Len(t) -> 1 .. n] :
    /\ \A j \in 1 .. Len(t) : t[j] = s[f[j]] /\ t[j] \in set
    /\ \A i, j \in 1 .. Len(t) : f[i] = f[j] => i = j
(* Kept takes nothing twice and nothing from elsewhere. *)
LEMMA KeptIn ==
  ASSUME NEW S, NEW s \in Seq(S), NEW set
  PROVE  Kept(s, set) \in Seq(S) /\ Embedded(Kept(s, set), s, Len(s), set)
<1>1. Len(s) \in Nat
  OBVIOUS
<1> DEFINE g == CHOOSE g : Filter(g, Len(s), s, set)
<1>2. Filter(g, Len(s), s, set)
  BY <1>1, Filtering
<1>3. Kept(s, set) = g[Len(s)]
  BY DEF Kept, Filter
<1> HIDE DEF g
<1>4. \A k \in 0 .. Len(s) : g[k] = IF k = 0 THEN <<>>
                                    ELSE IF s[k] \in set THEN Append(g[k - 1], s[k]) ELSE g[k - 1]
  BY <1>2, Zenon DEF Filter
<1> DEFINE T == {k \in 0 .. Len(s) : ~(g[k] \in Seq(S) /\ Embedded(g[k], s, k, set))}
<1>5. T = {}
  <2>1. SUFFICES ASSUME T # {} PROVE FALSE
    OBVIOUS
  <2> T \in SUBSET Nat
    BY <1>1
  <2>2. PICK k \in T : \A m \in T : k <= m
    <3> HIDE DEF T
    <3> QED BY <2>1, LeastNumber
  <2>3. k # 0
    <3>1. <<>> \in Seq(S) /\ Len(<<>>) = 0 /\ 1 .. 0 = {}
      OBVIOUS
    <3>2. Embedded(<<>>, s, 0, set)
      <4>1. [j \in 1 .. Len(<<>>) |-> 1] \in [1 .. Len(<<>>) -> 1 .. 0]
        BY <3>1
      <4>2. QED BY <3>1, <4>1 DEF Embedded
    <3>3. QED BY <3>1, <3>2, <2>2, <1>4
  <2>4. k \in 1 .. Len(s) /\ k - 1 \in 0 .. Len(s) /\ k - 1 \notin T
    BY <2>2, <2>3, <1>1
  <2> DEFINE t == g[k - 1]
  <2>5. t \in Seq(S) /\ Embedded(t, s, k - 1, set)
    BY <2>4
  <2>6. PICK f \in [1 .. Len(t) -> 1 .. k - 1] :
          /\ \A j \in 1 .. Len(t) : t[j] = s[f[j]] /\ t[j] \in set
          /\ \A i, j \in 1 .. Len(t) : f[i] = f[j] => i = j
    BY <2>5 DEF Embedded
  <2>7. Len(t) \in Nat /\ s[k] \in S
    BY <2>4, <2>5
  <2>8. CASE s[k] \notin set
    <3>1. g[k] = t
      BY <2>8, <2>3, <2>4, <1>4
    <3>2. f \in [1 .. Len(t) -> 1 .. k]
      BY <2>6, <2>4
    <3>3. Embedded(t, s, k, set)
      <4> HIDE DEF t
      <4>1. QED BY <3>2, <2>6 DEF Embedded
    <3>4. QED BY <3>1, <3>3, <2>2, <2>5
  <2>9. CASE s[k] \in set
    <3>1. g[k] = Append(t, s[k])
      BY <2>9, <2>3, <2>4, <1>4
    <3> HIDE DEF t
    <3> DEFINE u == Append(t, s[k])
               h == [j \in 1 .. Len(u) |-> IF j = Len(u) THEN k ELSE f[j]]
    <3>2. /\ u \in Seq(S) /\ Len(u) = Len(t) + 1 /\ u[Len(u)] = s[k]
          /\ \A j \in 1 .. Len(u) : j # Len(u) => j \in 1 .. Len(t) /\ u[j] = t[j]
      BY <2>5, <2>7
    <3> HIDE DEF u
    <3>3. \A j \in 1 .. Len(u) : IF j = Len(u) THEN h[j] = k ELSE h[j] = f[j] /\ f[j] \in 1 .. k - 1
      BY <3>2, <2>6
    <3>4. h \in [1 .. Len(u) -> 1 .. k]
      BY <3>3, <2>4
    <3>5. \A j \in 1 .. Len(u) : u[j] = s[h[j]] /\ u[j] \in set
      BY <3>2, <3>3, <2>6, <2>9
    <3>6. \A i, j \in 1 .. Len(u) : h[i] = h[j] => i = j
      BY <3>2, <3>3, <2>4, <2>6
    <3> HIDE DEF h
    <3>7. Embedded(u, s, k, set)
      BY <3>4, <3>5, <3>6 DEF Embedded
    <3>8. QED BY <3>1, <3>2, <3>7, <2>2 DEF u
  <2>10. QED BY <2>8, <2>9
<1>6. QED BY <1>1, <1>3, <1>5

-----------------------------------------------------------------------------
(* What the requests are made of. *)
LEMMA RequestFields ==
  ASSUME NEW r \in Requests
  PROVE  /\ r.op \in {"create", "destroy", "update", "move", "delete"}
         /\ r.op = "create" => r.bar \in Bars /\ r.to \in Values /\ r.at \in Places
         /\ r.op = "destroy" => r.id \in Ids /\ r.frame \in Frames
         /\ r.op = "update" => r.id \in Ids /\ r.to \in Values
         /\ r.op = "move" => r.id \in Ids /\ r.to \in Places
         /\ r.op = "delete" => r.frame \in Frames /\ r.bars \subseteq Bars
  BY DEF Requests

(* Requests are added to a sequence and taken from it: what is asked of a    *)
(* bar by the last request about it.                                         *)
LEMMA AskedLast ==
  ASSUME NEW S, NEW s \in Seq(S), NEW r \in S, NEW op, NEW i, About(r, op, i)
  PROVE  Asked(Append(s, r), op, i, r.to)
<1>1. Len(s) + 1 \in 1 .. Len(Append(s, r)) /\ Append(s, r)[Len(s) + 1] = r
      /\ (Len(s) + 1) + 1 .. Len(Append(s, r)) = {}
  OBVIOUS
<1>2. QED BY <1>1 DEF Asked, Unasked

(* A request about something else changes nothing of what was asked. *)
LEMMA AddedOther ==
  ASSUME NEW S, NEW s \in Seq(S), NEW r \in S, NEW op, NEW i, NEW v, ~About(r, op, i)
  PROVE  /\ Asked(s, op, i, v) => Asked(Append(s, r), op, i, v)
         /\ Unasked(s, 1, op, i) => Unasked(Append(s, r), 1, op, i)
<1>1. /\ Len(s) \in Nat /\ Len(Append(s, r)) = Len(s) + 1 /\ Append(s, r)[Len(s) + 1] = r
      /\ \A k \in 1 .. Len(s) : Append(s, r)[k] = s[k]
  OBVIOUS
<1>2. ASSUME NEW n \in Nat \ {0}, Unasked(s, n, op, i) PROVE Unasked(Append(s, r), n, op, i)
  BY <1>1, <1>2 DEF Unasked
<1>3. ASSUME Asked(s, op, i, v) PROVE Asked(Append(s, r), op, i, v)
  <2>1. PICK k \in 1 .. Len(s) : About(s[k], op, i) /\ s[k].to = v /\ Unasked(s, k + 1, op, i)
    BY <1>3 DEF Asked
  <2>2. Unasked(Append(s, r), k + 1, op, i) /\ k \in 1 .. Len(Append(s, r))
    BY <2>1, <1>1, <1>2
  <2>3. QED BY <2>1, <2>2, <1>1 DEF Asked
<1>4. QED BY <1>2, <1>3

(* Nor do several. *)
LEMMA AddedOthers ==
  ASSUME NEW S, NEW s \in Seq(S), NEW t \in Seq(S), NEW op, NEW i, NEW v,
         \A k \in 1 .. Len(t) : ~About(t[k], op, i)
  PROVE  /\ Asked(s, op, i, v) => Asked(s \o t, op, i, v)
         /\ Unasked(s, 1, op, i) => Unasked(s \o t, 1, op, i)
<1>1. /\ Len(s) \in Nat /\ Len(t) \in Nat /\ Len(s \o t) = Len(s) + Len(t)
      /\ \A k \in 1 .. Len(s) : (s \o t)[k] = s[k]
      /\ \A k \in 1 .. Len(s) + Len(t) : k > Len(s) => k - Len(s) \in 1 .. Len(t) /\ (s \o t)[k] = t[k - Len(s)]
  OBVIOUS
<1>2. ASSUME NEW n \in Nat \ {0}, Unasked(s, n, op, i) PROVE Unasked(s \o t, n, op, i)
  <2> SUFFICES ASSUME NEW k \in n .. Len(s \o t) PROVE ~About((s \o t)[k], op, i)
    BY DEF Unasked
  <2>1. CASE k <= Len(s)
    BY <2>1, <1>1, <1>2 DEF Unasked
  <2>2. CASE k > Len(s)
    BY <2>2, <1>1
  <2>3. QED BY <2>1, <2>2, <1>1
<1>3. ASSUME Asked(s, op, i, v) PROVE Asked(s \o t, op, i, v)
  <2>1. PICK k \in 1 .. Len(s) : About(s[k], op, i) /\ s[k].to = v /\ Unasked(s, k + 1, op, i)
    BY <1>3 DEF Asked
  <2>2. Unasked(s \o t, k + 1, op, i) /\ k \in 1 .. Len(s \o t)
    BY <2>1, <1>1, <1>2
  <2>3. QED BY <2>1, <2>2, <1>1 DEF Asked
<1>4. QED BY <1>2, <1>3

(* What is asked stays asked when the first request is taken, unless it was it. *)
LEMMA TakenFirst ==
  ASSUME NEW S, NEW s \in Seq(S), s # <<>>, NEW op, NEW i, NEW v
  PROVE  /\ Asked(s, op, i, v) =>
              \/ Asked(Tail(s), op, i, v)
              \/ About(Head(s), op, i) /\ Head(s).to = v /\ Unasked(Tail(s), 1, op, i)
         /\ Unasked(s, 1, op, i) => Unasked(Tail(s), 1, op, i) /\ ~About(Head(s), op, i)
<1>1. /\ Len(s) \in Nat \ {0} /\ Len(Tail(s)) = Len(s) - 1 /\ Head(s) = s[1]
      /\ \A k \in 1 .. Len(s) - 1 : Tail(s)[k] = s[k + 1]
  OBVIOUS
<1>2. ASSUME NEW n \in Nat \ {0}, Unasked(s, n + 1, op, i) PROVE Unasked(Tail(s), n, op, i)
  <2> SUFFICES ASSUME NEW k \in n .. Len(Tail(s)) PROVE ~About(Tail(s)[k], op, i)
    BY DEF Unasked
  <2>1. k + 1 \in n + 1 .. Len(s) /\ Tail(s)[k] = s[k + 1]
    BY <1>1
  <2>2. QED BY <2>1, <1>2 DEF Unasked
<1>3. ASSUME Unasked(s, 1, op, i) PROVE Unasked(Tail(s), 1, op, i) /\ ~About(Head(s), op, i)
  <2>1. Unasked(s, 2, op, i) /\ ~About(s[1], op, i)
    BY <1>3, <1>1 DEF Unasked
  <2>2. Unasked(s, 1 + 1, op, i)
    BY <2>1
  <2>3. QED BY <2>1, <2>2, <1>1, <1>2
<1>4. ASSUME Asked(s, op, i, v)
      PROVE  \/ Asked(Tail(s), op, i, v)
             \/ About(Head(s), op, i) /\ Head(s).to = v /\ Unasked(Tail(s), 1, op, i)
  <2>1. PICK k \in 1 .. Len(s) : About(s[k], op, i) /\ s[k].to = v /\ Unasked(s, k + 1, op, i)
    BY <1>4 DEF Asked
  <2>2. CASE k = 1
    <3>1. Unasked(Tail(s), 1, op, i)
      BY <2>1, <2>2, <1>2
    <3>2. QED BY <2>1, <2>2, <3>1, <1>1
  <2>3. CASE k # 1
    <3>1. k - 1 \in 1 .. Len(Tail(s)) /\ Tail(s)[k - 1] = s[k] /\ (k - 1) + 1 = k
      BY <2>3, <1>1
    <3>2. Unasked(Tail(s), (k - 1) + 1, op, i)
      BY <2>1, <2>3, <3>1, <1>2
    <3>3. QED BY <2>1, <3>1, <3>2 DEF Asked
  <2>4. QED BY <2>2, <2>3
<1>5. QED BY <1>3, <1>4

(* What does not change when the variables it is about do not. *)
LEMMA SameLists ==
  ASSUME UNCHANGED <<lists, barOf, win>>
  PROVE  (Lists' <=> Lists) /\ Owned' = Owned /\ \A f \in Frames : OwnedIn(f)' = OwnedIn(f)
<1>1. UNCHANGED <<bars, condemned, next, prev, barOf, win>>
  BY DEF lists
<1>2. Owned' = Owned /\ \A f \in Frames : OwnedIn(f)' = OwnedIn(f)
  BY <1>1 DEF Owned, OwnedIn
<1>3. \A f \in Frames, L, D \in SUBSET Bars : Split(f, L, D)' <=> Split(f, L, D)
  BY <1>1, <1>2 DEF Split
<1>4. Owners' <=> Owners
  BY <1>1 DEF Owners
<1>5. QED BY <1>2, <1>3, <1>4, Zenon DEF Lists

(* The same, when nothing changes in Emacs. *)
LEMMA SameEmacs ==
  ASSUME UNCHANGED emacs
  PROVE  /\ (EmacsTypes' <=> EmacsTypes) /\ (Stages' <=> Stages) /\ (Lists' <=> Lists) /\ (Fresh' <=> Fresh)
         /\ Owned' = Owned
<1>1. UNCHANGED <<lists, barOf, win>>
  BY DEF emacs, barVars
<1>2. EmacsTypes' <=> EmacsTypes
  BY DEF emacs, lists, barVars, redisplay, EmacsTypes
<1>3. Stages' <=> Stages
  BY DEF emacs, lists, barVars, redisplay, Stages
<1>4. Fresh' <=> Fresh
  BY DEF emacs, lists, barVars, redisplay, Fresh
<1>5. QED BY <1>1, <1>2, <1>3, <1>4, SameLists

(* Sequences after their first element, and with one more. *)
LEMMA TailOf ==
  ASSUME NEW S, NEW s \in Seq(S), s # <<>>
  PROVE  /\ Len(s) \in Nat \ {0} /\ Len(Tail(s)) = Len(s) - 1 /\ Tail(s) \in Seq(S)
         /\ Head(s) = s[1] /\ s[1] \in S /\ 1 \in 1 .. Len(s)
         /\ \A k \in 1 .. Len(Tail(s)) : k + 1 \in 1 .. Len(s) /\ Tail(s)[k] = s[k + 1]
  OBVIOUS

(* One more at the end. *)
LEMMA AppendOf ==
  ASSUME NEW S, NEW s \in Seq(S), NEW r \in S
  PROVE  /\ Len(s) \in Nat /\ Len(Append(s, r)) = Len(s) + 1 /\ Append(s, r) \in Seq(S)
         /\ Append(s, r)[Len(s) + 1] = r
         /\ \A k \in 1 .. Len(s) : Append(s, r)[k] = s[k]
         /\ \A k \in 1 .. Len(Append(s, r)) : k \in 1 .. Len(s) \/ k = Len(s) + 1
  OBVIOUS

(* Several more at the end. *)
LEMMA ConcatOf ==
  ASSUME NEW S, NEW s \in Seq(S), NEW t \in Seq(S)
  PROVE  /\ Len(s) \in Nat /\ Len(t) \in Nat /\ Len(s \o t) = Len(s) + Len(t)
         /\ \A k \in 1 .. Len(s) : (s \o t)[k] = s[k]
         /\ \A k \in 1 .. Len(s \o t) : k \notin 1 .. Len(s) =>
              k - Len(s) \in 1 .. Len(t) /\ (s \o t)[k] = t[k - Len(s)]
  OBVIOUS

(* Nil is told from every bar. *)
LEMMA NilIsNoBar == Nil \notin Bars
  BY BoundAssumption DEF Nil, Bars

-----------------------------------------------------------------------------
(* The empty list. *)
LEMMA NoList ==
  ASSUME NEW nx \in [Bars -> Links], NEW pv \in [Bars -> Links]
  PROVE  Linear({}, Nil, nx, pv)
<1>1. [b \in Bars |-> 0] \in [Bars -> Nat] /\ 0 \in Nat
  OBVIOUS
<1>2. Linked({}, Nil, nx, pv, [b \in Bars |-> 0], 0)
  BY DEF Linked
<1>3. QED BY <1>1, <1>2 DEF Linear, Links

(* At first there are windows and no bars. *)
LEMMA InitInv == Init => Inv
<1> SUFFICES ASSUME Init PROVE Inv
  OBVIOUS
<1>0. MaxBars \in Nat /\ MaxIds \in Nat
  BY BoundAssumption
<1>1. Types
  <2>1. /\ live \subseteq Windows /\ barOf \in [Windows -> Links] /\ win \in [Bars -> Windows \cup {Nil}]
        /\ bars \in [Frames -> Links] /\ condemned \in [Frames -> Links]
        /\ next \in [Bars -> Links] /\ prev \in [Bars -> Links]
    BY DEF Init, Links
  <2>2. /\ id \in [Bars -> Ids \cup {NoId}] /\ table \in [Ids -> Links]
        /\ want \in [Bars -> Values \cup {NoValue}] /\ place \in [Bars -> Places \cup {NoPlace}]
        /\ async \in [Ids -> Values \cup {NoValue}]
        /\ shown \in [Bars -> Values \cup {NoValue}] /\ placed \in [Bars -> Places \cup {NoPlace}]
    BY DEF Init, Links
  <2>3. /\ at \in {"idle", "redisplay", "await", "aborted"} /\ todo \subseteq Windows /\ made \in 0 .. MaxBars
        /\ pipeThread \in {"idle", "waiting", "defer", "set"} /\ pipeThread \notin {"defer", "set"}
        /\ exist \subseteq Bars /\ dragged \in Links
        /\ changes \in Nat /\ clicks \in Nat /\ drags \in Nat /\ deletions \in Nat
    BY <1>0 DEF Init, Links
  <2>4. judging \in BOOLEAN /\ drag \in BOOLEAN
    BY DEF Init
  <2>5. PipeTypes /\ post \in Seq(Requests) /\ Len(post) = 0
    BY DEF Init, PipeTypes
  <2>6. EmacsTypes
    BY <2>1, <2>2, <2>3, <2>4, Zenon DEF EmacsTypes
  <2>7. \A k \in 1 .. Len(post) : post[k].op \in {"create", "destroy"}
    BY <2>5
  <2>8. ScreenTypes
    BY <2>2, <2>3, <2>4, <2>5, <2>7, Zenon DEF ScreenTypes
  <2>9. QED BY <2>5, <2>6, <2>8 DEF Types
<1>2. Owned = {} /\ (\A f \in Frames : OwnedIn(f) = {}) /\ Owners
  BY DEF Init, Owned, OwnedIn, Owners, Nil
<1>3. Lists
  <2>1. Linear({}, Nil, next, prev)
    BY <1>1, NoList DEF Types, EmacsTypes
  <2>2. \A f \in Frames : Split(f, {}, {})
    BY <1>2, <2>1 DEF Split, Init
  <2>3. QED BY <1>2, <2>2 DEF Lists
<1>4. Stages /\ Creating /\ Fresh /\ Table
  BY DEF Init, Stages, Creating, Fresh, Table, NoCreate, Nil
<1>5. Named /\ Destroying /\ Deleting /\ Told /\ Synced
  BY <1>2 DEF Init, Named, Destroying, Deleting, Told, Synced
<1>6. QED BY <1>1, <1>3, <1>4, <1>5 DEF Inv

(* Windows come and go, and redisplay of one window starts and ends.         *)
Quietly ==
  /\ UNCHANGED <<barOf, lists, barVars, pipes, pmemacs, clicks, drags, deletions>>
  /\ changes' \in Nat
  /\ at' # "await" /\ at # "await"
(* A step that changes neither lists, requests nor windows keeps Inv. *)
LEMMA QuietStep == ASSUME Inv, Quietly, EmacsTypes', Stages' PROVE Inv'
<1>1. /\ UNCHANGED <<barOf, win, id, want, place, made, req, answer, events, pipeThread, request, post>>
      /\ UNCHANGED <<table, async, shown, placed, exist, drag, dragged, clicks, drags, deletions>>
      /\ UNCHANGED <<lists, barOf, win>>
  BY DEF Quietly, barVars, pipes, pmemacs, screen, dragging
<1>2. Types'
  BY <1>1 DEF Inv, Types, PipeTypes, ScreenTypes, Quietly
<1>3. Lists' /\ Owned' = Owned
  BY <1>1, SameLists DEF Inv
<1>4. Creating'
  BY <1>1 DEF Inv, Creating, NoCreate, Quietly
<1>5. Fresh' /\ Table' /\ Named'
  BY <1>1, <1>3 DEF Inv, Fresh, Table, Named
<1>6. Destroying' /\ Deleting' /\ Told'
  BY <1>1, <1>3 DEF Inv, Destroying, Destroys, Condemns, Deleting, Told, Quietly
<1>7. Synced'
  BY <1>1, <1>3 DEF Inv, Synced, Follows
<1>8. QED BY <1>2, <1>3, <1>4, <1>5, <1>6, <1>7 DEF Inv

(* DeleteWindow, ShowWindow and the redisplay of one window are such steps. *)
LEMMA WindowSteps ==
  ASSUME Inv, NEW w \in Windows, DeleteWindow(w) \/ ShowWindow(w) \/ RedisplayOne(w)
  PROVE  Inv'
<1>1. EmacsTypes /\ Stages /\ ScreenTypes /\ FrameOf[w] \in Frames
  BY FrameOfAssumption DEF Inv, Types
<1>2. CASE DeleteWindow(w) \/ ShowWindow(w)
  <2>1. Quietly /\ UNCHANGED <<bars, condemned, next, prev, win, id, want, place, made>>
        /\ UNCHANGED <<at, frame, judging, todo, window, barOf>> /\ live' \subseteq Windows
    BY <1>1, <1>2 DEF DeleteWindow, ShowWindow, Change, Quietly, lists, barVars, redisplay, ScreenTypes, EmacsTypes
  <2>2. EmacsTypes'
    BY <1>1, <2>1 DEF EmacsTypes
  <2>3. Stages'
    BY <1>1, <2>1 DEF Stages
  <2>4. QED BY <2>1, <2>2, <2>3, QuietStep
<1>3. CASE RedisplayOne(w)
  <2>1. /\ Quietly /\ UNCHANGED <<bars, condemned, next, prev, win, id, want, place, made, live, barOf>>
        /\ at = "idle" /\ at' = "redisplay" /\ frame' = FrameOf[w] /\ judging' = FALSE /\ todo' = {w}
    BY <1>1, <1>3 DEF RedisplayOne, Change, Quietly, lists, barVars, ScreenTypes
  <2>2. EmacsTypes'
    BY <1>1, <2>1 DEF EmacsTypes
  <2>3. Stages'
    BY <1>1, <2>1 DEF Stages
  <2>4. QED BY <2>1, <2>2, <2>3, QuietStep
<1>4. QED BY <1>2, <1>3

(* The end of the redisplay of one window is such a step. *)
LEMMA RedisplayedStep == ASSUME Inv, RedisplayedOne PROVE Inv'
<1>1. EmacsTypes /\ Stages /\ ScreenTypes
  BY DEF Inv, Types
<1>2. /\ Quietly /\ UNCHANGED <<bars, condemned, next, prev, win, id, want, place, made, live, barOf>>
      /\ at = "redisplay" /\ at' = "idle" /\ ~judging /\ UNCHANGED <<frame, judging, todo>>
  BY <1>1 DEF RedisplayedOne, Quietly, lists, barVars, bounds, ScreenTypes
<1>3. EmacsTypes'
  BY <1>1, <1>2 DEF EmacsTypes
<1>4. Stages'
  BY <1>1, <1>2 DEF Stages
<1>5. QED BY <1>2, <1>3, <1>4, QuietStep

(* PM_condemn_scroll_bars finds no condemned bars: those of the last         *)
(* redisplay were judged.                                                    *)
LEMMA CondemnStep == ASSUME Inv, NEW f \in Frames, Condemn(f) PROVE Inv' /\ at' # "aborted"
<1>1. EmacsTypes /\ Stages /\ ScreenTypes /\ Lists /\ at = "idle"
  BY DEF Inv, Types, Condemn
<1>2. condemned[f] = Nil /\ \A g \in Frames : condemned[g] = Nil
  BY <1>1 DEF Stages
<1>3. /\ at' = "redisplay" /\ frame' = f /\ judging' = TRUE
      /\ condemned' = [condemned EXCEPT ![f] = bars[f]] /\ bars' = [bars EXCEPT ![f] = Nil]
      /\ todo' \in {{}, {w \in live : FrameOf[w] = f}} /\ changes' = changes + 1
      /\ UNCHANGED <<live, barOf, next, prev, win, id, want, place, made, window>>
  BY <1>2 DEF Condemn, Change, barVars
<1>4. /\ UNCHANGED <<req, answer, events, pipeThread, request, post, drag, dragged>>
      /\ UNCHANGED <<table, async, shown, placed, exist, clicks, drags, deletions>>
  BY DEF Condemn, pipes, pmemacs, screen, dragging
<1>5. EmacsTypes'
  BY <1>1, <1>3 DEF EmacsTypes, Links
<1>6. Types'
  <2>1. PipeTypes'
    BY <1>4 DEF Inv, Types, PipeTypes
  <2>2. changes' \in Nat
    BY <1>1, <1>3 DEF ScreenTypes
  <2>3. ScreenTypes'
    BY <1>1, <1>4, <2>2 DEF ScreenTypes
  <2>4. QED BY <1>5, <2>1, <2>3 DEF Types
<1>7. Stages'
  BY <1>1, <1>2, <1>3 DEF Stages, EmacsTypes
<1>8. Owned' = Owned /\ Owners' /\ \A g \in Frames : OwnedIn(g)' = OwnedIn(g)
  BY <1>1, <1>3 DEF Owned, OwnedIn, Owners, Lists
<1>9. Lists'
  <2>1. PICK L \in SUBSET Bars, D \in SUBSET Bars : Split(f, L, D)
    BY <1>1 DEF Lists
  <2>2. D = {} /\ L = OwnedIn(f)
    BY <2>1, <1>2, SplitSound
  <2>3. Linear({}, Nil, next, prev)
    BY <1>1, NoList DEF EmacsTypes
  <2>4. bars'[f] = Nil /\ condemned'[f] = bars[f]
        /\ \A g \in Frames \ {f} : bars'[g] = bars[g] /\ condemned'[g] = condemned[g]
    BY <1>1, <1>3 DEF EmacsTypes
  <2>5. Split(f, {}, L)'
    BY <2>1, <2>2, <2>3, <2>4, <1>3, <1>8 DEF Split
  <2>6. {} \in SUBSET Bars
    OBVIOUS
  <2>7. next' \in [Bars -> Links] /\ prev' \in [Bars -> Links]
    BY <1>5 DEF EmacsTypes
  <2>8. QED BY <1>1, <1>3, <1>8, <2>4, <2>5, <2>6, <2>7, Relinked
<1>10. Creating'
  BY <1>1, <1>3, <1>4 DEF Inv, Creating, NoCreate
<1>11. Fresh' /\ Table' /\ Named'
  BY <1>3, <1>4, <1>8 DEF Inv, Fresh, Table, Named
<1>12. Destroying' /\ Deleting' /\ Told'
  BY <1>3, <1>4, <1>8 DEF Inv, Destroying, Destroys, Condemns, Deleting, Told
<1>13. Synced'
  BY <1>3, <1>4, <1>8 DEF Inv, Synced, Follows
<1>14. QED BY <1>3, <1>6, <1>7, <1>9, <1>10, <1>11, <1>12, <1>13 DEF Inv

(* What Emacs sends comes behind what is on its way; redisplay deletes no     *)
(* frames.                                                                   *)
Extended(s, t) ==
  /\ Len(s) \in Nat /\ Len(t) \in Nat /\ Len(s) <= Len(t) /\ \A k \in 1 .. Len(s) : t[k] = s[k]
  /\ \A k \in 1 .. Len(t) : k \notin 1 .. Len(s) => t[k].op # "delete"

(* PM_judge_scroll_bars: the bars still condemned lose their windows, and    *)
(* the destruction of each is asked for once.                                *)
Doom(s, f) == [k \in DOMAIN s |-> [op |-> "destroy", id |-> id[s[k]], frame |-> f]]
(* The requests it sends are about bars that no window has any more. *)
LEMMA JudgeStep ==
  ASSUME Inv, Judge
  PROVE  /\ Inv' /\ Extended(req, req')
         /\ \A i \in Ids : table[i] \in Owned => table[i] \in Owned' \/ \E k \in 1 .. Len(req') : Destroys(req', k, i)
<1>0. PICK fr : fr = frame
  OBVIOUS
<1> DEFINE doomed == Chain(condemned[fr])
<1>1. EmacsTypes /\ Stages /\ ScreenTypes /\ PipeTypes /\ Lists /\ at = "redisplay" /\ fr \in Frames
  BY <1>0 DEF Inv, Types, Judge, Stages
<1>2. PICK L \in SUBSET Bars, D \in SUBSET Bars : Split(fr, L, D)
  BY <1>1 DEF Lists
<1>3. /\ Elements(doomed) = D /\ L \cap D = {} /\ L \cup D = OwnedIn(fr)
      /\ \A i, j \in DOMAIN doomed : i # j => doomed[i] # doomed[j]
      /\ Linear(L, bars[fr], next, prev) /\ Linear(D, condemned[fr], next, prev)
  <2>1. doomed \in {Chain(bars[fr]), Chain(condemned[fr])}
    OBVIOUS
  <2>2. /\ Elements(doomed) = D
        /\ \A c \in {Chain(bars[fr]), Chain(condemned[fr])} : \A i, j \in DOMAIN c : i # j => c[i] # c[j]
    BY <1>2, SplitSound
  <2>3. QED BY <1>2, <2>1, <2>2 DEF Split
<1>4. PICK n \in Nat : DOMAIN doomed = 1 .. n
  BY <1>3, ChainOf
<1>5. /\ at' = "idle" /\ condemned' = [condemned EXCEPT ![fr] = Nil] /\ bars' = bars
      /\ req' = req \o Doom(doomed, fr)
      /\ barOf' = [w \in Windows |-> IF \E b \in D : win[b] = w THEN Nil ELSE barOf[w]]
      /\ next' = [b \in Bars |-> IF b \in D THEN Nil ELSE next[b]]
      /\ prev' = [b \in Bars |-> IF b \in D THEN Nil ELSE prev[b]]
      /\ UNCHANGED <<live, win, id, want, place, made, frame, judging, todo, window>>
  BY <1>0, <1>3 DEF Judge, barVars, Doom
<1>6. /\ UNCHANGED <<answer, events, pipeThread, request, post, drag, dragged>>
      /\ UNCHANGED <<table, async, shown, placed, exist, changes, clicks, drags, deletions>>
  BY DEF Judge, pmemacs, screen, dragging, bounds
<1>7. /\ \A b \in Bars : win[b] \in Windows \cup {Nil}
      /\ \A b \in D : b \in Owned /\ b \in Bars /\ id[b] \in Ids /\ table[id[b]] = b
      /\ \A k \in 1 .. n : doomed[k] \in D
  BY <1>1, <1>3, <1>4, OwnedInFrames DEF Inv, Named, EmacsTypes, Elements
<1> HIDE DEF doomed
<1>8. /\ Doom(doomed, fr) \in Seq(Requests) /\ Len(Doom(doomed, fr)) = n
      /\ \A k \in 1 .. n : Doom(doomed, fr)[k] = [op |-> "destroy", id |-> id[doomed[k]], frame |-> fr]
  <2>1. \A k \in 1 .. n : [op |-> "destroy", id |-> id[doomed[k]], frame |-> fr] \in Requests
    BY <1>1, <1>7 DEF Requests
  <2>2. Doom(doomed, fr) = [k \in 1 .. n |-> [op |-> "destroy", id |-> id[doomed[k]], frame |-> fr]]
    BY <1>4 DEF Doom
  <2>3. QED BY <2>1, <2>2
<1>9. EmacsTypes'
  BY <1>1, <1>5 DEF EmacsTypes, Links
<1>10. Types'
  <2>1. req' \in Seq(Requests)
    BY <1>1, <1>5, <1>8 DEF PipeTypes
  <2>2. QED BY <1>1, <1>6, <1>9, <2>1 DEF Types, PipeTypes, ScreenTypes
<1>11. Stages'
  BY <1>1, <1>0, <1>5 DEF Stages, EmacsTypes
<1>12. /\ Owners' /\ OwnedIn(fr)' = L /\ Owned' \subseteq Owned /\ Owned' \cap D = {} /\ Owned \ D \subseteq Owned'
       /\ \A f \in Frames \ {fr} : OwnedIn(f)' = OwnedIn(f)
  <2>1. /\ \A w \in Windows : barOf[w] # Nil => win[barOf[w]] = w /\ barOf[w] \in Bars
        /\ \A w \in Windows : barOf[w] # Nil => barOf[w] \in OwnedIn(FrameOf[w])
        /\ \A b \in D : win[b] \in Windows /\ FrameOf[win[b]] = fr /\ barOf[win[b]] = b
    BY <1>1, <1>3, OwnedInFrames DEF Lists, Owners, EmacsTypes, Links
  <2>2. \A w \in Windows : IF barOf[w] \in D THEN barOf'[w] = Nil ELSE barOf'[w] = barOf[w]
    BY <1>5, <2>1
  <2>3. Owners'
    BY <1>5, <2>1, <2>2 DEF Owners
  <2>4. Owned' \subseteq Owned /\ Owned' \cap D = {}
    BY <2>2, <1>3 DEF Owned, Nil, Bars
  <2>5. OwnedIn(fr)' = L
    <3>1. \A b \in L : b \in OwnedIn(fr) /\ b \notin D
      BY <1>3
    <3>2. QED BY <2>2, <3>1, <1>3 DEF OwnedIn
  <2>6. ASSUME NEW f \in Frames \ {fr} PROVE OwnedIn(f)' = OwnedIn(f)
    <3>1. \A w \in Windows : FrameOf[w] = f => barOf'[w] = barOf[w]
      BY <2>1, <2>2
    <3>2. QED BY <3>1 DEF OwnedIn
  <2>7. Owned \ D \subseteq Owned'
    BY <2>2 DEF Owned
  <2>8. QED BY <2>3, <2>4, <2>5, <2>6, <2>7
<1>13. Lists'
  <2>1. next' \in [Bars -> Links] /\ prev' \in [Bars -> Links]
    BY <1>9 DEF EmacsTypes
  <2>2. \A b \in Bars \ D : next'[b] = next[b] /\ prev'[b] = prev[b]
    BY <1>5
  <2>3. Linear(L, bars[fr], next', prev')
    BY <1>3, <2>1, <2>2, Elsewhere
  <2>4. Linear({}, Nil, next', prev')
    BY <2>1, NoList
  <2>5. bars'[fr] = bars[fr] /\ condemned'[fr] = Nil
        /\ \A f \in Frames \ {fr} : bars'[f] = bars[f] /\ condemned'[f] = condemned[f]
    BY <1>1, <1>5 DEF EmacsTypes
  <2>6. Split(fr, L, {})'
    BY <1>12, <2>3, <2>4, <2>5 DEF Split
  <2>7. \A f \in Frames \ {fr} : \A b \in OwnedIn(f) : next'[b] = next[b] /\ prev'[b] = prev[b]
    <3>1. \A f \in Frames \ {fr} : OwnedIn(f) \cap OwnedIn(fr) = {} /\ OwnedIn(f) \subseteq Bars
      BY <1>1, Apart, OwnedInFrames DEF Lists
    <3>2. QED BY <3>1, <2>2, <1>3
  <2>8. {} \in SUBSET Bars
    OBVIOUS
  <2>9. QED BY <1>1, <1>12, <2>1, <2>5, <2>6, <2>7, <2>8, Relinked
<1>14. /\ Len(req) \in Nat /\ Len(req') = Len(req) + n
       /\ \A k \in 1 .. Len(req) : req'[k] = req[k]
       /\ \A k \in 1 .. Len(req') : k \notin 1 .. Len(req) =>
            /\ k - Len(req) \in 1 .. n
            /\ req'[k] = [op |-> "destroy", id |-> id[doomed[k - Len(req)]], frame |-> fr]
  <2>1. PICK t \in Seq(Requests) : t = Doom(doomed, fr)
    BY <1>8
  <2>2. /\ req \in Seq(Requests) /\ Len(t) = n /\ req' = req \o t
        /\ \A k \in 1 .. n : t[k] = [op |-> "destroy", id |-> id[doomed[k]], frame |-> fr]
    BY <2>1, <1>1, <1>5, <1>8 DEF PipeTypes
  <2>3. /\ Len(req) \in Nat /\ Len(t) \in Nat /\ Len(req') = Len(req) + Len(t)
        /\ \A k \in 1 .. Len(req) : req'[k] = req[k]
        /\ \A k \in 1 .. Len(req') : k \notin 1 .. Len(req) =>
             k - Len(req) \in 1 .. Len(t) /\ req'[k] = t[k - Len(req)]
    BY <2>1, <2>2, ConcatOf
  <2>4. QED BY <2>2, <2>3, Zenon
<1>15. Creating'
  <2>1. NoCreate(req, Len(req)) /\ answer = <<>> /\ NoCreate(post, Len(post)) /\ pipeThread # "waiting"
    BY <1>1 DEF Inv, Creating
  <2>2. NoCreate(req', Len(req'))
    BY <2>1, <1>14 DEF NoCreate
  <2>3. QED BY <2>1, <2>2, <1>5, <1>6 DEF Creating
<1>16. Fresh' /\ Table' /\ Named' /\ Told'
  BY <1>5, <1>6, <1>12 DEF Inv, Fresh, Table, Named, Told
<1>17. Destroying'
  <2>1. \A i \in Ids : Condemns(i) => Condemns(i)'
    BY <1>5, <1>6, <1>12 DEF Condemns
  <2>2. ASSUME NEW k \in 1 .. Len(req'), k \notin 1 .. Len(req), NEW i \in Ids, Destroys(req', k, i)
        PROVE  /\ Condemns(i)' /\ table[i] \in Owned
               /\ \A m \in 1 .. Len(req') : m \notin 1 .. Len(req) /\ Destroys(req', m, i) => m = k
    <3>1. k - Len(req) \in 1 .. n /\ i = id[doomed[k - Len(req)]]
      BY <2>2, <1>14 DEF Destroys
    <3>2. doomed[k - Len(req)] \in D /\ table[i] = doomed[k - Len(req)]
      BY <3>1, <1>7
    <3>3. table[i] \in D /\ table[i] \in Owned /\ table[i] # Nil
      BY <3>2, <1>7, NilIsNoBar
    <3>4. Condemns(i)'
      BY <3>3, <1>5, <1>6, <1>12 DEF Condemns
    <3>5. ASSUME NEW m \in 1 .. Len(req'), m \notin 1 .. Len(req), Destroys(req', m, i) PROVE m = k
      <4>1. m - Len(req) \in 1 .. n /\ i = id[doomed[m - Len(req)]]
        BY <3>5, <1>14 DEF Destroys
      <4>2. doomed[m - Len(req)] = doomed[k - Len(req)]
        BY <4>1, <3>2, <1>7
      <4>3. m - Len(req) = k - Len(req)
        BY <4>1, <4>2, <3>1, <1>3, <1>4 DEF doomed
      <4>4. QED BY <4>3, <1>14
    <3>6. QED BY <3>3, <3>4, <3>5
  <2>3. \A i \in Ids : table[i] \in Owned => /\ \A k \in 1 .. Len(req) : ~Destroys(req, k, i)
                                             /\ \A k \in 1 .. Len(post) : ~Destroys(post, k, i)
    BY DEF Inv, Destroying, Condemns
  <2>4. \A i \in Ids : \A k \in 1 .. Len(req) : Destroys(req', k, i) <=> Destroys(req, k, i)
    BY <1>14 DEF Destroys
  <2>5. ASSUME NEW i \in Ids, NEW k \in 1 .. Len(req'), Destroys(req', k, i)
        PROVE  /\ Condemns(i)' /\ \A m \in 1 .. Len(req') : Destroys(req', m, i) => m = k
               /\ \A m \in 1 .. Len(post) : ~Destroys(post, m, i)
    <3>1. CASE k \in 1 .. Len(req)
      <4>1. /\ Condemns(i) /\ table[i] \notin Owned
            /\ \A m \in 1 .. Len(req) : Destroys(req, m, i) => m = k
            /\ \A m \in 1 .. Len(post) : ~Destroys(post, m, i)
        BY <2>4, <2>5, <3>1 DEF Inv, Destroying, Condemns
      <4>2. \A m \in 1 .. Len(req') : Destroys(req', m, i) => m \in 1 .. Len(req)
        BY <4>1, <2>2
      <4>3. QED BY <4>1, <4>2, <2>1, <2>4
    <3>2. CASE k \notin 1 .. Len(req)
      <4>1. table[i] \in Owned
        BY <2>2, <2>5, <3>2
      <4>2. \A m \in 1 .. Len(req') : Destroys(req', m, i) => m \notin 1 .. Len(req)
        BY <4>1, <2>3, <2>4
      <4>3. QED BY <4>1, <4>2, <2>2, <2>3, <2>5, <3>2
    <3>3. QED BY <3>1, <3>2
  <2>6. \A i \in Ids : \A k \in 1 .. Len(post) : Destroys(post, k, i) =>
          Condemns(i)' /\ \A m \in 1 .. Len(post) : Destroys(post, m, i) => m = k
    BY <2>1 DEF Inv, Destroying
  <2>7. QED BY <2>5, <2>6, <1>6 DEF Destroying
<1>18. Deleting'
  <2>1. \A k \in 1 .. Len(req') : req'[k].op = "delete" => k \in 1 .. Len(req) /\ req'[k] = req[k]
    BY <1>14
  <2>2. QED BY <2>1, <1>5, <1>12 DEF Inv, Deleting
<1>19. Synced'
  <2> SUFFICES ASSUME drags = 0 PROVE Synced'
    BY <1>6 DEF Synced
  <2>1. ASSUME NEW op \in {"update", "move"}, NEW i, NEW v, NEW now, Follows(op, i, v, now)
        PROVE  FollowsIn(req', pipeThread', request', op, i, v, now)
    <3>1. \A k \in 1 .. Len(Doom(doomed, fr)) : ~About(Doom(doomed, fr)[k], op, i)
      BY <1>8 DEF About
    <3>2. /\ Asked(req, op, i, v) => Asked(req', op, i, v)
          /\ Unasked(req, 1, op, i) => Unasked(req', 1, op, i)
      BY <3>1, <1>1, <1>5, <1>8, AddedOthers DEF PipeTypes
    <3>3. QED BY <2>1, <3>2, <1>6 DEF Follows, FollowsIn
  <2>2. \A b \in Owned' : /\ Follows("update", id[b], want[b], shown[b])
                          /\ Follows("move", id[b], place[b], placed[b])
    BY <1>12 DEF Inv, Synced
  <2>3. ~drag' /\ pipeThread' # "defer"
    BY <1>6 DEF Inv, Synced
  <2>4. \A b \in Owned' : /\ Follows("update", id[b], want[b], shown[b])'
                          /\ Follows("move", id[b], place[b], placed[b])'
    BY <2>1, <2>2, <1>5, <1>6 DEF Follows
  <2>5. QED BY <2>3, <2>4 DEF Synced
<1>20. Inv'
  BY <1>10, <1>11, <1>13, <1>15, <1>16, <1>17, <1>18, <1>19 DEF Inv
<1>21. Extended(req, req')
  <2>1. \A k \in 1 .. Len(req') : k \notin 1 .. Len(req) => req'[k].op # "delete"
    BY <1>14
  <2>2. QED BY <2>1, <1>14 DEF Extended
<1>22. ASSUME NEW i \in Ids, table[i] \in Owned, table[i] \notin Owned'
       PROVE  \E k \in 1 .. Len(req') : Destroys(req', k, i)
  <2>1. table[i] \in D
    BY <1>12, <1>22
  <2>2. PICK k \in 1 .. n : doomed[k] = table[i]
    BY <2>1, <1>3, <1>4 DEF Elements
  <2>3. id[doomed[k]] = i
    BY <2>1, <2>2, <1>7, NilIsNoBar DEF Inv, Table
  <2>4. Len(req) + k \in 1 .. Len(req') /\ Len(req) + k \notin 1 .. Len(req) /\ (Len(req) + k) - Len(req) = k
    BY <1>14
  <2>5. Destroys(req', Len(req) + k, i)
    BY <2>3, <2>4, <1>14 DEF Destroys
  <2>6. QED BY <2>4, <2>5
<1>23. QED BY <1>20, <1>21, <1>22

(* What is asked of a bar is not disturbed by a request about another.       *)
LEMMA FollowsOther ==
  ASSUME NEW s \in Seq(Requests), NEW r \in Requests, NEW thread, NEW q, NEW op, NEW i, NEW v, NEW now,
         ~About(r, op, i), FollowsIn(s, thread, q, op, i, v, now)
  PROVE  FollowsIn(Append(s, r), thread, q, op, i, v, now)
  BY AddedOther DEF FollowsIn

(* A frame is deleted: its windows have no bars any more. *)
LEMMA DeleteFrameStep == ASSUME Inv, NEW f \in Frames, DeleteFrame(f) PROVE Inv'
<1> DEFINE gone == {b \in Bars : win'[b] # win[b]}
           r == [op |-> "delete", frame |-> f, bars |-> gone]
<1>1. EmacsTypes /\ Stages /\ ScreenTypes /\ PipeTypes /\ Lists /\ at = "idle" /\ Fresh
  BY DEF Inv, Types, DeleteFrame
<1>2. /\ bars' = [bars EXCEPT ![f] = Nil] /\ condemned' = [condemned EXCEPT ![f] = Nil]
      /\ barOf' = [w \in Windows |-> IF FrameOf[w] = f THEN Nil ELSE barOf[w]]
      /\ win' = [b \in Bars |-> IF win[b] \in Windows /\ FrameOf[win[b]] = f THEN Nil ELSE win[b]]
      /\ events' = Kept(events, {e \in Elements(events) : e.frame # f})
      /\ req' = Append(req, r) /\ deletions' = deletions + 1
  BY DEF DeleteFrame
<1>3. /\ UNCHANGED <<live, next, prev, id, want, place, made, at, frame, judging, todo, window>>
      /\ UNCHANGED <<answer, pipeThread, request, post, drag, dragged>>
      /\ UNCHANGED <<table, async, shown, placed, exist, changes, clicks, drags>>
  BY DEF DeleteFrame, redisplay, pmemacs, screen, dragging
<1>4. r \in Requests
  BY DEF Requests
<1> HIDE DEF r
<1>5. /\ Len(req) \in Nat /\ Len(req') = Len(req) + 1 /\ req' \in Seq(Requests) /\ req'[Len(req) + 1] = r
      /\ \A k \in 1 .. Len(req) : req'[k] = req[k]
      /\ \A k \in 1 .. Len(req') : k \in 1 .. Len(req) \/ k = Len(req) + 1
  BY <1>1, <1>2, <1>4, AppendOf DEF PipeTypes
<1>6. r.op = "delete" /\ r.bars = gone
  BY DEF r
<1>7. events' \in Seq(Events) /\ Embedded(events', events, Len(events), {e \in Elements(events) : e.frame # f})
  BY <1>1, <1>2, KeptIn DEF PipeTypes
<1>8. EmacsTypes'
  <2>1. win' \in [Bars -> Windows \cup {Nil}] /\ barOf' \in [Windows -> Links]
    BY <1>1, <1>2 DEF EmacsTypes, Links
  <2>2. bars' \in [Frames -> Links] /\ condemned' \in [Frames -> Links]
    BY <1>1, <1>2 DEF EmacsTypes, Links
  <2>3. QED BY <1>1, <1>3, <2>1, <2>2 DEF EmacsTypes
<1>9. Types'
  <2>1. PipeTypes'
    BY <1>1, <1>3, <1>5, <1>7 DEF PipeTypes
  <2>2. deletions' \in Nat
    BY <1>1, <1>2 DEF ScreenTypes
  <2>3. ScreenTypes'
    BY <1>1, <1>3, <2>2 DEF ScreenTypes
  <2>4. QED BY <1>8, <2>1, <2>3 DEF Types
<1>10. Stages'
  BY <1>1, <1>2, <1>3 DEF Stages, EmacsTypes
<1>11. /\ Owners' /\ OwnedIn(f)' = {} /\ Owned' \subseteq Owned /\ Owned' \cap gone = {}
       /\ \A g \in Frames \ {f} : OwnedIn(g)' = OwnedIn(g)
  <2>1. /\ \A w \in Windows : barOf[w] # Nil => win[barOf[w]] = w /\ barOf[w] \in Bars /\ FrameOf[w] \in Frames
        /\ \A w \in Windows : barOf'[w] # Nil => FrameOf[w] # f /\ barOf'[w] = barOf[w]
    BY <1>1, <1>2, FrameOfAssumption DEF Lists, Owners, EmacsTypes, Links
  <2>2. \A w \in Windows : barOf'[w] # Nil => win'[barOf'[w]] = w /\ win'[barOf'[w]] = win[barOf'[w]]
    BY <1>2, <2>1
  <2>3. Owners'
    BY <2>2 DEF Owners
  <2>4. OwnedIn(f)' = {}
    BY <2>1 DEF OwnedIn
  <2>5. Owned' \subseteq Owned /\ Owned' \cap gone = {}
    BY <2>1, <2>2 DEF Owned
  <2>6. ASSUME NEW g \in Frames \ {f} PROVE OwnedIn(g)' = OwnedIn(g)
    <3>1. \A w \in Windows : FrameOf[w] = g => barOf'[w] = barOf[w]
      BY <1>2
    <3>2. QED BY <3>1 DEF OwnedIn
  <2>7. QED BY <2>3, <2>4, <2>5, <2>6
<1>12. \A b \in gone : b <= made /\ b \in Bars
  <2>1. \A b \in gone : win[b] \in Windows
    BY <1>2
  <2>2. \A b \in Bars : b > made => win[b] \notin Windows
    BY <1>1, FrameOfAssumption DEF Fresh, Nil
  <2>3. made \in Nat /\ Bars \subseteq Nat
    BY <1>1, BoundAssumption DEF EmacsTypes, Bars
  <2>4. QED BY <2>1, <2>2, <2>3
<1> HIDE DEF gone
<1>13. Lists'
  <2>1. next' \in [Bars -> Links] /\ prev' \in [Bars -> Links]
    BY <1>8 DEF EmacsTypes
  <2>2. Linear({}, Nil, next', prev')
    BY <2>1, NoList
  <2>3. bars'[f] = Nil /\ condemned'[f] = Nil
        /\ \A g \in Frames \ {f} : bars'[g] = bars[g] /\ condemned'[g] = condemned[g]
    BY <1>1, <1>2 DEF EmacsTypes
  <2>4. Split(f, {}, {})'
    BY <1>11, <2>2, <2>3 DEF Split
  <2>5. {} \in SUBSET Bars
    OBVIOUS
  <2>6. QED BY <1>1, <1>3, <1>11, <2>1, <2>3, <2>4, <2>5, Relinked
<1>14. Creating'
  <2>1. NoCreate(req, Len(req)) /\ answer = <<>> /\ NoCreate(post, Len(post)) /\ pipeThread # "waiting"
    BY <1>1 DEF Inv, Creating
  <2>2. NoCreate(req', Len(req'))
    BY <2>1, <1>5, <1>6 DEF NoCreate
  <2>3. QED BY <2>1, <2>2, <1>1, <1>3 DEF Creating
<1>15. Fresh'
  BY <1>1, <1>2, <1>3 DEF Fresh
<1>16. Table'
  <2>1. \A b \in Bars : win'[b] \in Windows => win[b] \in Windows
    BY <1>2, FrameOfAssumption DEF Nil
  <2>2. \A i \in Ids : table[i] # Nil => table[i] \in Bars
    BY <1>1 DEF ScreenTypes, Links
  <2>3. QED BY <2>1, <2>2, <1>3 DEF Inv, Table
<1>17. Named'
  BY <1>3, <1>11 DEF Inv, Named
<1>18. Destroying'
  <2>1. \A i \in Ids : Condemns(i) => Condemns(i)'
    BY <1>3, <1>11 DEF Condemns
  <2>2. \A i \in Ids : \A k \in 1 .. Len(req') : Destroys(req', k, i) => k \in 1 .. Len(req) /\ Destroys(req, k, i)
    BY <1>5, <1>6 DEF Destroys
  <2>3. QED BY <2>1, <2>2, <1>3 DEF Inv, Destroying
<1>19. Deleting'
  BY <1>1, <1>3, <1>5, <1>6, <1>11, <1>12 DEF Inv, Deleting
<1>20. Told'
  BY <1>3, <1>7 DEF Inv, Told, Embedded
<1>21. Synced'
  <2> SUFFICES ASSUME drags = 0 PROVE Synced'
    BY <1>3 DEF Synced
  <2>1. \A op \in {"update", "move"} : \A i : ~About(r, op, i)
    BY <1>6 DEF About
  <2>2. \A b \in Owned' : /\ FollowsIn(req, pipeThread, request, "update", id[b], want[b], shown[b])
                          /\ FollowsIn(req, pipeThread, request, "move", id[b], place[b], placed[b])
    BY <1>11 DEF Inv, Synced, Follows
  <2>3. \A b \in Owned' : /\ FollowsIn(req', pipeThread, request, "update", id[b], want[b], shown[b])
                          /\ FollowsIn(req', pipeThread, request, "move", id[b], place[b], placed[b])
    BY <1>1, <1>2, <1>4, <2>1, <2>2, FollowsOther DEF PipeTypes
  <2>4. ~drag /\ pipeThread # "defer"
    BY DEF Inv, Synced
  <2>5. QED BY <2>3, <2>4, <1>3 DEF Synced, Follows
<1>22. QED BY <1>9, <1>10, <1>13, <1>14, <1>15, <1>16, <1>17, <1>18, <1>19, <1>20, <1>21 DEF Inv

(* PM_read_socket takes an event. *)
LEMMA HandleStep == ASSUME Inv, HandleEvent PROVE Inv'
<1>1. /\ events \in Seq(Events) /\ events # <<>> /\ events' = Tail(events)
      /\ UNCHANGED <<live, barOf, bars, condemned, next, prev, win, id, want, place, made>>
      /\ UNCHANGED <<at, frame, judging, todo, window, lists, req, answer, pipeThread, request, post>>
      /\ UNCHANGED <<table, async, shown, placed, exist, drag, dragged, changes, clicks, drags, deletions>>
  BY DEF HandleEvent, Inv, Types, PipeTypes, lists, barVars, redisplay, pmemacs, screen, dragging, bounds
<1>2. /\ Tail(events) \in Seq(Events)
      /\ \A k \in 1 .. Len(Tail(events)) : k + 1 \in 1 .. Len(events) /\ Tail(events)[k] = events[k + 1]
  BY <1>1, TailOf
<1>3. EmacsTypes'
  BY <1>1 DEF Inv, Types, EmacsTypes
<1>4. Types'
  BY <1>1, <1>2, <1>3 DEF Inv, Types, PipeTypes, ScreenTypes
<1>5. Lists' /\ Owned' = Owned
  BY <1>1, SameLists DEF Inv
<1>6. Stages' /\ Creating' /\ Fresh'
  BY <1>1 DEF Inv, Stages, Creating, NoCreate, Asks, Unborn, Born, Fresh
<1>7. Table' /\ Named' /\ Deleting'
  BY <1>1, <1>5 DEF Inv, Table, Named, Deleting
<1>8. Destroying'
  BY <1>1, <1>5 DEF Inv, Destroying, Destroys, Condemns
<1>9. Told'
  BY <1>1, <1>2 DEF Inv, Told
<1>10. Synced'
  BY <1>1, <1>5 DEF Inv, Synced, Follows
<1>11. QED BY <1>4, <1>5, <1>6, <1>7, <1>8, <1>9, <1>10 DEF Inv

(* pm_scroll_bar_create asks for a bar with a number of its own. *)
LEMMA CreateStep ==
  ASSUME Inv, NEW w \in Windows, NEW v \in Values, NEW p \in Places, CreateBar(w, v, p) PROVE Inv'
<1> DEFINE r == [op |-> "create", bar |-> made + 1, to |-> v, at |-> p]
<1>1. /\ EmacsTypes /\ Stages /\ ScreenTypes /\ PipeTypes /\ Lists /\ Fresh /\ at = "redisplay"
      /\ made \in Nat /\ made < MaxBars /\ w \in todo /\ barOf[w] = Nil
  BY BoundAssumption DEF Inv, Types, CreateBar, EmacsTypes
<1>2. /\ made' = made + 1 /\ want' = [want EXCEPT ![made + 1] = v] /\ place' = [place EXCEPT ![made + 1] = p]
      /\ req' = Append(req, r) /\ at' = "await" /\ window' = w
  BY DEF CreateBar
<1>3. /\ UNCHANGED <<live, barOf, bars, condemned, next, prev, win, id, frame, judging, todo, lists>>
      /\ UNCHANGED <<answer, events, pipeThread, request, post, drag, dragged>>
      /\ UNCHANGED <<table, async, shown, placed, exist, changes, clicks, drags, deletions>>
  BY DEF CreateBar, lists, pmemacs, screen, dragging, bounds
<1>4. made + 1 \in Bars /\ made + 1 # Nil
  BY <1>1, BoundAssumption DEF Bars, Nil
<1>5. r \in Requests
  BY <1>4 DEF Requests
<1>6. r.op = "create" /\ want'[made'] = v /\ place'[made'] = p
  BY <1>1, <1>2, <1>4 DEF EmacsTypes
<1>7. r = [op |-> "create", bar |-> made', to |-> want'[made'], at |-> place'[made']]
  BY <1>2, <1>6
<1> HIDE DEF r
<1>8. /\ Len(req) \in Nat /\ Len(req') = Len(req) + 1 /\ req' \in Seq(Requests) /\ req'[Len(req) + 1] = r
      /\ \A k \in 1 .. Len(req) : req'[k] = req[k]
      /\ \A k \in 1 .. Len(req') : k \in 1 .. Len(req) \/ k = Len(req) + 1
  BY <1>1, <1>2, <1>5, AppendOf DEF PipeTypes
<1>9. EmacsTypes'
  <2>1. want' \in [Bars -> Values \cup {NoValue}] /\ place' \in [Bars -> Places \cup {NoPlace}]
    BY <1>1, <1>2 DEF EmacsTypes
  <2>2. made' \in 0 .. MaxBars
    BY <1>1, <1>2, BoundAssumption
  <2>3. QED BY <1>1, <1>2, <1>3, <2>1, <2>2 DEF EmacsTypes
<1>10. Types'
  BY <1>1, <1>3, <1>8, <1>9 DEF Types, PipeTypes, ScreenTypes
<1>11. win[made'] = Nil /\ id[made'] = NoId /\ made' \notin Owned
  <2>1. win[made + 1] = Nil /\ id[made + 1] = NoId
    BY <1>1, <1>4 DEF Fresh
  <2>2. \A b \in Owned : win[b] \in Windows
    BY <1>1, OwnedInFrames
  <2>3. QED BY <2>1, <2>2, <1>2, FrameOfAssumption DEF Nil
<1>12. Stages'
  BY <1>1, <1>2, <1>3, <1>4, <1>11 DEF Stages
<1>13. Lists' /\ Owned' = Owned
  BY <1>1, <1>3, SameLists
<1>14. Creating'
  <2>1. NoCreate(req, Len(req)) /\ answer = <<>> /\ NoCreate(post, Len(post)) /\ pipeThread # "waiting"
    BY <1>1 DEF Inv, Creating
  <2>2. NoCreate(req', Len(req') - 1) /\ req' # <<>> /\ req'[Len(req')] = r
    BY <2>1, <1>8 DEF NoCreate
  <2>3. Asks(req)'
    BY <2>2, <1>7 DEF Asks
  <2>4. Unborn'
    <3>1. \A i \in Ids : table[i] # Nil => table[i] <= made
      BY DEF Inv, Table
    <3>2. \A i \in Ids : table[i] \in Links
      BY <1>1 DEF ScreenTypes
    <3>3. \A i \in Ids : table[i] # made + 1
      BY <3>1, <3>2, <1>1, <1>4
    <3>4. QED BY <3>3, <1>2, <1>3 DEF Unborn
  <2>5. QED BY <2>1, <2>3, <2>4, <1>2, <1>3 DEF Creating, NoCreate
<1>15. Fresh'
  BY <1>1, <1>2, <1>3, BoundAssumption DEF Fresh, Bars
<1>16. Table'
  <2>1. \A i \in Ids : table[i] # Nil => table[i] \in Nat
    BY <1>1, BoundAssumption DEF ScreenTypes, Links, Bars
  <2>2. QED BY <2>1, <1>1, <1>2, <1>3 DEF Inv, Table
<1>17. Named' /\ Told'
  BY <1>3, <1>13 DEF Inv, Named, Told
<1>18. Destroying'
  <2>1. \A i \in Ids : Condemns(i) => Condemns(i)'
    <3>1. \A i \in Ids : table[i] # Nil => table[i] <= made /\ table[i] \in Nat
      BY <1>1, BoundAssumption DEF Inv, Table, ScreenTypes, Links, Bars
    <3>2. \A i \in Ids : table[i] # Nil => table[i] # made'
      BY <3>1, <1>1, <1>2
    <3>3. QED BY <3>2, <1>3, <1>13 DEF Condemns
  <2>2. \A i \in Ids : \A k \in 1 .. Len(req') : Destroys(req', k, i) => k \in 1 .. Len(req) /\ Destroys(req, k, i)
    BY <1>6, <1>8 DEF Destroys
  <2>3. QED BY <2>1, <2>2, <1>3 DEF Inv, Destroying
<1>19. Deleting'
  <2>1. ASSUME NEW k \in 1 .. Len(req'), req'[k].op = "delete", NEW b \in req'[k].bars
        PROVE  b <= made' /\ b \notin Owned' /\ b # made'
    <3>1. k \in 1 .. Len(req) /\ req'[k] = req[k] /\ req[k] \in Requests
      BY <2>1, <1>1, <1>6, <1>8 DEF PipeTypes
    <3>2. b \in Bars
      BY <3>1, <2>1, RequestFields
    <3>3. b <= made /\ b \notin Owned
      BY <3>1, <2>1 DEF Inv, Deleting
    <3>4. QED BY <3>2, <3>3, <1>1, <1>2, <1>13, BoundAssumption DEF Bars
  <2>2. QED BY <2>1 DEF Deleting
<1>20. Synced'
  <2> SUFFICES ASSUME drags = 0 PROVE Synced'
    BY <1>3 DEF Synced
  <2>1. \A op \in {"update", "move"} : \A i : ~About(r, op, i)
    BY <1>6 DEF About
  <2>2. \A b \in Owned : b \in Bars /\ want'[b] = want[b] /\ place'[b] = place[b]
    BY <1>1, <1>2, <1>11, OwnedInFrames DEF EmacsTypes
  <2>3. \A b \in Owned : /\ FollowsIn(req, pipeThread, request, "update", id[b], want[b], shown[b])
                         /\ FollowsIn(req, pipeThread, request, "move", id[b], place[b], placed[b])
    BY DEF Inv, Synced, Follows
  <2>4. \A b \in Owned : /\ FollowsIn(req', pipeThread, request, "update", id[b], want[b], shown[b])
                         /\ FollowsIn(req', pipeThread, request, "move", id[b], place[b], placed[b])
    BY <1>1, <1>2, <1>5, <2>1, <2>3, FollowsOther DEF PipeTypes
  <2>5. ~drag /\ pipeThread # "defer"
    BY DEF Inv, Synced
  <2>6. QED BY <2>2, <2>4, <2>5, <1>3, <1>13 DEF Synced, Follows
<1>21. QED BY <1>10, <1>12, <1>13, <1>14, <1>15, <1>16, <1>17, <1>18, <1>19, <1>20 DEF Inv

(* The answer gives the new bar its id; it becomes the first of its frame.   *)
LEMMA CreatedStep == ASSUME Inv, BarCreated PROVE Inv'
<1>0. PICK fr : fr = frame
  OBVIOUS
<1>1. /\ EmacsTypes /\ Stages /\ ScreenTypes /\ PipeTypes /\ Lists /\ Fresh /\ at = "await" /\ answer # <<>>
      /\ fr \in Frames /\ window \in todo /\ window \in Windows /\ barOf[window] = Nil /\ FrameOf[window] = fr
      /\ made # 0 /\ win[made] = Nil
  BY <1>0 DEF Inv, Types, BarCreated, Stages, EmacsTypes
<1>2. made \in Bars /\ made \in Nat /\ Nil \notin Windows
  BY <1>1, BoundAssumption, FrameOfAssumption DEF EmacsTypes, Bars, Nil
<1>3. /\ req = <<>> /\ NoCreate(post, Len(post)) /\ pipeThread = "idle" /\ (answer[1] # NoId => Born(answer[1]))
      /\ answer[1] \in Ids \cup {NoId}
  BY <1>1 DEF Inv, Creating, PipeTypes
<1>4. /\ answer' = <<>>
      /\ UNCHANGED <<live, want, place, made, frame, judging, window, req, events>>
      /\ UNCHANGED <<pipeThread, request, post, drag, dragged>>
      /\ UNCHANGED <<table, async, shown, placed, exist, changes, clicks, drags, deletions>>
  BY DEF BarCreated, pmemacs, screen, dragging, bounds
<1>5. PipeTypes' /\ ScreenTypes' /\ NoCreate(req, Len(req))
  BY <1>1, <1>3, <1>4 DEF PipeTypes, ScreenTypes, NoCreate
<1>6. CASE answer[1] = NoId
  <2>1. at' = "aborted" /\ UNCHANGED <<bars, condemned, next, prev, barOf, win, id, todo, lists>>
    BY <1>6 DEF BarCreated, lists
  <2>2. EmacsTypes' /\ Stages'
    BY <1>1, <1>4, <2>1 DEF EmacsTypes, Stages
  <2>3. Lists' /\ Owned' = Owned
    BY <1>1, <2>1, SameLists
  <2>4. Creating' /\ Fresh' /\ Table' /\ Named'
    BY <1>3, <1>4, <1>5, <2>1, <2>3 DEF Inv, Creating, NoCreate, Fresh, Table, Named
  <2>5. Destroying' /\ Deleting' /\ Told'
    BY <1>1, <1>4, <2>1, <2>3 DEF Inv, Destroying, Destroys, Condemns, Deleting, Told
  <2>6. Synced'
    BY <1>4, <2>1, <2>3 DEF Inv, Synced, Follows
  <2>7. QED BY <1>5, <2>2, <2>3, <2>4, <2>5, <2>6 DEF Inv, Types
<1>7. CASE answer[1] # NoId
  <2>0. PICK a \in Ids : a = answer[1]
    BY <1>3, <1>7
  <2>1. /\ at' = "redisplay" /\ id' = [id EXCEPT ![made] = a] /\ win' = [win EXCEPT ![made] = window]
        /\ PushFront(made, next, prev) /\ condemned' = condemned
        /\ barOf' = [barOf EXCEPT ![window] = made] /\ todo' = todo \ {window}
    BY <1>7, <2>0 DEF BarCreated
  <2>2. /\ id'[made] = a /\ win'[made] = window /\ barOf'[window] = made
        /\ \A b \in Bars : b # made => id'[b] = id[b] /\ win'[b] = win[b]
        /\ \A w \in Windows : w # window => barOf'[w] = barOf[w]
    BY <1>1, <1>2, <2>1 DEF EmacsTypes
  <2>3. Born(a)
    BY <1>3, <1>7, <2>0
  <2>4. /\ made \notin Owned /\ Owned \subseteq Bars
        /\ \A w \in Windows : barOf[w] # Nil => win[barOf[w]] = w /\ barOf[w] \in Bars /\ barOf[w] # made
    <3>1. \A b \in Owned : win[b] \in Windows /\ b \in Bars
      BY <1>1, OwnedInFrames
    <3>2. made \notin Owned
      BY <3>1, <1>1, <1>2
    <3>3. \A w \in Windows : barOf[w] # Nil => barOf[w] \in Owned
      BY DEF Owned
    <3>4. QED BY <3>1, <3>2, <3>3, <1>1 DEF Lists, Owners
  <2>5. /\ Owned' = Owned \cup {made} /\ Owners' /\ OwnedIn(fr)' = OwnedIn(fr) \cup {made}
        /\ \A f \in Frames \ {fr} : OwnedIn(f)' = OwnedIn(f)
    <3>1. Owned' = Owned \cup {made}
      BY <1>1, <1>2, <2>2, NilIsNoBar DEF Owned
    <3>2. Owners'
      BY <2>2, <2>4 DEF Owners
    <3>3. OwnedIn(fr)' = OwnedIn(fr) \cup {made}
      BY <1>1, <1>2, <2>2, NilIsNoBar DEF OwnedIn
    <3>4. ASSUME NEW f \in Frames \ {fr} PROVE OwnedIn(f)' = OwnedIn(f)
      <4>1. \A w \in Windows : FrameOf[w] = f => barOf'[w] = barOf[w]
        BY <1>1, <2>2
      <4>2. QED BY <4>1 DEF OwnedIn
    <3>5. QED BY <3>1, <3>2, <3>3, <3>4
  <2>6. Lists'
    <3>1. PICK L \in SUBSET Bars, D \in SUBSET Bars : Split(fr, L, D)
      BY <1>1 DEF Lists
    <3>2. /\ Linear(L, bars[fr], next, prev) /\ Linear(D, condemned[fr], next, prev)
          /\ L \cap D = {} /\ L \cup D = OwnedIn(fr)
      BY <3>1 DEF Split
    <3>3. \A f \in Frames : OwnedIn(f) \subseteq Owned
      BY <1>1, OwnedInFrames
    <3>4. made \notin L \cup D /\ OwnedIn(fr)' = L \cup D \cup {made}
      BY <1>1, <3>2, <3>3, <2>4, <2>5
    <3>5. condemned' = [condemned EXCEPT ![fr] = condemned[fr]]
      BY <1>1, <2>1 DEF EmacsTypes
    <3>6. \A f \in Frames \ {fr} : \A k \in OwnedIn(f) : k # made /\ k \notin L
      <4>1. \A f \in Frames \ {fr} : OwnedIn(f) \cap OwnedIn(fr) = {}
        BY <1>1, Apart DEF Lists
      <4>2. QED BY <4>1, <3>2, <3>3, <2>4
    <3>7. PICK b \in Bars : b = made
      BY <1>2
    <3>8. PICK nx, pv, d : nx = next /\ pv = prev /\ d = condemned[fr]
      OBVIOUS
    <3>9. /\ Linear(L, bars[fr], nx, pv) /\ Linear(D, d, nx, pv) /\ b \notin L \cup D /\ L \cap D = {}
          /\ condemned' = [condemned EXCEPT ![fr] = d] /\ PushFront(b, nx, pv)
          /\ OwnedIn(fr)' = L \cup D \cup {b} /\ \A f \in Frames \ {fr} : OwnedIn(f)' = OwnedIn(f)
          /\ \A f \in Frames \ {fr} : \A k \in OwnedIn(f) : k # b /\ k \notin L /\ nx[k] = next[k] /\ pv[k] = prev[k]
      BY <2>1, <2>5, <3>7, <3>2, <3>4, <3>5, <3>6, <3>8
    <3>10. QED BY <1>0, <1>1, <2>5, <3>9, PutInFront
  <2>7. EmacsTypes'
    <3>1. /\ id' \in [Bars -> Ids \cup {NoId}] /\ win' \in [Bars -> Windows \cup {Nil}]
          /\ barOf' \in [Windows -> Links] /\ condemned' \in [Frames -> Links]
      BY <1>1, <1>2, <2>1 DEF EmacsTypes, Links
    <3>2. bars' = [bars EXCEPT ![fr] = made] /\ next' = [next EXCEPT ![made] = bars[fr]]
          /\ prev' = [k \in Bars |-> CASE k = made -> Nil [] k = bars[fr] -> made [] OTHER -> prev[k]]
      BY <2>1, <1>0 DEF PushFront
    <3>3. bars' \in [Frames -> Links] /\ next' \in [Bars -> Links] /\ prev' \in [Bars -> Links]
      BY <3>2, <1>1, <1>2 DEF EmacsTypes, Links
    <3>4. QED BY <3>1, <3>3, <1>1, <1>4, <2>1 DEF EmacsTypes
  <2>8. Stages'
    BY <1>1, <1>4, <2>1 DEF Stages
  <2>9. Creating'
    BY <1>3, <1>4, <1>5, <2>1 DEF Creating, NoCreate
  <2>10. Fresh'
    BY <1>1, <1>2, <1>4, <2>2, BoundAssumption DEF Fresh, Bars
  <2>11. Table'
    <3>1. \A i \in Ids : table[i] # Nil => table[i] \in Bars
      BY <1>1 DEF ScreenTypes, Links
    <3>2. \A i \in Ids : table[i] = made => i = a
      BY <2>3, <1>2, NilIsNoBar DEF Inv, Table, Born
    <3>3. QED BY <3>1, <3>2, <1>4, <2>2 DEF Inv, Table
  <2>12. Named'
    BY <1>4, <2>2, <2>3, <2>4, <2>5 DEF Inv, Named, Born
  <2>13. Destroying'
    <3>1. \A i \in Ids : Condemns(i) => Condemns(i)'
      BY <1>1, <1>4, <2>1, <2>5 DEF Condemns
    <3>2. QED BY <3>1, <1>4 DEF Inv, Destroying, Destroys
  <2>14. Deleting'
    BY <1>1, <1>4, <2>1, <2>5 DEF Inv, Deleting
  <2>15. Told'
    <3>1. id[made] = NoId
      BY <1>1 DEF Stages
    <3>2. NoId \notin Ids
      BY BoundAssumption DEF Ids, NoId
    <3>3. \A e \in Events : e.bar \in Bars /\ e.id \in Ids
      BY DEF Events
    <3>5. \A k \in 1 .. Len(events) : events[k] \in Events
      BY <1>1 DEF PipeTypes
    <3>4. QED BY <3>5, <3>1, <3>2, <3>3, <1>4, <2>2 DEF Inv, Told
  <2>16. Synced'
    <3> SUFFICES ASSUME drags = 0 PROVE Synced'
      BY <1>4 DEF Synced
    <3>1. \A b \in Owned : /\ Follows("update", id[b], want[b], shown[b])
                           /\ Follows("move", id[b], place[b], placed[b])
      BY DEF Inv, Synced
    <3>2. \A b \in Owned : id'[b] = id[b]
      BY <2>2, <2>4
    <3>3. Follows("update", a, want[made], shown[made]) /\ Follows("move", a, place[made], placed[made])
      BY <1>3, <2>3 DEF Born, Follows, FollowsIn, Unasked
    <3>4. QED BY <3>1, <3>2, <3>3, <1>4, <2>2, <2>5 DEF Inv, Synced, Follows
  <2>17. QED BY <1>5, <2>6, <2>7, <2>8, <2>9, <2>10, <2>11, <2>12, <2>13, <2>14, <2>15, <2>16 DEF Inv, Types
<1>8. QED BY <1>6, <1>7

(* PM_redeem_scroll_bar: a bar on one of the frame's lists can always be     *)
(* redeemed, and both lists stay lists.                                      *)
LEMMA Redeemed ==
  ASSUME EmacsTypes, Lists, frame \in Frames, NEW b, b \in OwnedIn(frame), UNCHANGED <<barOf, win>>
  PROVE  CanRedeem(b) /\ (Redeem(b) => Lists')
<1>0. PICK fr \in Frames : fr = frame
  OBVIOUS
<1>1. PICK L \in SUBSET Bars, D \in SUBSET Bars : Split(fr, L, D)
  BY DEF Lists
<1>2. /\ Linear(L, bars[fr], next, prev) /\ Linear(D, condemned[fr], next, prev)
      /\ L \cap D = {} /\ L \cup D = OwnedIn(fr) /\ b \in L \cup D /\ b \in Bars
  BY <1>0, <1>1 DEF Split
<1>3. /\ \A k \in L : /\ prev[k] = Nil => k = bars[fr]
                      /\ prev[k] # Nil => prev[k] \in L
                      /\ next[k] # Nil => next[k] \in L
      /\ \A k \in D : /\ prev[k] = Nil => k = condemned[fr]
                      /\ prev[k] # Nil => prev[k] \in D
                      /\ next[k] # Nil => next[k] \in D
      /\ bars[fr] # Nil => bars[fr] \in L /\ prev[bars[fr]] = Nil
  BY <1>2 DEF Linear, Linked
<1>4. CanRedeem(b)
  BY <1>0, <1>2, <1>3 DEF CanRedeem
<1>5. Owners' /\ \A f \in Frames : OwnedIn(f)' = OwnedIn(f)
  BY DEF Lists, Owners, OwnedIn
<1>6. CASE UNCHANGED lists
  <2>1. UNCHANGED <<lists, barOf, win>>
    BY <1>6
  <2>2. QED BY <1>4, <2>1, SameLists
<1>7. ASSUME Redeem(b), ~(prev[b] = Nil /\ bars[fr] = b) PROVE Lists'
  <2>1. PICK nx, pv : nx = PastNext(next, prev, b) /\ pv = PastPrev(next, prev, b)
    OBVIOUS
  <2>2. PICK d : d = IF prev[b] = Nil THEN next[b] ELSE condemned[fr]
    OBVIOUS
  <2>3. condemned' = [condemned EXCEPT ![fr] = d] /\ PushFront(b, nx, pv)
    <3>1. /\ condemned' = IF prev[b] = Nil THEN [condemned EXCEPT ![fr] = next[b]] ELSE condemned
          /\ PushFront(b, PastNext(next, prev, b), PastPrev(next, prev, b))
      BY <1>0, <1>7 DEF Redeem, PastNext, PastPrev
    <3>2. condemned = [condemned EXCEPT ![fr] = condemned[fr]]
      BY DEF EmacsTypes
    <3>3. QED BY <3>1, <3>2, <2>1, <2>2
  <2>4. /\ nx \in [Bars -> Links] /\ pv \in [Bars -> Links]
        /\ \A k \in Bars : k # prev[b] \/ prev[b] = Nil => nx[k] = next[k]
        /\ \A k \in Bars : k # next[b] \/ next[b] = Nil => pv[k] = prev[k]
    BY <1>2, <2>1 DEF PastNext, PastPrev, EmacsTypes, Links
  <2>5. \A f \in Frames \ {fr} : \A k \in OwnedIn(f) : k # b /\ k \notin L /\ nx[k] = next[k] /\ pv[k] = prev[k]
    <3>1. \A f \in Frames \ {fr} : OwnedIn(f) \cap OwnedIn(fr) = {} /\ OwnedIn(f) \subseteq Bars
      BY Apart, OwnedInFrames DEF Lists
    <3>2. (prev[b] # Nil => prev[b] \in OwnedIn(fr)) /\ (next[b] # Nil => next[b] \in OwnedIn(fr))
      BY <1>2, <1>3
    <3>3. QED BY <3>1, <3>2, <2>4, <1>2
  <2>6. CASE b \in D
    <3>1. \A k \in L : nx[k] = next[k] /\ pv[k] = prev[k]
      BY <2>4, <2>6, <1>2, <1>3
    <3>2. Linear(L, bars[fr], nx, pv)
      BY <3>1, <2>4, <1>2, Elsewhere
    <3>3. PICK M \in SUBSET Bars : M = D \ {b}
      OBVIOUS
    <3>4. Linear(M, IF prev[b] = Nil THEN next[b] ELSE condemned[fr], nx, pv)
      BY <2>1, <2>6, <3>3, <1>2, Unlinked
    <3>5. Linear(M, d, nx, pv)
      BY <3>4, <2>2, Zenon
    <3>6. b \notin L \cup M /\ L \cap M = {} /\ OwnedIn(fr)' = L \cup M \cup {b}
      BY <3>3, <2>6, <1>2, <1>5
    <3>7. b \in Bars /\ \A f \in Frames \ {fr} : OwnedIn(f)' = OwnedIn(f)
      BY <1>2, <1>5
    <3>8. QED BY <3>2, <3>5, <3>6, <3>7, <2>3, <2>5, <1>0, <1>5, PutInFront
  <2>7. CASE b \in L
    <3>1. \A k \in D : nx[k] = next[k] /\ pv[k] = prev[k]
      BY <2>4, <2>7, <1>2, <1>3
    <3>2. prev[b] # Nil /\ d = condemned[fr]
      BY <2>2, <2>7, <1>3, <1>7
    <3>3. Linear(D, d, nx, pv)
      BY <3>1, <3>2, <2>4, <1>2, Elsewhere
    <3>4. PICK M \in SUBSET Bars : M = L \ {b}
      OBVIOUS
    <3>5. Linear(M, bars[fr], nx, pv)
      BY <3>2, <3>4, <2>1, <2>7, <1>2, Unlinked
    <3>6. b \notin M \cup D /\ M \cap D = {} /\ OwnedIn(fr)' = M \cup D \cup {b}
      BY <3>4, <2>7, <1>2, <1>5
    <3>7. b \in Bars /\ \A f \in Frames \ {fr} : OwnedIn(f)' = OwnedIn(f)
      BY <1>2, <1>5
    <3>8. \A f \in Frames \ {fr} : \A k \in OwnedIn(f) : k # b /\ k \notin M /\ nx[k] = next[k] /\ pv[k] = prev[k]
      BY <2>5, <3>4
    <3>9. QED BY <3>3, <3>5, <3>6, <3>7, <3>8, <2>3, <1>0, <1>5, PutInFront
  <2>8. QED BY <2>6, <2>7, <1>2
<1>8. QED BY <1>0, <1>4, <1>6, <1>7 DEF Redeem

(* The requests sent for a bar that changes: a move and an update of its id, *)
(* when what they ask for is new.                                            *)
LEMMA FollowsOthers ==
  ASSUME NEW s \in Seq(Requests), NEW t \in Seq(Requests), NEW thread, NEW q, NEW op, NEW i, NEW v, NEW now,
         \A k \in 1 .. Len(t) : ~About(t[k], op, i), FollowsIn(s, thread, q, op, i, v, now)
  PROVE  FollowsIn(s \o t, thread, q, op, i, v, now)
  BY AddedOthers DEF FollowsIn

(* A new value that is sent is what the bar will show. *)
LEMMA FollowsNews ==
  ASSUME NEW s \in Seq(Requests), NEW thread, NEW q, NEW op, NEW i, NEW old, NEW v, NEW now, NEW r \in Requests,
         About(r, op, i), r.to = v, FollowsIn(s, thread, q, op, i, old, now)
  PROVE  FollowsIn(s \o (IF v # old THEN <<r>> ELSE <<>>), thread, q, op, i, v, now)
<1>1. CASE v = old
  <2>1. s \o <<>> = s
    OBVIOUS
  <2>2. QED BY <1>1, <2>1
<1>2. CASE v # old
  <2>1. s \o <<r>> = Append(s, r)
    OBVIOUS
  <2>2. QED BY <1>2, <2>1, AskedLast DEF FollowsIn
<1>3. QED BY <1>1, <1>2

(* PM_set_vertical_scroll_bar redeems the bar: the lists allow it, so that
   Emacs does not abort, and what it sends is what it wants from now on. *)
LEMMA UpdateStep ==
  ASSUME Inv, NEW w \in Windows, NEW v \in Values, NEW p \in Places, UpdateBar(w, v, p)
  PROVE  Inv' /\ at' = "redisplay" /\ Extended(req, req')
<1>0. PICK b, i : b = barOf[w] /\ i = id[b]
  OBVIOUS
<1> DEFINE m == [op |-> "move", id |-> i, to |-> p]
           u == [op |-> "update", id |-> i, to |-> v]
<1>1. /\ EmacsTypes /\ Stages /\ ScreenTypes /\ PipeTypes /\ Lists /\ Fresh /\ at = "redisplay"
      /\ w \in todo /\ b # Nil /\ frame \in Frames /\ FrameOf[w] = frame
  BY <1>0 DEF Inv, Types, UpdateBar, Stages
<1>2. b \in OwnedIn(frame) /\ b \in Owned /\ b \in Bars /\ i \in Ids /\ table[i] = b
  BY <1>0, <1>1, OwnedInFrames DEF Inv, Named
<1> DEFINE move == IF p # place[b] THEN <<m>> ELSE <<>>
           update == IF v # want[b] THEN <<u>> ELSE <<>>
<1>3. m \in Requests /\ u \in Requests /\ m.op = "move" /\ u.op = "update" /\ m.id = i /\ u.id = i
      /\ m.to = p /\ u.to = v
  BY <1>2 DEF Requests
<1> HIDE DEF m, u
<1>4. /\ req' = req \o move \o update
      /\ want' = [want EXCEPT ![b] = v] /\ place' = [place EXCEPT ![b] = p] /\ todo' = todo \ {w}
      /\ IF CanRedeem(b) THEN Redeem(b) /\ UNCHANGED at ELSE at' = "aborted" /\ UNCHANGED lists
      /\ UNCHANGED <<live, barOf, win, id, made, frame, judging, window>>
  BY <1>0 DEF UpdateBar, m, u
<1>5. /\ UNCHANGED <<answer, events, pipeThread, request, post, drag, dragged>>
      /\ UNCHANGED <<table, async, shown, placed, exist, changes, clicks, drags, deletions>>
  BY DEF UpdateBar, pmemacs, screen, dragging, bounds
<1>6. Redeem(b) /\ at' = "redisplay" /\ Lists' /\ Owned' = Owned
  <2>1. UNCHANGED <<barOf, win>>
    BY <1>4
  <2>2. CanRedeem(b) /\ (Redeem(b) => Lists')
    BY <2>1, <1>1, <1>2, Redeemed
  <2>3. Owned' = Owned
    BY <2>1 DEF Owned
  <2>4. QED BY <2>2, <2>3, <1>1, <1>4
<1>7. /\ req \in Seq(Requests) /\ move \in Seq(Requests) /\ update \in Seq(Requests) /\ req \o move \in Seq(Requests)
      /\ Len(move) \in {0, 1} /\ (\A k \in 1 .. Len(move) : move[k] = m)
      /\ Len(update) \in {0, 1} /\ (\A k \in 1 .. Len(update) : update[k] = u)
  <2>1. req \in Seq(Requests)
    BY <1>1 DEF PipeTypes
  <2>2. \A c \in BOOLEAN : \A r \in Requests :
          LET t == IF c THEN <<r>> ELSE <<>>
          IN t \in Seq(Requests) /\ Len(t) \in {0, 1} /\ \A k \in 1 .. Len(t) : t[k] = r
    <3> SUFFICES ASSUME NEW c \in BOOLEAN, NEW r \in Requests
                 PROVE  LET t == IF c THEN <<r>> ELSE <<>>
                        IN t \in Seq(Requests) /\ Len(t) \in {0, 1} /\ \A k \in 1 .. Len(t) : t[k] = r
      OBVIOUS
    <3>1. CASE c
      BY <3>1
    <3>2. CASE ~c
      BY <3>2
    <3>3. QED BY <3>1, <3>2
  <2>3. move \in Seq(Requests) /\ Len(move) \in {0, 1} /\ \A k \in 1 .. Len(move) : move[k] = m
    BY <2>2, <1>3
  <2>4. update \in Seq(Requests) /\ Len(update) \in {0, 1} /\ \A k \in 1 .. Len(update) : update[k] = u
    BY <2>2, <1>3
  <2> HIDE DEF move, update
  <2>5. QED BY <2>1, <2>3, <2>4
<1>8. /\ req' \in Seq(Requests) /\ Len(req) \in Nat /\ Len(req') \in Nat /\ Len(req) <= Len(req')
      /\ \A k \in 1 .. Len(req) : req'[k] = req[k]
      /\ \A k \in 1 .. Len(req') : k \notin 1 .. Len(req) => req'[k] \in {m, u}
  <2> DEFINE s == req \o move
  <2> HIDE DEF move, update
  <2>1. /\ Len(req) \in Nat /\ Len(move) \in Nat /\ Len(s) = Len(req) + Len(move)
        /\ \A k \in 1 .. Len(req) : s[k] = req[k]
        /\ \A k \in 1 .. Len(s) : k \notin 1 .. Len(req) => k - Len(req) \in 1 .. Len(move) /\ s[k] = move[k - Len(req)]
    BY <1>7, ConcatOf
  <2>2. s \in Seq(Requests) /\ req' = s \o update
    BY <1>4, <1>7
  <2> HIDE DEF s
  <2>3. /\ Len(s) \in Nat /\ Len(update) \in Nat /\ Len(req') = Len(s) + Len(update)
        /\ \A k \in 1 .. Len(s) : req'[k] = s[k]
        /\ \A k \in 1 .. Len(req') : k \notin 1 .. Len(s) => k - Len(s) \in 1 .. Len(update) /\ req'[k] = update[k - Len(s)]
    BY <2>2, <1>7, ConcatOf
  <2>4. req' \in Seq(Requests)
    BY <2>2, <1>7
  <2>5. \A k \in 1 .. Len(req) : k \in 1 .. Len(s) /\ req'[k] = req[k]
    BY <2>1, <2>3
  <2>6. ASSUME NEW k \in 1 .. Len(req'), k \notin 1 .. Len(req) PROVE req'[k] \in {m, u}
    BY <2>1, <2>3, <2>6, <1>7
  <2>7. QED BY <2>1, <2>3, <2>4, <2>5, <2>6
<1>9. EmacsTypes'
  <2>1. want' \in [Bars -> Values \cup {NoValue}] /\ place' \in [Bars -> Places \cup {NoPlace}]
    BY <1>1, <1>4 DEF EmacsTypes
  <2>2. next' \in [Bars -> Links] /\ prev' \in [Bars -> Links]
    <3>1. PICK L \in SUBSET Bars, D \in SUBSET Bars : Split(frame, L, D)'
      BY <1>1, <1>4, <1>6 DEF Lists
    <3>2. QED BY <3>1 DEF Split, Linear
  <2>3. bars' \in [Frames -> Links] /\ condemned' \in [Frames -> Links]
    BY <1>1, <1>2, <1>6 DEF Redeem, PushFront, EmacsTypes, Links, lists
  <2>4. QED BY <1>1, <1>4, <1>6, <2>1, <2>2, <2>3 DEF EmacsTypes
<1>10. Types'
  BY <1>1, <1>5, <1>8, <1>9 DEF Types, PipeTypes, ScreenTypes
<1>11. Stages'
  <2>1. \A f \in Frames : f # frame => condemned'[f] = condemned[f]
    BY <1>1, <1>6 DEF Redeem, lists, EmacsTypes
  <2>2. \A f \in Frames : f # frame => condemned[f] = Nil
    BY <1>1 DEF Stages
  <2>3. condemned'[frame] # Nil => judging
    <3>1. PICK fr : fr = frame
      OBVIOUS
    <3>2. SUFFICES ASSUME ~judging PROVE condemned'[fr] = Nil
      BY <3>1, <1>4
    <3>3. condemned[fr] = Nil
      BY <3>1, <3>2, <1>1 DEF Stages
    <3>4. PICK L \in SUBSET Bars, D \in SUBSET Bars : Split(fr, L, D)
      BY <3>1, <1>1 DEF Lists
    <3>5. D = {} /\ L = OwnedIn(fr)
      BY <3>3, <3>4, SplitSound
    <3>7. prev[b] = Nil => b = bars[fr]
      BY <3>1, <3>4, <3>5, <1>2 DEF Split, Linear, Linked
    <3>8. condemned' = condemned
      BY <3>1, <3>7, <1>6 DEF Redeem, lists
    <3>9. QED BY <3>3, <3>8
  <2>4. QED BY <1>1, <1>4, <1>6, <2>1, <2>2, <2>3 DEF Stages
<1>12. Creating'
  <2>1. NoCreate(req, Len(req)) /\ answer = <<>> /\ NoCreate(post, Len(post)) /\ pipeThread # "waiting"
    BY <1>1 DEF Inv, Creating
  <2>2. NoCreate(req', Len(req'))
    BY <2>1, <1>3, <1>8 DEF NoCreate
  <2>3. QED BY <2>1, <2>2, <1>1, <1>5, <1>6 DEF Creating
<1>13. Fresh' /\ Table' /\ Named' /\ Told'
  BY <1>4, <1>5, <1>6 DEF Inv, Fresh, Table, Named, Told
<1>14. Destroying'
  <2>1. \A j \in Ids : Condemns(j) => Condemns(j)'
    BY <1>5, <1>6 DEF Condemns
  <2>2. \A j \in Ids : \A k \in 1 .. Len(req') : Destroys(req', k, j) => k \in 1 .. Len(req) /\ Destroys(req, k, j)
    BY <1>3, <1>8 DEF Destroys
  <2>3. QED BY <2>1, <2>2, <1>5 DEF Inv, Destroying
<1>15. Deleting'
  BY <1>1, <1>3, <1>4, <1>6, <1>8 DEF Inv, Deleting
<1>16. Synced'
  <2> SUFFICES ASSUME drags = 0 PROVE Synced'
    BY <1>5 DEF Synced
  <2>1. \A c \in Owned : /\ FollowsIn(req, pipeThread, request, "update", id[c], want[c], shown[c])
                         /\ FollowsIn(req, pipeThread, request, "move", id[c], place[c], placed[c])
    BY DEF Inv, Synced, Follows
  <2>2. ASSUME NEW c \in Owned, c # b
        PROVE  /\ FollowsIn(req', pipeThread, request, "update", id[c], want'[c], shown[c])
               /\ FollowsIn(req', pipeThread, request, "move", id[c], place'[c], placed[c])
    <3>1. c \in Bars /\ id[c] # i
      BY <1>1, <1>2, <2>2, OwnedInFrames DEF Inv, Named
    <3>2. want'[c] = want[c] /\ place'[c] = place[c]
      BY <3>1, <2>2, <1>1, <1>4 DEF EmacsTypes
    <3>3. ~About(m, "update", id[c]) /\ ~About(u, "update", id[c]) /\ ~About(m, "move", id[c]) /\ ~About(u, "move", id[c])
      BY <3>1, <1>3 DEF About
    <3> HIDE DEF move, update
    <3>4. FollowsIn(req \o move, pipeThread, request, "update", id[c], want[c], shown[c])
      BY <2>1, <3>3, <1>7, FollowsOthers
    <3>5. FollowsIn(req \o move, pipeThread, request, "move", id[c], place[c], placed[c])
      BY <2>1, <3>3, <1>7, FollowsOthers
    <3>6. FollowsIn(req', pipeThread, request, "update", id[c], want[c], shown[c])
      BY <3>4, <3>3, <1>4, <1>7, FollowsOthers
    <3>7. FollowsIn(req', pipeThread, request, "move", id[c], place[c], placed[c])
      BY <3>5, <3>3, <1>4, <1>7, FollowsOthers
    <3>8. QED BY <3>2, <3>6, <3>7
  <2>3. /\ FollowsIn(req', pipeThread, request, "update", i, v, shown[b])
        /\ FollowsIn(req', pipeThread, request, "move", i, p, placed[b])
    <3>1. About(m, "move", i) /\ About(u, "update", i) /\ ~About(m, "update", i) /\ ~About(u, "move", i)
      BY <1>3 DEF About
    <3>2. FollowsIn(req \o move, pipeThread, request, "move", i, p, placed[b])
      <4>1. FollowsIn(req, pipeThread, request, "move", i, place[b], placed[b]) /\ req \in Seq(Requests)
        BY <2>1, <1>0, <1>2, <1>7
      <4>2. QED BY <4>1, <3>1, <1>3, FollowsNews
    <3>3. FollowsIn(req \o move, pipeThread, request, "update", i, want[b], shown[b])
      <4> HIDE DEF move, update
      <4>1. QED BY <2>1, <3>1, <1>0, <1>2, <1>7, FollowsOthers
    <3>4. FollowsIn(req', pipeThread, request, "update", i, v, shown[b])
      <4> DEFINE s == req \o move
      <4>1. s \in Seq(Requests) /\ req' = s \o update /\ FollowsIn(s, pipeThread, request, "update", i, want[b], shown[b])
        BY <3>3, <1>4, <1>7
      <4> HIDE DEF s, move
      <4>2. QED BY <4>1, <3>1, <1>3, FollowsNews
    <3>5. FollowsIn(req', pipeThread, request, "move", i, p, placed[b])
      <4> HIDE DEF move, update
      <4>1. QED BY <3>2, <3>1, <1>4, <1>7, FollowsOthers
    <3>6. QED BY <3>4, <3>5
  <2>4. want'[b] = v /\ place'[b] = p /\ id[b] = i
    BY <1>0, <1>1, <1>2, <1>4 DEF EmacsTypes
  <2>5. ~drag /\ pipeThread # "defer"
    BY DEF Inv, Synced
  <2>6. \A c \in Owned : /\ FollowsIn(req', pipeThread, request, "update", id[c], want'[c], shown[c])
                         /\ FollowsIn(req', pipeThread, request, "move", id[c], place'[c], placed[c])
    BY <2>2, <2>3, <2>4
  <2>7. QED BY <2>5, <2>6, <1>4, <1>5, <1>6 DEF Synced, Follows
<1>17. Extended(req, req')
  BY <1>3, <1>8 DEF Extended
<1>18. QED BY <1>6, <1>10, <1>11, <1>12, <1>13, <1>14, <1>15, <1>16, <1>17 DEF Inv

-----------------------------------------------------------------------------
(* The steps of pmemacs leave Emacs alone. *)
LEMMA Alone ==
  ASSUME Inv, UNCHANGED emacs
  PROVE  /\ EmacsTypes' /\ Stages' /\ Lists' /\ Fresh' /\ Owned' = Owned /\ UNCHANGED <<at, made, win, id, want, place>>
         /\ Types /\ EmacsTypes /\ PipeTypes /\ ScreenTypes
         /\ \A b \in Owned : b \in Bars /\ id[b] \in Ids /\ table[id[b]] = b /\ b \in exist /\ win[b] \in Windows
<1>1. EmacsTypes /\ Stages /\ Lists /\ Fresh /\ Types /\ PipeTypes /\ ScreenTypes
  BY DEF Inv, Types
<1>2. EmacsTypes' /\ Stages' /\ Lists' /\ Fresh' /\ Owned' = Owned
  BY <1>1, SameEmacs
<1>3. UNCHANGED <<at, made, win, id, want, place>>
  BY DEF emacs, barVars, redisplay
<1>4. \A b \in Owned : b \in Bars /\ win[b] \in Windows
  BY <1>1, OwnedInFrames
<1>5. QED BY <1>1, <1>2, <1>3, <1>4 DEF Inv, Named

(* A request leaves the pipe that is neither a creation nor to be destroyed. *)
LEMMA TakenDestroying ==
  ASSUME Inv, UNCHANGED <<table, at, made, post>>, Owned' = Owned, req # <<>>, req' = Tail(req)
  PROVE  Destroying'
<1>1. \A i \in Ids : Condemns(i)' <=> Condemns(i)
  BY DEF Condemns
<1>2. \A k \in 1 .. Len(req') : k + 1 \in 1 .. Len(req) /\ req'[k] = req[k + 1]
  BY TailOf DEF Inv, Types, PipeTypes
<1>3. \A k \in 1 .. Len(req') : k + 1 \in Int /\ k \in Int
  OBVIOUS
<1>4. \A i \in Ids : \A k \in 1 .. Len(req') : Destroys(req', k, i) => Destroys(req, k + 1, i)
  BY <1>2 DEF Destroys
<1>5. \A i \in Ids : \A k, m \in 1 .. Len(req') : k + 1 = m + 1 => k = m
  BY <1>3
<1>6. ASSUME NEW i \in Ids, NEW k \in 1 .. Len(req'), Destroys(req', k, i)
      PROVE  /\ Condemns(i) /\ \A m \in 1 .. Len(req') : Destroys(req', m, i) => m = k
             /\ \A m \in 1 .. Len(post) : ~Destroys(post, m, i)
  <2>1. /\ Condemns(i) /\ \A m \in 1 .. Len(req) : Destroys(req, m, i) => m = k + 1
        /\ \A m \in 1 .. Len(post) : ~Destroys(post, m, i)
    BY <1>2, <1>4, <1>6 DEF Inv, Destroying
  <2>2. ASSUME NEW m \in 1 .. Len(req'), Destroys(req', m, i) PROVE m = k
    BY <2>1, <2>2, <1>2, <1>4, <1>5
  <2>3. QED BY <2>1, <2>2
<1>7. \A i \in Ids : \A k \in 1 .. Len(post) : Destroys(post, k, i) =>
        Condemns(i) /\ \A m \in 1 .. Len(post) : Destroys(post, m, i) => m = k
  BY DEF Inv, Destroying
<1>8. QED BY <1>1, <1>6, <1>7 DEF Destroying

(* Nor is the deletion of a frame affected by a request that leaves. *)
LEMMA TakenDeleting ==
  ASSUME Inv, UNCHANGED <<at, made>>, Owned' = Owned, req # <<>>, req' = Tail(req)
  PROVE  Deleting'
<1>1. \A k \in 1 .. Len(req') : k + 1 \in 1 .. Len(req) /\ req'[k] = req[k + 1]
  BY TailOf DEF Inv, Types, PipeTypes
<1>2. QED BY <1>1 DEF Inv, Deleting

(* While a request that is no creation comes first, no creation is posted.   *)
LEMMA TakenCreating ==
  ASSUME Inv, UNCHANGED <<at, made, want, place, answer, post, table, shown, placed, exist, drags>>,
         req # <<>>, req' = Tail(req), Head(req).op # "create", pipeThread' # "waiting"
  PROVE  Creating'
<1>1. /\ Len(req) \in Nat \ {0} /\ Len(req') = Len(req) - 1 /\ Head(req) = req[1]
      /\ \A k \in 1 .. Len(req') : k + 1 \in 1 .. Len(req) /\ req'[k] = req[k + 1]
  BY TailOf DEF Inv, Types, PipeTypes
<1>2. CASE at # "await"
  BY <1>1, <1>2 DEF Inv, Creating, NoCreate
<1>3. CASE at = "await"
  <2>1. answer = <<>> /\ Asks(req) /\ NoCreate(post, Len(post)) /\ Unborn
    BY <1>3 DEF Inv, Creating
  <2>2. Len(req) # 1
    BY <2>1, <1>1 DEF Asks
  <2>3. Len(req') \in 1 .. Len(req') /\ Len(req') + 1 = Len(req) /\ req'[Len(req')] = req[Len(req)] /\ req' # <<>>
    BY <2>2, <1>1
  <2>4. NoCreate(req', Len(req') - 1)
    <3>1. \A k \in 1 .. Len(req') - 1 : k \in 1 .. Len(req') /\ k + 1 \in 1 .. Len(req) - 1
      BY <1>1
    <3>2. QED BY <3>1, <2>1, <1>1 DEF Asks, NoCreate
  <2>5. Asks(req)'
    BY <2>1, <2>3, <2>4 DEF Asks
  <2>6. QED BY <2>1, <2>5, <1>3 DEF Creating, NoCreate, Unborn
<1>4. QED BY <1>2, <1>3

(* The pipe thread tests whether a slider is dragged; then it sets the bar,  *)
(* defers or forgets.                                                        *)
LEMMA TestStep == ASSUME Inv, TestDragging PROVE Inv'
<1>0. PICK r : r = Head(req)
  OBVIOUS
<1>1. /\ UNCHANGED emacs /\ UNCHANGED <<answer, events, post, table, async, shown, placed, exist, drag, dragged>>
      /\ UNCHANGED <<changes, clicks, drags, deletions>>
      /\ pipeThread = "idle" /\ req # <<>> /\ req' = Tail(req) /\ r.op \in {"update", "move"}
      /\ IF drag /\ r.op = "move" THEN UNCHANGED <<pipeThread, request>>
         ELSE pipeThread' = (IF drag THEN "defer" ELSE "set") /\ request' = r
  BY <1>0 DEF TestDragging, Take, screen, dragging, bounds
<1>2. /\ EmacsTypes' /\ Stages' /\ Lists' /\ Fresh' /\ Owned' = Owned /\ UNCHANGED <<at, made, win, id, want, place>>
      /\ Types /\ PipeTypes /\ ScreenTypes
  BY <1>1, Alone
<1>3. req \in Seq(Requests) /\ req' \in Seq(Requests) /\ r \in Requests
  BY <1>0, <1>1, <1>2, TailOf DEF PipeTypes
<1>4. Types'
  <2>1. PipeTypes'
    BY <1>1, <1>2, <1>3 DEF PipeTypes
  <2>2. /\ pipeThread' \in {"idle", "waiting", "defer", "set"}
        /\ pipeThread' \in {"defer", "set"} => request' \in Requests /\ request'.op \in {"update", "move"}
        /\ pipeThread' = "defer" => request'.op = "update"
    BY <1>1, <1>3
  <2>3. ScreenTypes'
    BY <2>2, <1>1, <1>2 DEF ScreenTypes
  <2>4. QED BY <1>2, <2>1, <2>3 DEF Types
<1>5. Creating'
  BY <1>0, <1>1, <1>2, TakenCreating
<1>6. Table' /\ Named' /\ Told'
  BY <1>1, <1>2 DEF Inv, Table, Named, Told
<1>7. Destroying' /\ Deleting'
  BY <1>1, <1>2, TakenDestroying, TakenDeleting
<1>8. Synced'
  <2> SUFFICES ASSUME drags = 0 PROVE Synced'
    BY <1>1 DEF Synced
  <2>1. ~drag /\ pipeThread' = "set" /\ request' = r
    BY <1>1 DEF Inv, Synced
  <2>2. ASSUME NEW op, NEW i, NEW v, NEW now, FollowsIn(req, pipeThread, request, op, i, v, now)
        PROVE  FollowsIn(req', pipeThread', request', op, i, v, now)
    <3>1. CASE Asked(req, op, i, v)
      BY <3>1, <2>1, <1>0, <1>1, <1>3, TakenFirst DEF FollowsIn
    <3>2. CASE Unasked(req, 1, op, i) /\ v = now
      BY <3>2, <2>1, <1>0, <1>1, <1>3, TakenFirst DEF FollowsIn
    <3>3. QED BY <3>1, <3>2, <2>2, <1>1 DEF FollowsIn
  <2>3. \A b \in Owned : /\ FollowsIn(req, pipeThread, request, "update", id[b], want[b], shown[b])
                         /\ FollowsIn(req, pipeThread, request, "move", id[b], place[b], placed[b])
    BY DEF Inv, Synced, Follows
  <2>4. \A b \in Owned : /\ FollowsIn(req', pipeThread', request', "update", id[b], want[b], shown[b])
                         /\ FollowsIn(req', pipeThread', request', "move", id[b], place[b], placed[b])
    BY <2>2, <2>3
  <2>5. QED BY <2>1, <2>4, <1>1, <1>2 DEF Synced, Follows
<1>9. QED BY <1>2, <1>4, <1>5, <1>6, <1>7, <1>8 DEF Inv

(* The value goes to the table, which only a drag makes the pipe thread do. *)
LEMMA DeferStep == ASSUME Inv, Defer PROVE Inv'
<1>1. /\ UNCHANGED emacs /\ UNCHANGED <<req, answer, events, post, table, shown, placed, exist, drag, dragged>>
      /\ UNCHANGED <<changes, clicks, drags, deletions>>
      /\ pipeThread = "defer" /\ pipeThread' = "idle" /\ async' = [async EXCEPT ![request.id] = request.to]
  BY DEF Defer, pipes, dragging, bounds
<1>2. /\ EmacsTypes' /\ Stages' /\ Lists' /\ Fresh' /\ Owned' = Owned /\ UNCHANGED <<at, made, win, id, want, place>>
      /\ Types /\ PipeTypes /\ ScreenTypes
  BY <1>1, Alone
<1>3. async' \in [Ids -> Values \cup {NoValue}]
  <2>1. request.id \in Ids /\ request.to \in Values
    BY <1>1, <1>2, RequestFields DEF ScreenTypes
  <2>2. QED BY <2>1, <1>1, <1>2 DEF ScreenTypes
<1>4. Types'
  BY <1>1, <1>2, <1>3 DEF Types, PipeTypes, ScreenTypes
<1>5. Creating'
  BY <1>1, <1>2 DEF Inv, Creating, NoCreate, Asks, Unborn
<1>6. Table' /\ Named' /\ Deleting' /\ Told'
  BY <1>1, <1>2 DEF Inv, Table, Named, Deleting, Told
<1>7. Destroying'
  BY <1>1, <1>2 DEF Inv, Destroying, Destroys, Condemns
<1>8. Synced'
  BY <1>1 DEF Inv, Synced
<1>9. QED BY <1>2, <1>4, <1>5, <1>6, <1>7, <1>8 DEF Inv

(* The PM window gets what was asked for, which is what Emacs wants of its
   bar if no later request is under way. *)
LEMMA SetStep == ASSUME Inv, SetBar PROVE Inv'
<1>0. PICK h, r : h = table[request.id] /\ r = request
  OBVIOUS
<1>1. /\ UNCHANGED emacs /\ UNCHANGED <<req, answer, events, post, table, async, exist, drag, dragged>>
      /\ UNCHANGED <<changes, clicks, drags, deletions>>
      /\ pipeThread = "set" /\ pipeThread' = "idle"
      /\ shown' = [b \in Bars |-> IF b = h /\ b \in exist /\ r.op = "update" THEN r.to ELSE shown[b]]
      /\ placed' = [b \in Bars |-> IF b = h /\ b \in exist /\ r.op = "move" THEN r.to ELSE placed[b]]
  BY <1>0 DEF SetBar, pipes, dragging, bounds
<1>2. /\ EmacsTypes' /\ Stages' /\ Lists' /\ Fresh' /\ Owned' = Owned /\ UNCHANGED <<at, made, win, id, want, place>>
      /\ Types /\ PipeTypes /\ ScreenTypes
      /\ \A b \in Owned : b \in Bars /\ id[b] \in Ids /\ table[id[b]] = b /\ b \in exist
  BY <1>1, Alone
<1>3. r \in Requests /\ r.op \in {"update", "move"} /\ r.id \in Ids
      /\ (r.op = "update" => r.to \in Values) /\ (r.op = "move" => r.to \in Places)
  BY <1>0, <1>1, <1>2, RequestFields DEF ScreenTypes
<1>4. shown' \in [Bars -> Values \cup {NoValue}] /\ placed' \in [Bars -> Places \cup {NoPlace}]
  BY <1>1, <1>2, <1>3 DEF ScreenTypes
<1>5. Types'
  BY <1>1, <1>2, <1>4 DEF Types, PipeTypes, ScreenTypes
<1>6. Creating'
  BY <1>1, <1>2 DEF Inv, Creating, NoCreate, Asks, Unborn
<1>7. Table' /\ Named' /\ Deleting' /\ Told'
  BY <1>1, <1>2 DEF Inv, Table, Named, Deleting, Told
<1>8. Destroying'
  BY <1>1, <1>2 DEF Inv, Destroying, Destroys, Condemns
<1>9. Synced'
  <2> SUFFICES ASSUME drags = 0 PROVE Synced'
    BY <1>1 DEF Synced
  <2>1. ASSUME NEW b \in Owned PROVE b = h <=> r.id = id[b]
    <3>1. table[r.id] = h /\ table[id[b]] = b /\ b # Nil /\ id[b] \in Ids
      BY <1>0, <1>2, NilIsNoBar
    <3>2. QED BY <3>1, <1>3 DEF Inv, Table
  <2>2. ASSUME NEW b \in Owned
        PROVE  /\ FollowsIn(req', pipeThread', request', "update", id[b], want[b], shown'[b])
               /\ FollowsIn(req', pipeThread', request', "move", id[b], place[b], placed'[b])
    <3>1. /\ FollowsIn(req, "set", r, "update", id[b], want[b], shown[b])
          /\ FollowsIn(req, "set", r, "move", id[b], place[b], placed[b])
      BY <1>0, <1>1 DEF Inv, Synced, Follows
    <3>2. shown'[b] = (IF About(r, "update", id[b]) THEN r.to ELSE shown[b])
          /\ placed'[b] = (IF About(r, "move", id[b]) THEN r.to ELSE placed[b])
      BY <2>1, <1>1, <1>2 DEF About
    <3>3. QED BY <3>1, <3>2, <1>1 DEF FollowsIn
  <2>3. ~drag
    BY DEF Inv, Synced
  <2>4. QED BY <2>2, <2>3, <1>1, <1>2 DEF Synced, Follows
<1>10. QED BY <1>2, <1>5, <1>6, <1>7, <1>8, <1>9 DEF Inv

(* A creation or destruction is handed to the PM thread. *)
LEMMA PostStep == ASSUME Inv, PostRequest PROVE Inv'
<1>0. PICK r : r = Head(req)
  OBVIOUS
<1>1. /\ UNCHANGED emacs /\ UNCHANGED <<answer, events, request, table, async, shown, placed, exist, drag, dragged>>
      /\ UNCHANGED <<changes, clicks, drags, deletions>>
      /\ pipeThread = "idle" /\ req # <<>> /\ req' = Tail(req) /\ r.op \in {"create", "destroy"}
      /\ post' = Append(post, r) /\ pipeThread' = IF r.op = "create" THEN "waiting" ELSE "idle"
  BY <1>0 DEF PostRequest, Take, screen, dragging, bounds
<1>2. /\ EmacsTypes' /\ Stages' /\ Lists' /\ Fresh' /\ Owned' = Owned /\ UNCHANGED <<at, made, win, id, want, place>>
      /\ Types /\ PipeTypes /\ ScreenTypes
  BY <1>1, Alone
<1>3. /\ r \in Requests /\ r = req[1] /\ req' \in Seq(Requests) /\ Len(req) \in Nat \ {0} /\ Len(req') = Len(req) - 1
      /\ 1 \in 1 .. Len(req)
      /\ \A k \in 1 .. Len(req') : k + 1 \in 1 .. Len(req) /\ req'[k] = req[k + 1]
  BY <1>0, <1>1, <1>2, TailOf DEF PipeTypes
<1>4. /\ post' \in Seq(Requests) /\ Len(post) \in Nat /\ Len(post') = Len(post) + 1 /\ post'[Len(post) + 1] = r
      /\ \A k \in 1 .. Len(post) : post'[k] = post[k]
      /\ \A k \in 1 .. Len(post') : k \in 1 .. Len(post) \/ k = Len(post) + 1
  BY <1>1, <1>2, <1>3, AppendOf DEF ScreenTypes
<1>5. Types'
  <2>1. PipeTypes'
    BY <1>1, <1>2, <1>3 DEF PipeTypes
  <2>2. \A k \in 1 .. Len(post') : post'[k].op \in {"create", "destroy"}
    BY <1>1, <1>2, <1>4 DEF ScreenTypes
  <2>3. ScreenTypes'
    BY <2>2, <1>1, <1>2, <1>4 DEF ScreenTypes
  <2>4. QED BY <1>2, <2>1, <2>3 DEF Types
<1>6. ASSUME r.op = "destroy" PROVE Creating'
  <2>1. pipeThread' # "waiting" /\ \A k \in 1 .. Len(post') : post'[k].op = "create" => k \in 1 .. Len(post)
    BY <1>1, <1>4, <1>6
  <2>2. NoCreate(post, Len(post)) => NoCreate(post', Len(post'))
    BY <2>1, <1>4 DEF NoCreate
  <2>3. CASE at # "await"
    BY <2>1, <2>2, <2>3, <1>1, <1>2, <1>3 DEF Inv, Creating, NoCreate
  <2>4. CASE at = "await"
    <3>1. answer = <<>> /\ Asks(req) /\ NoCreate(post, Len(post)) /\ Unborn
      BY <2>4, <1>1 DEF Inv, Creating
    <3>2. Len(req) # 1
      BY <3>1, <1>3, <1>6 DEF Asks
    <3>3. Len(req') \in 1 .. Len(req') /\ Len(req') + 1 = Len(req) /\ req'[Len(req')] = req[Len(req)] /\ req' # <<>>
      BY <3>2, <1>3
    <3>4. NoCreate(req', Len(req') - 1)
      <4>1. \A k \in 1 .. Len(req') - 1 : k \in 1 .. Len(req') /\ k + 1 \in 1 .. Len(req) - 1
        BY <1>3
      <4>2. QED BY <4>1, <3>1, <1>3 DEF Asks, NoCreate
    <3>5. Asks(req)'
      BY <3>1, <3>3, <3>4, <1>2 DEF Asks
    <3>6. QED BY <2>1, <2>2, <2>4, <3>1, <3>5, <1>1, <1>2 DEF Creating, Unborn
  <2>5. QED BY <2>3, <2>4
<1>7. ASSUME r.op = "create" PROVE Creating'
  <2>1. at = "await" /\ answer = <<>> /\ Asks(req) /\ NoCreate(post, Len(post)) /\ Unborn
    BY <1>1, <1>3, <1>7 DEF Inv, Creating, NoCreate
  <2>2. Len(req) = 1
    BY <2>1, <1>3, <1>7 DEF Asks, NoCreate
  <2>3. req' = <<>>
    BY <2>2, <1>3
  <2>4. Asks(post)'
    <3>1. post'[Len(post')] = r /\ post' # <<>> /\ Len(post') - 1 = Len(post)
      BY <1>4
    <3>2. r = [op |-> "create", bar |-> made', to |-> want'[made'], at |-> place'[made']]
      BY <2>1, <2>2, <1>2, <1>3 DEF Asks
    <3>3. NoCreate(post', Len(post') - 1)
      BY <3>1, <2>1, <1>4 DEF NoCreate
    <3>4. QED BY <3>1, <3>2, <3>3 DEF Asks
  <2>5. QED BY <2>1, <2>3, <2>4, <1>1, <1>2, <1>7 DEF Creating, Unborn
<1>8. Creating'
  BY <1>1, <1>6, <1>7
<1>9. Table' /\ Named' /\ Told'
  BY <1>1, <1>2 DEF Inv, Table, Named, Told
<1>10. Deleting'
  BY <1>1, <1>2, TakenDeleting
<1>11. Destroying'
  <2>1. \A i \in Ids : Condemns(i)' <=> Condemns(i)
    BY <1>1, <1>2 DEF Condemns
  <2>2. \A i \in Ids : \A k \in 1 .. Len(req') : Destroys(req', k, i) => Destroys(req, k + 1, i) /\ k + 1 # 1
    BY <1>3 DEF Destroys
  <2>3. \A i \in Ids : \A k \in 1 .. Len(post) : Destroys(post', k, i) <=> Destroys(post, k, i)
    BY <1>4 DEF Destroys
  <2>4. \A i \in Ids : Destroys(post', Len(post) + 1, i) => Destroys(req, 1, i)
    BY <1>3, <1>4 DEF Destroys
  <2>5. ASSUME NEW i \in Ids, NEW k \in 1 .. Len(req'), Destroys(req', k, i)
        PROVE  /\ Condemns(i) /\ \A m \in 1 .. Len(req') : Destroys(req', m, i) => m = k
               /\ \A m \in 1 .. Len(post') : ~Destroys(post', m, i)
    <3>1. k + 1 \in 1 .. Len(req) /\ Destroys(req, k + 1, i) /\ k + 1 # 1
      BY <2>2, <2>5, <1>3
    <3>2. /\ Condemns(i) /\ \A m \in 1 .. Len(req) : Destroys(req, m, i) => m = k + 1
          /\ \A m \in 1 .. Len(post) : ~Destroys(post, m, i)
      BY <3>1 DEF Inv, Destroying
    <3>3. ASSUME NEW m \in 1 .. Len(req'), Destroys(req', m, i) PROVE m = k
      <4>1. m + 1 = k + 1
        BY <3>2, <3>3, <2>2, <1>3
      <4>2. QED BY <4>1
    <3>4. ~Destroys(post', Len(post) + 1, i)
      BY <3>1, <3>2, <2>4, <1>3
    <3>5. QED BY <3>2, <3>3, <3>4, <2>3, <1>4
  <2>6. ASSUME NEW i \in Ids, NEW k \in 1 .. Len(post'), Destroys(post', k, i)
        PROVE  Condemns(i) /\ \A m \in 1 .. Len(post') : Destroys(post', m, i) => m = k
    <3>1. CASE k \in 1 .. Len(post)
      <4>1. Condemns(i) /\ \A m \in 1 .. Len(post) : Destroys(post, m, i) => m = k
        BY <3>1, <2>3, <2>6 DEF Inv, Destroying
      <4>2. ~Destroys(req, 1, i)
        BY <3>1, <2>3, <2>6, <1>3 DEF Inv, Destroying
      <4>3. QED BY <4>1, <4>2, <2>3, <2>4, <1>4
    <3>2. CASE k = Len(post) + 1
      <4>1. Destroys(req, 1, i)
        BY <3>2, <2>4, <2>6
      <4>2. Condemns(i) /\ \A m \in 1 .. Len(post) : ~Destroys(post, m, i)
        BY <4>1, <1>3 DEF Inv, Destroying
      <4>3. QED BY <3>2, <4>2, <2>3, <1>4
    <3>3. QED BY <3>1, <3>2, <1>4
  <2>7. QED BY <2>1, <2>5, <2>6 DEF Destroying
<1>12. Synced'
  <2> SUFFICES ASSUME drags = 0 PROVE Synced'
    BY <1>1 DEF Synced
  <2>1. ASSUME NEW op \in {"update", "move"}, NEW i, NEW v, NEW now, FollowsIn(req, pipeThread, request, op, i, v, now)
        PROVE  FollowsIn(req', pipeThread', request', op, i, v, now)
    <3>1. ~About(r, op, i) /\ pipeThread' # "set"
      BY <1>1 DEF About
    <3>2. QED BY <3>1, <2>1, <1>0, <1>1, <1>2, TakenFirst DEF FollowsIn, PipeTypes
  <2>2. \A b \in Owned : /\ FollowsIn(req, pipeThread, request, "update", id[b], want[b], shown[b])
                         /\ FollowsIn(req, pipeThread, request, "move", id[b], place[b], placed[b])
    BY DEF Inv, Synced, Follows
  <2>3. \A b \in Owned : /\ FollowsIn(req', pipeThread', request', "update", id[b], want[b], shown[b])
                         /\ FollowsIn(req', pipeThread', request', "move", id[b], place[b], placed[b])
    BY <2>1, <2>2
  <2>4. ~drag /\ pipeThread' # "defer"
    BY <1>1 DEF Inv, Synced
  <2>5. QED BY <2>3, <2>4, <1>1, <1>2 DEF Synced, Follows
<1>13. QED BY <1>2, <1>5, <1>8, <1>9, <1>10, <1>11, <1>12 DEF Inv

(* The windows of a deleted frame's bars go; their entries in the table stay. *)
LEMMA DestroyFrameStep == ASSUME Inv, DestroyFrame PROVE Inv'
<1>0. PICK r : r = Head(req)
  OBVIOUS
<1>1. /\ UNCHANGED emacs /\ UNCHANGED <<answer, events, pipeThread, request, table, async, shown, placed, drag, dragged>>
      /\ UNCHANGED <<changes, clicks, drags, deletions>>
      /\ pipeThread = "idle" /\ req # <<>> /\ req' = Tail(req) /\ r.op = "delete" /\ exist' = exist \ r.bars
      /\ \E set : post' = Kept(post, set)
  BY <1>0 DEF DestroyFrame, Take, dragging, bounds
<1>2. /\ EmacsTypes' /\ Stages' /\ Lists' /\ Fresh' /\ Owned' = Owned /\ UNCHANGED <<at, made, win, id, want, place>>
      /\ Types /\ PipeTypes /\ ScreenTypes
  BY <1>1, Alone
<1>3. /\ r \in Requests /\ r = req[1] /\ req' \in Seq(Requests) /\ 1 \in 1 .. Len(req)
      /\ \A k \in 1 .. Len(req') : k + 1 \in 1 .. Len(req) /\ k + 1 # 1 /\ req'[k] = req[k + 1]
  BY <1>0, <1>1, <1>2, TailOf DEF PipeTypes
<1>4. post' \in Seq(Requests) /\ \E set : Embedded(post', post, Len(post), set)
  BY <1>1, <1>2, KeptIn DEF ScreenTypes
<1>5. PICK f \in [1 .. Len(post') -> 1 .. Len(post)] :
        /\ \A j \in 1 .. Len(post') : post'[j] = post[f[j]]
        /\ \A i, j \in 1 .. Len(post') : f[i] = f[j] => i = j
  BY <1>4 DEF Embedded
<1>6. Types'
  <2>1. PipeTypes'
    BY <1>1, <1>2, <1>3 DEF PipeTypes
  <2>2. \A k \in 1 .. Len(post') : post'[k].op \in {"create", "destroy"}
    BY <1>2, <1>5 DEF ScreenTypes
  <2>3. exist' \subseteq Bars
    BY <1>1, <1>2 DEF ScreenTypes
  <2>4. ScreenTypes'
    BY <2>2, <2>3, <1>1, <1>2, <1>4 DEF ScreenTypes
  <2>5. QED BY <1>2, <2>1, <2>4 DEF Types
<1>7. r.bars \cap Owned = {} /\ (at = "await" => made \notin r.bars)
  BY <1>1, <1>3 DEF Inv, Deleting
<1>8. NoCreate(post, Len(post)) => NoCreate(post', Len(post'))
  BY <1>5 DEF NoCreate
<1>9. Creating'
  <2>1. CASE at # "await"
    BY <2>1, <1>1, <1>2, <1>3, <1>8 DEF Inv, Creating, NoCreate
  <2>2. CASE at = "await"
    <3>1. answer = <<>> /\ Asks(req) /\ NoCreate(post, Len(post)) /\ Unborn
      BY <2>2, <1>1 DEF Inv, Creating
    <3>2. Len(req) \in Nat \ {0} /\ Len(req') = Len(req) - 1
      BY <1>1, <1>2, TailOf DEF PipeTypes
    <3>3. Len(req) # 1
      BY <3>1, <1>1, <1>3 DEF Asks
    <3>4. Len(req') \in 1 .. Len(req') /\ Len(req') + 1 = Len(req) /\ req'[Len(req')] = req[Len(req)] /\ req' # <<>>
      BY <3>2, <3>3, <1>3
    <3>5. NoCreate(req', Len(req') - 1)
      <4>1. \A k \in 1 .. Len(req') - 1 : k \in 1 .. Len(req') /\ k + 1 \in 1 .. Len(req) - 1
        BY <3>2
      <4>2. QED BY <4>1, <3>1, <1>3 DEF Asks, NoCreate
    <3>6. Asks(req)'
      BY <3>1, <3>4, <3>5, <1>2 DEF Asks
    <3>7. QED BY <3>1, <3>6, <2>2, <1>1, <1>2, <1>8 DEF Creating, Unborn
  <2>3. QED BY <2>1, <2>2
<1>10. Table' /\ Told'
  BY <1>1, <1>2 DEF Inv, Table, Told
<1>11. Named'
  BY <1>1, <1>2, <1>7 DEF Inv, Named
<1>12. Deleting'
  BY <1>1, <1>2, TakenDeleting
<1>13. Destroying'
  <2>1. \A i \in Ids : Condemns(i)' <=> Condemns(i)
    BY <1>1, <1>2 DEF Condemns
  <2>2. \A i \in Ids : \A k \in 1 .. Len(post') : Destroys(post', k, i) => f[k] \in 1 .. Len(post) /\ Destroys(post, f[k], i)
    BY <1>5 DEF Destroys
  <2>3. \A i \in Ids : \A k \in 1 .. Len(req') : Destroys(req', k, i) => Destroys(req, k + 1, i)
    BY <1>3 DEF Destroys
  <2>4. ASSUME NEW i \in Ids, NEW k \in 1 .. Len(req'), Destroys(req', k, i)
        PROVE  /\ Condemns(i) /\ \A m \in 1 .. Len(req') : Destroys(req', m, i) => m = k
               /\ \A m \in 1 .. Len(post') : ~Destroys(post', m, i)
    <3>1. /\ Condemns(i) /\ \A m \in 1 .. Len(req) : Destroys(req, m, i) => m = k + 1
          /\ \A m \in 1 .. Len(post) : ~Destroys(post, m, i)
      BY <2>3, <2>4, <1>3 DEF Inv, Destroying
    <3>2. ASSUME NEW m \in 1 .. Len(req'), Destroys(req', m, i) PROVE m = k
      <4>1. m + 1 = k + 1
        BY <3>1, <3>2, <2>3, <1>3
      <4>2. QED BY <4>1
    <3>3. QED BY <3>1, <3>2, <2>2
  <2>5. ASSUME NEW i \in Ids, NEW k \in 1 .. Len(post'), Destroys(post', k, i)
        PROVE  Condemns(i) /\ \A m \in 1 .. Len(post') : Destroys(post', m, i) => m = k
    <3>1. Condemns(i) /\ \A m \in 1 .. Len(post) : Destroys(post, m, i) => m = f[k]
      BY <2>2, <2>5 DEF Inv, Destroying
    <3>2. QED BY <3>1, <2>2, <1>5
  <2>6. QED BY <2>1, <2>4, <2>5 DEF Destroying
<1>14. Synced'
  <2> SUFFICES ASSUME drags = 0 PROVE Synced'
    BY <1>1 DEF Synced
  <2>1. ASSUME NEW op \in {"update", "move"}, NEW i, NEW v, NEW now, FollowsIn(req, pipeThread, request, op, i, v, now)
        PROVE  FollowsIn(req', pipeThread', request', op, i, v, now)
    <3>1. ~About(r, op, i) /\ pipeThread' # "set"
      BY <1>1 DEF About
    <3>2. QED BY <3>1, <2>1, <1>0, <1>1, <1>2, TakenFirst DEF FollowsIn, PipeTypes
  <2>2. \A b \in Owned : /\ FollowsIn(req, pipeThread, request, "update", id[b], want[b], shown[b])
                         /\ FollowsIn(req, pipeThread, request, "move", id[b], place[b], placed[b])
    BY DEF Inv, Synced, Follows
  <2>3. \A b \in Owned : /\ FollowsIn(req', pipeThread', request', "update", id[b], want[b], shown[b])
                         /\ FollowsIn(req', pipeThread', request', "move", id[b], place[b], placed[b])
    BY <2>1, <2>2
  <2>4. ~drag /\ pipeThread' # "defer"
    BY <1>1 DEF Inv, Synced
  <2>5. QED BY <2>3, <2>4, <1>1, <1>2 DEF Synced, Follows
<1>15. QED BY <1>2, <1>6, <1>9, <1>10, <1>11, <1>12, <1>13, <1>14 DEF Inv

(* create_scrollbar: the first free id becomes that of the new bar. *)
LEMMA CreateWindowStep == ASSUME Inv, CreateWindow PROVE Inv'
<1>0. PICK r : r = Head(post)
  OBVIOUS
<1>1. /\ UNCHANGED emacs /\ UNCHANGED <<req, events, request, drag, dragged, changes, clicks, drags, deletions>>
      /\ post # <<>> /\ r.op = "create" /\ post' = Tail(post) /\ pipeThread' = "idle"
  BY <1>0 DEF CreateWindow, dragging, bounds
<1>2. /\ EmacsTypes' /\ Stages' /\ Lists' /\ Fresh' /\ Owned' = Owned /\ UNCHANGED <<at, made, win, id, want, place>>
      /\ Types /\ EmacsTypes /\ PipeTypes /\ ScreenTypes
      /\ \A b \in Owned : b \in Bars /\ id[b] \in Ids /\ table[id[b]] = b /\ b \in exist /\ win[b] \in Windows
  BY <1>1, Alone
<1>3. r \in Requests /\ r = post[1] /\ Len(post) \in Nat \ {0} /\ 1 \in 1 .. Len(post) /\ Len(post') = Len(post) - 1
  BY <1>0, <1>1, <1>2, TailOf DEF ScreenTypes
<1>4. at = "await" /\ answer = <<>> /\ req = <<>> /\ Asks(post) /\ Unborn
  BY <1>1, <1>3 DEF Inv, Creating, NoCreate
<1>5. Len(post) = 1
  BY <1>1, <1>3, <1>4 DEF Asks, NoCreate
<1>6. post' = <<>> /\ r = [op |-> "create", bar |-> made, to |-> want[made], at |-> place[made]]
  <2>1. post' \in Seq(Requests)
    BY <1>1, <1>2, TailOf DEF ScreenTypes
  <2>2. post' = <<>>
    BY <2>1, <1>3, <1>5
  <2>3. QED BY <2>2, <1>3, <1>4, <1>5 DEF Asks
<1>7. made \in Bars /\ made # Nil /\ made \in Nat /\ win[made] = Nil /\ id[made] = NoId /\ made \notin Owned
  <2>1. made # 0 /\ win[made] = Nil /\ id[made] = NoId
    BY <1>4 DEF Inv, Stages
  <2>2. made \in Bars
    BY <1>2, <2>1, BoundAssumption DEF EmacsTypes, Bars
  <2>3. QED BY <2>1, <2>2, <1>2, FrameOfAssumption, BoundAssumption DEF Nil, Bars
<1>8. r.bar = made /\ r.to = want[made] /\ r.at = place[made] /\ r.to \in Values /\ r.at \in Places
  BY <1>1, <1>3, <1>6, RequestFields
<1>9. /\ Deleting' /\ Told' /\ NoCreate(post', Len(post')) /\ 1 .. Len(post') = {} /\ 1 .. Len(req) = {}
      /\ pipeThread = "waiting"
  <2>1. Deleting' /\ Told'
    BY <1>1, <1>2 DEF Inv, Deleting, Told
  <2>2. Len(<<>>) = 0 /\ 1 .. 0 = {}
    OBVIOUS
  <2>3. 1 .. Len(post') = {} /\ 1 .. Len(req) = {}
    BY <2>2, <1>4, <1>6
  <2>4. pipeThread = "waiting"
    BY <1>4, <1>3 DEF Inv, Creating, Asks, NoCreate
  <2>5. QED BY <2>1, <2>3, <2>4 DEF NoCreate
<1>10. Destroying'
  BY <1>1, <1>9 DEF Destroying
<1>11. CASE FreeIds = {}
  <2>1. answer' = <<NoId>> /\ UNCHANGED <<table, async, shown, placed, exist>>
    BY <1>11 DEF CreateWindow
  <2>2. Types'
    BY <1>1, <1>2, <1>6, <2>1 DEF Types, PipeTypes, ScreenTypes
  <2>3. Creating'
    BY <1>1, <1>2, <1>4, <1>9, <2>1 DEF Creating
  <2>4. Table' /\ Named'
    BY <1>2, <2>1 DEF Inv, Table, Named
  <2>5. Synced'
    <3> SUFFICES ASSUME drags = 0 PROVE Synced'
      BY <1>1 DEF Synced
    <3>1. \A b \in Owned : /\ FollowsIn(req, "waiting", request, "update", id[b], want[b], shown[b])
                           /\ FollowsIn(req, "waiting", request, "move", id[b], place[b], placed[b])
      BY <1>9 DEF Inv, Synced, Follows
    <3>2. \A b \in Owned : /\ FollowsIn(req, "idle", request, "update", id[b], want[b], shown[b])
                           /\ FollowsIn(req, "idle", request, "move", id[b], place[b], placed[b])
      BY <3>1 DEF FollowsIn
    <3>3. ~drag
      BY DEF Inv, Synced
    <3>4. QED BY <3>2, <3>3, <1>1, <1>2, <2>1 DEF Synced, Follows
  <2>6. QED BY <1>2, <1>9, <1>10, <2>2, <2>3, <2>4, <2>5 DEF Inv
<1>12. CASE FreeIds # {}
  <2> DEFINE i == CHOOSE i \in FreeIds : \A j \in FreeIds : i <= j
  <2>1. i \in FreeIds /\ i \in Ids /\ table[i] = Nil
    <3>1. FreeIds \in SUBSET Nat
      BY BoundAssumption DEF FreeIds, Ids
    <3>2. \E n \in FreeIds : \A m \in FreeIds : n <= m
      BY <3>1, <1>12, LeastNumber
    <3>3. i \in FreeIds
      BY <3>2
    <3> HIDE DEF i
    <3>4. QED BY <3>3 DEF FreeIds
  <2>2. /\ answer' = <<i>> /\ table' = [table EXCEPT ![i] = made] /\ exist' = exist \cup {made}
        /\ async' = [async EXCEPT ![i] = IF drag THEN r.to ELSE NoValue]
        /\ shown' = [shown EXCEPT ![made] = IF drag THEN NoValue ELSE want[made]]
        /\ placed' = [placed EXCEPT ![made] = IF drag THEN NoPlace ELSE place[made]]
    BY <1>0, <1>8, <1>12 DEF CreateWindow
  <2> HIDE DEF i
  <2>3. table' \in [Ids -> Links] /\ exist' \subseteq Bars /\ async' \in [Ids -> Values \cup {NoValue}]
    BY <1>2, <1>7, <1>8, <2>1, <2>2 DEF ScreenTypes, Links
  <2>4. shown' \in [Bars -> Values \cup {NoValue}] /\ placed' \in [Bars -> Places \cup {NoPlace}]
    BY <1>2, <1>7, <1>8, <2>2 DEF ScreenTypes
  <2>5. Types'
    <3>1. PipeTypes'
      BY <1>1, <1>2, <2>1, <2>2 DEF PipeTypes
    <3>2. ScreenTypes'
      BY <1>1, <1>2, <1>6, <2>3, <2>4 DEF ScreenTypes
    <3>3. QED BY <1>2, <3>1, <3>2 DEF Types
  <2>6. /\ table'[i] = made /\ \A j \in Ids : j # i => table'[j] = table[j]
        /\ \A b \in Bars : b # made => shown'[b] = shown[b] /\ placed'[b] = placed[b]
    BY <1>2, <1>7, <2>1, <2>2 DEF ScreenTypes
  <2>7. Creating'
    <3>1. drags = 0 => shown'[made] = want[made] /\ placed'[made] = place[made]
      BY <1>2, <1>7, <2>2 DEF Inv, Synced, ScreenTypes
    <3>2. PICK a : a = i
      OBVIOUS
    <3>3. Born(a)'
      BY <3>1, <3>2, <1>1, <1>2, <2>2, <2>6 DEF Born
    <3>4. answer' # <<>> /\ answer'[1] = a
      BY <3>2, <2>2
    <3>5. QED BY <3>3, <3>4, <1>1, <1>2, <1>4, <1>9 DEF Creating
  <2>8. Table'
    <3>1. \A j \in Ids : table[j] # made
      BY <1>4 DEF Unborn
    <3>2. ASSUME NEW j \in Ids, table'[j] # Nil
          PROVE  /\ table'[j] <= made' /\ (win'[table'[j]] \in Windows => id'[table'[j]] = j)
                 /\ \A k \in Ids : table'[k] = table'[j] => k = j
      <4>1. CASE j = i
        BY <4>1, <3>1, <1>2, <1>7, <2>6, FrameOfAssumption DEF Nil
      <4>2. CASE j # i
        BY <4>2, <3>1, <3>2, <1>2, <2>6 DEF Inv, Table
      <4>3. QED BY <4>1, <4>2
    <3>3. QED BY <3>2 DEF Table
  <2>9. Named'
    <3>1. ASSUME NEW b \in Owned PROVE table'[id[b]] = b
      <4>1. b # Nil /\ id[b] # i
        BY <1>2, <2>1, NilIsNoBar
      <4>2. QED BY <4>1, <1>2, <2>6
    <3>2. QED BY <3>1, <1>2, <2>2 DEF Named
  <2>10. Synced'
    <3> SUFFICES ASSUME drags = 0 PROVE Synced'
      BY <1>1 DEF Synced
    <3>1. \A b \in Owned : shown'[b] = shown[b] /\ placed'[b] = placed[b]
      BY <1>2, <1>7, <2>6
    <3>3. \A b \in Owned : /\ FollowsIn(req, "waiting", request, "update", id[b], want[b], shown[b])
                           /\ FollowsIn(req, "waiting", request, "move", id[b], place[b], placed[b])
      BY <1>9 DEF Inv, Synced, Follows
    <3>4. \A b \in Owned : /\ FollowsIn(req, "idle", request, "update", id[b], want[b], shown[b])
                           /\ FollowsIn(req, "idle", request, "move", id[b], place[b], placed[b])
      BY <3>3 DEF FollowsIn
    <3>5. ~drag
      BY DEF Inv, Synced
    <3>6. QED BY <3>1, <3>4, <3>5, <1>1, <1>2 DEF Synced, Follows
  <2>11. QED BY <1>2, <1>9, <1>10, <2>5, <2>7, <2>8, <2>9, <2>10 DEF Inv
<1>13. QED BY <1>11, <1>12

(* destroy_scrollbar: the id is free again, and only this bar had it. *)
LEMMA DestroyWindowStep == ASSUME Inv, DestroyWindow PROVE Inv'
<1>0. PICK i, h : i = Head(post).id /\ h = table[i]
  OBVIOUS
<1>1. /\ UNCHANGED emacs /\ UNCHANGED <<req, answer, events, pipeThread, request, async, shown, placed, drag, dragged>>
      /\ UNCHANGED <<changes, clicks, drags, deletions>>
      /\ post # <<>> /\ Head(post).op = "destroy" /\ post' = Tail(post)
      /\ exist' = exist \ {h} /\ table' = [table EXCEPT ![i] = Nil]
  BY <1>0 DEF DestroyWindow, pipes, dragging, bounds
<1>2. /\ EmacsTypes' /\ Stages' /\ Lists' /\ Fresh' /\ Owned' = Owned /\ UNCHANGED <<at, made, win, id, want, place>>
      /\ Types /\ PipeTypes /\ ScreenTypes
      /\ \A b \in Owned : b \in Bars /\ id[b] \in Ids /\ table[id[b]] = b /\ b \in exist
  BY <1>1, Alone
<1>3. /\ Len(post) \in Nat \ {0} /\ Len(post') = Len(post) - 1 /\ post' \in Seq(Requests)
      /\ Head(post) = post[1] /\ 1 \in 1 .. Len(post) /\ post[1] \in Requests
      /\ \A k \in 1 .. Len(post') : k + 1 \in 1 .. Len(post) /\ k + 1 # 1 /\ post'[k] = post[k + 1]
  BY <1>1, <1>2, TailOf DEF ScreenTypes
<1>4. Destroys(post, 1, i) /\ i \in Ids
  BY <1>0, <1>1, <1>3, RequestFields DEF Destroys
<1>5. /\ Condemns(i) /\ h # Nil /\ h \notin Owned /\ (at = "await" => h # made)
      /\ \A m \in 1 .. Len(post) : Destroys(post, m, i) => m = 1
  BY <1>0, <1>3, <1>4 DEF Inv, Destroying, Condemns
<1>6. /\ table'[i] = Nil /\ \A j \in Ids : j # i => table'[j] = table[j]
      /\ table' \in [Ids -> Links] /\ exist' \subseteq Bars
  BY <1>1, <1>2, <1>4 DEF ScreenTypes, Links
<1>7. Types'
  <2>1. PipeTypes'
    BY <1>1, <1>2 DEF PipeTypes
  <2>2. \A k \in 1 .. Len(post') : post'[k].op \in {"create", "destroy"}
    BY <1>2, <1>3 DEF ScreenTypes
  <2>3. ScreenTypes'
    BY <2>2, <1>1, <1>2, <1>3, <1>6 DEF ScreenTypes
  <2>4. QED BY <1>2, <2>1, <2>3 DEF Types
<1>8. Creating'
  <2>1. NoCreate(post, Len(post)) => NoCreate(post', Len(post'))
    BY <1>3 DEF NoCreate
  <2>2. Unborn /\ at = "await" => Unborn'
    <3>1. at = "await" => made # Nil
      BY <1>2 DEF Inv, Stages, Nil
    <3>2. QED BY <3>1, <1>2, <1>6 DEF Unborn
  <2>3. CASE at # "await"
    BY <2>1, <2>3, <1>1, <1>2 DEF Inv, Creating, NoCreate
  <2>4. CASE at = "await" /\ answer = <<>> /\ Asks(req) /\ NoCreate(post, Len(post)) /\ pipeThread # "waiting" /\ Unborn
    BY <2>1, <2>2, <2>4, <1>1, <1>2 DEF Creating, Asks, NoCreate
  <2>5. CASE at = "await" /\ answer = <<>> /\ req = <<>> /\ Asks(post) /\ pipeThread = "waiting" /\ Unborn
    <3>1. Len(post) # 1
      BY <2>5, <1>1, <1>3 DEF Asks
    <3>2. Len(post') \in 1 .. Len(post') /\ Len(post') + 1 = Len(post) /\ post'[Len(post')] = post[Len(post)] /\ post' # <<>>
      BY <3>1, <1>3
    <3>3. NoCreate(post', Len(post') - 1)
      <4>1. \A k \in 1 .. Len(post') - 1 : k \in 1 .. Len(post') /\ k + 1 \in 1 .. Len(post) - 1
        BY <1>3
      <4>2. QED BY <4>1, <2>5, <1>3 DEF Asks, NoCreate
    <3>4. Asks(post)'
      BY <3>2, <3>3, <2>5, <1>2 DEF Asks
    <3>5. QED BY <3>4, <2>2, <2>5, <1>1, <1>2 DEF Creating
  <2>6. CASE /\ at = "await" /\ answer # <<>> /\ req = <<>> /\ NoCreate(post, Len(post)) /\ pipeThread = "idle"
             /\ (answer[1] # NoId => Born(answer[1]))
    <3>1. PICK a : a = answer[1]
      OBVIOUS
    <3>2. a # NoId => Born(a)'
      <4>1. a # NoId => a \in Ids /\ Born(a)
        BY <3>1, <2>6, <1>2 DEF PipeTypes
      <4>2. a # NoId => a # i
        BY <4>1, <2>6, <1>0, <1>5 DEF Born
      <4>3. QED BY <4>1, <4>2, <2>6, <1>1, <1>2, <1>5, <1>6 DEF Born
    <3>3. QED BY <3>1, <3>2, <2>1, <2>6, <1>1, <1>2 DEF Creating
  <2>7. QED BY <2>3, <2>4, <2>5, <2>6 DEF Inv, Creating
<1>9. Table'
  BY <1>2, <1>6 DEF Inv, Table
<1>10. Named'
  <2>1. ASSUME NEW b \in Owned PROVE table'[id[b]] = b /\ b \in exist'
    <3>1. b # h /\ id[b] # i
      BY <1>0, <1>2, <1>5
    <3>2. QED BY <3>1, <1>1, <1>2, <1>6
  <2>2. QED BY <2>1, <1>2 DEF Named
<1>11. Deleting' /\ Told'
  BY <1>1, <1>2 DEF Inv, Deleting, Told
<1>12. Destroying'
  <2>1. \A j \in Ids : j # i /\ Condemns(j) => Condemns(j)'
    BY <1>2, <1>6 DEF Condemns
  <2>2. \A j \in Ids : \A k \in 1 .. Len(post') : Destroys(post', k, j) => Destroys(post, k + 1, j)
    BY <1>3 DEF Destroys
  <2>3. ASSUME NEW j \in Ids, NEW k \in 1 .. Len(req), Destroys(req, k, j)
        PROVE  /\ Condemns(j)' /\ \A m \in 1 .. Len(req) : Destroys(req, m, j) => m = k
               /\ \A m \in 1 .. Len(post') : ~Destroys(post', m, j)
    <3>1. /\ Condemns(j) /\ \A m \in 1 .. Len(req) : Destroys(req, m, j) => m = k
          /\ \A m \in 1 .. Len(post) : ~Destroys(post, m, j)
      BY <2>3 DEF Inv, Destroying
    <3>2. j # i
      BY <3>1, <1>3, <1>4
    <3>3. QED BY <3>1, <3>2, <2>1, <2>2, <1>3
  <2>4. ASSUME NEW j \in Ids, NEW k \in 1 .. Len(post'), Destroys(post', k, j)
        PROVE  Condemns(j)' /\ \A m \in 1 .. Len(post') : Destroys(post', m, j) => m = k
    <3>1. Condemns(j) /\ \A m \in 1 .. Len(post) : Destroys(post, m, j) => m = k + 1
      BY <2>2, <2>4, <1>3 DEF Inv, Destroying
    <3>2. j # i
      BY <3>1, <1>3, <1>4
    <3>3. ASSUME NEW m \in 1 .. Len(post'), Destroys(post', m, j) PROVE m = k
      <4>1. m + 1 = k + 1
        BY <3>1, <3>3, <2>2, <1>3
      <4>2. QED BY <4>1
    <3>4. QED BY <3>1, <3>2, <3>3, <2>1
  <2>5. QED BY <2>3, <2>4, <1>1 DEF Destroying
<1>13. Synced'
  BY <1>1, <1>2 DEF Inv, Synced, Follows
<1>14. QED BY <1>2, <1>7, <1>8, <1>9, <1>10, <1>11, <1>12, <1>13 DEF Inv

(* The user clicks on a bar or drags its slider: an event with its id. *)
LEMMA MouseStep ==
  ASSUME Inv, NEW i \in UsedIds, Click(i) \/ StartDrag(i) \/ EndDrag(i)
  PROVE  Inv'
<1>1. /\ UNCHANGED emacs /\ UNCHANGED <<req, answer, pipeThread, request, post, table, placed, exist, changes, deletions>>
      /\ events' = Append(events, [id |-> i, bar |-> table[i], frame |-> FrameOf[win[table[i]]]])
      /\ clicks' = clicks + 1
  BY DEF Click, StartDrag, EndDrag, SendClick
<1>2. /\ EmacsTypes' /\ Stages' /\ Lists' /\ Fresh' /\ Owned' = Owned /\ UNCHANGED <<at, made, win, id, want, place>>
      /\ Types /\ EmacsTypes /\ PipeTypes /\ ScreenTypes
  BY <1>1, Alone
<1>3. i \in Ids /\ table[i] \in Bars /\ table[i] # Nil /\ win[table[i]] \in Windows /\ id[table[i]] = i
  BY <1>2, NilIsNoBar DEF UsedIds, ScreenTypes, Inv, Table
<1>4. PICK e \in Events : events' = Append(events, e) /\ id[e.bar] = e.id
  <2>1. [id |-> i, bar |-> table[i], frame |-> FrameOf[win[table[i]]]] \in Events
    BY <1>3, FrameOfAssumption DEF Events
  <2>2. QED BY <2>1, <1>1, <1>3
<1>5. /\ events' \in Seq(Events) /\ events'[Len(events) + 1] = e
      /\ \A k \in 1 .. Len(events) : events'[k] = events[k]
      /\ \A k \in 1 .. Len(events') : k \in 1 .. Len(events) \/ k = Len(events) + 1
  BY <1>2, <1>4, AppendOf DEF PipeTypes
<1>6. /\ shown' \in [Bars -> Values \cup {NoValue}] /\ async' \in [Ids -> Values \cup {NoValue}]
      /\ drag' \in BOOLEAN /\ dragged' \in Links /\ drags' \in Nat /\ (drags' = 0 => drags = 0 /\ (~drag => ~drag' /\ shown' = shown))
  <2>1. async[i] \in Values \cup {NoValue}
    BY <1>2, <1>3 DEF ScreenTypes
  <2>2. CASE Click(i)
    BY <2>1, <2>2, <1>2, <1>3 DEF Click, ScreenTypes, Links, Nil
  <2>3. CASE StartDrag(i)
    BY <2>1, <2>3, <1>2, <1>3 DEF StartDrag, ScreenTypes, Links
  <2>4. CASE EndDrag(i)
    BY <2>1, <2>4, <1>2, <1>3 DEF EndDrag, ScreenTypes, Links, Nil
  <2>5. QED BY <2>2, <2>3, <2>4
<1>7. Types'
  <2>1. PipeTypes'
    BY <1>1, <1>2, <1>5 DEF PipeTypes
  <2>2. ScreenTypes'
    BY <1>1, <1>2, <1>6 DEF ScreenTypes
  <2>3. QED BY <1>2, <2>1, <2>2 DEF Types
<1>8. drags' = 0 => drags = 0 /\ ~drag /\ ~drag' /\ shown' = shown
  BY <1>6 DEF Inv, Synced
<1>9. Creating'
  BY <1>1, <1>2, <1>8 DEF Inv, Creating, NoCreate, Asks, Unborn, Born
<1>10. Table' /\ Named' /\ Deleting'
  BY <1>1, <1>2 DEF Inv, Table, Named, Deleting
<1>11. Destroying'
  BY <1>1, <1>2 DEF Inv, Destroying, Destroys, Condemns
<1>12. Told'
  BY <1>2, <1>4, <1>5 DEF Inv, Told
<1>13. Synced'
  BY <1>1, <1>2, <1>8 DEF Inv, Synced, Follows
<1>14. QED BY <1>2, <1>7, <1>9, <1>10, <1>11, <1>12, <1>13 DEF Inv

-----------------------------------------------------------------------------
(* Inv is kept by every step. *)
LEMMA NextInv == Inv /\ [Next]_vars => Inv'
<1> SUFFICES ASSUME Inv, [Next]_vars PROVE Inv'
  OBVIOUS
<1>1. CASE UNCHANGED vars
  <2>1. UNCHANGED emacs /\ UNCHANGED <<req, answer, events, pipeThread, request, post, drag, dragged>>
        /\ UNCHANGED <<table, async, shown, placed, exist, changes, clicks, drags, deletions>>
    BY <1>1 DEF vars, pipes, pmemacs, screen, dragging, bounds
  <2>2. /\ EmacsTypes' /\ Stages' /\ Lists' /\ Fresh' /\ Owned' = Owned
        /\ UNCHANGED <<at, made, win, id, want, place>> /\ Types
    BY <2>1, Alone
  <2>3. Types'
    BY <2>1, <2>2 DEF Types, PipeTypes, ScreenTypes
  <2>4. Creating'
    BY <2>1, <2>2 DEF Inv, Creating, NoCreate, Asks, Unborn, Born
  <2>5. Table' /\ Named' /\ Deleting' /\ Told'
    BY <2>1, <2>2 DEF Inv, Table, Named, Deleting, Told
  <2>6. Destroying'
    BY <2>1, <2>2 DEF Inv, Destroying, Destroys, Condemns
  <2>7. Synced'
    BY <2>1, <2>2 DEF Inv, Synced, Follows
  <2>8. QED BY <2>2, <2>3, <2>4, <2>5, <2>6, <2>7 DEF Inv
<1>2. ASSUME NEW w \in Windows, DeleteWindow(w) \/ ShowWindow(w) \/ RedisplayOne(w) PROVE Inv'
  BY <1>2, WindowSteps
<1>3. ASSUME NEW w \in Windows, NEW v \in Values, NEW p \in Places, UpdateBar(w, v, p) PROVE Inv'
  BY <1>3, UpdateStep
<1>4. ASSUME NEW w \in Windows, NEW v \in Values, NEW p \in Places, CreateBar(w, v, p) PROVE Inv'
  BY <1>4, CreateStep
<1>5. ASSUME NEW f \in Frames, DeleteFrame(f) PROVE Inv'
  BY <1>5, DeleteFrameStep
<1>6. ASSUME NEW f \in Frames, Condemn(f) PROVE Inv'
  BY <1>6, CondemnStep
<1>7. ASSUME BarCreated \/ Judge \/ RedisplayedOne \/ HandleEvent PROVE Inv'
  BY <1>7, CreatedStep, JudgeStep, RedisplayedStep, HandleStep
<1>8. ASSUME PostRequest \/ TestDragging \/ Defer \/ SetBar \/ DestroyFrame PROVE Inv'
  BY <1>8, PostStep, TestStep, DeferStep, SetStep, DestroyFrameStep
<1>9. ASSUME CreateWindow \/ DestroyWindow PROVE Inv'
  BY <1>9, CreateWindowStep, DestroyWindowStep
<1>10. ASSUME NEW i \in UsedIds, Click(i) \/ StartDrag(i) \/ EndDrag(i) PROVE Inv'
  BY <1>10, MouseStep
<1>11. QED
  BY <1>1, <1>2, <1>3, <1>4, <1>5, <1>6, <1>7, <1>8, <1>9, <1>10 DEF Next

(* The inductive invariant holds in every reachable state. *)
THEOREM Invariance == Spec => []Inv
  BY InitInv, NextInv, PTL DEF Spec

(* What Inv says of the bars on the lists. *)
LEMMA Listing ==
  ASSUME Inv, NEW f \in Frames
  PROVE  Listed(f) = OwnedIn(f) /\ \A b \in Listed(f) : b \in Owned /\ id[b] \in Ids /\ table[id[b]] = b
<1>1. EmacsTypes /\ Lists
  BY DEF Inv, Types
<1>2. PICK L \in SUBSET Bars, D \in SUBSET Bars : Split(f, L, D)
  BY <1>1 DEF Lists
<1>3. Listed(f) = OwnedIn(f)
  BY <1>2, SplitSound
<1>4. OwnedIn(f) \subseteq Owned
  BY <1>1, OwnedInFrames
<1>5. QED BY <1>3, <1>4 DEF Inv, Named

(* The lists, links, ids, the table and the two threads have their types. *)
THEOREM TypeCorrect == Spec => []TypeOK
<1>1. Inv => TypeOK
  BY DEF Inv, Types, EmacsTypes, ScreenTypes, TypeOK, Links
<1>2. QED BY <1>1, Invariance, PTL

(* Through every order of redisplays, both lists of a frame are linked in    *)
(* both directions, without cycles and disjoint, and hold exactly the bars   *)
(* of its windows (PM_redeem_scroll_bar, PM_judge_scroll_bars).              *)
THEOREM ListsStaySound == Spec => []ListsSound
<1>1. ASSUME Inv PROVE ListsSound
  <2>1. EmacsTypes /\ Lists
    BY <1>1 DEF Inv, Types
  <2> SUFFICES ASSUME NEW f \in Frames
               PROVE  /\ Elements(Chain(bars[f])) \cap Elements(Chain(condemned[f])) = {}
                      /\ \A c \in {Chain(bars[f]), Chain(condemned[f])} :
                           /\ \A i, j \in DOMAIN c : i # j => c[i] # c[j]
                           /\ \A i \in DOMAIN c : prev[c[i]] = IF i = 1 THEN Nil ELSE c[i - 1]
                      /\ Listed(f) = {barOf[w] : w \in {x \in Windows : FrameOf[x] = f /\ barOf[x] # Nil}}
                      /\ \A w \in Windows : FrameOf[w] = f /\ barOf[w] # Nil => win[barOf[w]] = w
    BY DEF ListsSound
  <2>2. PICK L \in SUBSET Bars, D \in SUBSET Bars : Split(f, L, D)
    BY <2>1 DEF Lists
  <2>3. /\ Elements(Chain(bars[f])) = L /\ Elements(Chain(condemned[f])) = D /\ Listed(f) = OwnedIn(f)
        /\ \A c \in {Chain(bars[f]), Chain(condemned[f])} :
             /\ \A i, j \in DOMAIN c : i # j => c[i] # c[j]
             /\ \A i \in DOMAIN c : prev[c[i]] = IF i = 1 THEN Nil ELSE c[i - 1]
    BY <2>2, SplitSound
  <2>4. L \cap D = {}
    BY <2>2 DEF Split
  <2>5. \A w \in Windows : FrameOf[w] = f /\ barOf[w] # Nil => win[barOf[w]] = w
    BY <2>1 DEF Lists, Owners
  <2>6. Listed(f) = {barOf[w] : w \in {x \in Windows : FrameOf[x] = f /\ barOf[x] # Nil}}
    BY <2>3 DEF OwnedIn
  <2>7. QED BY <2>3, <2>4, <2>5, <2>6, Zenon
<1>2. QED BY <1>1, Invariance, PTL

(* The id Emacs has for a bar is that of the bar's own PM window, although   *)
(* pmemacs destroys windows later than it updates them and gives ids again.  *)
THEOREM IdsStayAgreed == Spec => []IdsAgree
<1>1. ASSUME Inv PROVE IdsAgree
  BY <1>1, Listing DEF IdsAgree
<1>2. QED BY <1>1, Invariance, PTL

(* Without drags, when no request is under way every bar shows the slider    *)
(* and has the place Emacs asked for last.                                   *)
THEOREM StaysInSync == Spec => []InSync
<1>1. ASSUME Inv PROVE InSync
  <2> SUFFICES ASSUME Quiet, drags = 0, NEW f \in Frames, NEW b \in Listed(f)
               PROVE  shown[b] = want[b] /\ placed[b] = place[b]
    BY DEF InSync
  <2>1. b \in Owned
    BY <1>1, Listing
  <2>2. /\ FollowsIn(req, pipeThread, request, "update", id[b], want[b], shown[b])
        /\ FollowsIn(req, pipeThread, request, "move", id[b], place[b], placed[b])
    BY <1>1, <2>1 DEF Inv, Synced, Follows
  <2>3. req = <<>> /\ pipeThread = "idle"
    BY DEF Quiet
  <2>4. QED BY <2>2, <2>3 DEF FollowsIn, Asked
<1>2. QED BY <1>1, Invariance, PTL

(* find_scroll_bar_window takes an event of a bar that still exists for one  *)
(* in that bar's window: no other bar of the frame has the event's id.       *)
THEOREM EventsFindTheirBar == Spec => LiveBarGetsItsEvents
<1> DEFINE A == handled' # handled =>
       LET e == Head(handled') IN e.bar \in Listed(Head(events).frame) => e.win = win[e.bar]
<1>1. ASSUME Inv, HandleEvent PROVE A
  <2>1. PICK e : e = Head(events)
    OBVIOUS
  <2>2. events \in Seq(Events) /\ events # <<>>
    BY <1>1 DEF HandleEvent, Inv, Types, PipeTypes
  <2>3. e \in Events /\ e = events[1] /\ 1 \in 1 .. Len(events)
    BY <2>1, <2>2, TailOf
  <2>4. id[e.bar] = e.id /\ e.frame \in Frames
    BY <1>1, <2>3 DEF Inv, Told, Events
  <2>5. handled' = <<[bar |-> e.bar, win |-> IF Found(e.frame, e.id) = {} THEN Nil
                                             ELSE win[CHOOSE b \in Found(e.frame, e.id) : TRUE]]>>
    BY <1>1, <2>1 DEF HandleEvent
  <2>6. ASSUME e.bar \in Listed(e.frame) PROVE Found(e.frame, e.id) = {e.bar}
    BY <1>1, <2>4, <2>6, Listing DEF Found
  <2>7. Head(handled').bar = e.bar
    BY <2>5
  <2>8. ASSUME e.bar \in Listed(e.frame) PROVE Head(handled').win = win[e.bar]
    <3>1. (CHOOSE b \in {e.bar} : TRUE) = e.bar
      OBVIOUS
    <3>2. QED BY <3>1, <2>5, <2>6, <2>8
  <2>9. QED BY <2>1, <2>7, <2>8
<1>2. ASSUME [Next]_vars, ~HandleEvent PROVE handled' = handled
  <2>1. CASE UNCHANGED vars
    BY <2>1 DEF vars, emacs
  <2>2. ASSUME NEW w \in Windows, DeleteWindow(w) \/ ShowWindow(w) \/ RedisplayOne(w) PROVE handled' = handled
    BY <2>2 DEF DeleteWindow, ShowWindow, RedisplayOne
  <2>3. ASSUME NEW w \in Windows, NEW v \in Values, NEW p \in Places, UpdateBar(w, v, p) \/ CreateBar(w, v, p)
        PROVE  handled' = handled
    BY <2>3 DEF UpdateBar, CreateBar
  <2>4. ASSUME NEW f \in Frames, DeleteFrame(f) \/ Condemn(f) PROVE handled' = handled
    BY <2>4 DEF DeleteFrame, Condemn
  <2>5. ASSUME BarCreated \/ Judge \/ RedisplayedOne PROVE handled' = handled
    BY <2>5 DEF BarCreated, Judge, RedisplayedOne
  <2>6. ASSUME PostRequest \/ TestDragging \/ Defer \/ SetBar \/ DestroyFrame PROVE handled' = handled
    BY <2>6 DEF PostRequest, TestDragging, Defer, SetBar, DestroyFrame, emacs
  <2>7. ASSUME CreateWindow \/ DestroyWindow PROVE handled' = handled
    BY <2>7 DEF CreateWindow, DestroyWindow, emacs
  <2>8. ASSUME NEW i \in UsedIds, Click(i) \/ StartDrag(i) \/ EndDrag(i) PROVE handled' = handled
    BY <2>8 DEF Click, StartDrag, EndDrag, emacs
  <2>9. QED BY <1>2, <2>1, <2>2, <2>3, <2>4, <2>5, <2>6, <2>7, <2>8 DEF Next
<1>3. Inv /\ [Next]_vars => [A]_vars
  BY <1>1, <1>2
<1>4. QED BY <1>3, Invariance, PTL DEF Spec, LiveBarGetsItsEvents

-----------------------------------------------------------------------------
(* No id is lost, as long as no frame is deleted: whatever is under way about *)
(* an id stays under way, or Emacs gets to know of it.                        *)
LEMMA RoomKept ==
  ASSUME Room, Extended(req, req'), UNCHANGED <<table, answer, post>>, at' # "aborted",
         at = "await" => at' = "await",
         \A i \in Ids : table[i] \in Owned => table[i] \in Owned' \/ \E k \in 1 .. Len(req') : Destroys(req', k, i)
  PROVE  Room'
<1>1. /\ \A k \in 1 .. Len(req) : k \in 1 .. Len(req') /\ req'[k] = req[k]
      /\ \A k \in 1 .. Len(req') : k \in 1 .. Len(req) \/ req'[k].op # "delete"
  BY DEF Extended
<1>2. ASSUME NEW i \in Ids, Accounted(i) PROVE Accounted(i)'
  <2>1. (\E k \in 1 .. Len(req) : Destroys(req, k, i)) => \E k \in 1 .. Len(req') : Destroys(req', k, i)
    BY <1>1 DEF Destroys
  <2>2. QED BY <1>2, <2>1 DEF Accounted
<1>3. \A i \in Ids : table'[i] # Nil => Accounted(i)'
  BY <1>2 DEF Room
<1>4. \A k \in 1 .. Len(req') : req'[k].op # "delete"
  BY <1>1 DEF Room
<1>5. QED BY <1>3, <1>4 DEF Room, NeverAborts

(* Nothing is sent by most steps. *)
LEMMA RoomUnsent ==
  ASSUME Inv, Room, UNCHANGED <<barOf, req, table, answer, post>>, at' # "aborted", at = "await" => at' = "await"
  PROVE  Room'
<1>1. Extended(req, req')
  BY DEF Inv, Types, PipeTypes, Extended
<1>2. Owned' = Owned
  BY DEF Owned
<1>3. QED BY <1>1, <1>2, RoomKept

(* The steps of redisplay before a bar's creation is answered. *)
LEMMA RoomCreate ==
  ASSUME Inv, Room, NEW w \in Windows, NEW v \in Values, NEW p \in Places, CreateBar(w, v, p)
  PROVE  Room'
<1>1. /\ req \in Seq(Requests) /\ made < MaxBars /\ made \in Nat /\ Owned' = Owned /\ at = "redisplay"
      /\ UNCHANGED <<table, answer, post>> /\ at' = "await"
  BY BoundAssumption DEF Inv, Types, EmacsTypes, PipeTypes, CreateBar, pmemacs, screen, Owned
<1>2. PICK r : r = [op |-> "create", bar |-> made + 1, to |-> v, at |-> p]
  OBVIOUS
<1>3. r \in Requests /\ r.op = "create" /\ req' = Append(req, r)
  BY <1>1, <1>2, BoundAssumption DEF CreateBar, Requests, Bars
<1>4. Extended(req, req')
  BY <1>1, <1>3, AppendOf DEF Extended
<1>5. QED BY <1>1, <1>4, RoomKept

(* The bar that has the answered id becomes its window's. *)
LEMMA RoomCreated == ASSUME Inv, Room, BarCreated PROVE Room'
<1>1. /\ Types /\ at = "await" /\ answer # <<>> /\ answer # <<NoId>> /\ answer' = <<>>
      /\ window \in Windows /\ made \in Bars
  BY BoundAssumption DEF Inv, Types, EmacsTypes, Stages, Bars, Room, BarCreated
<1>2. PICK i \in Ids : answer = <<i>>
  BY <1>1 DEF Types, PipeTypes
<1>3. answer[1] = i /\ i # NoId
  BY <1>1, <1>2
<1>4. at' = "redisplay" /\ barOf' = [barOf EXCEPT ![window] = made] /\ UNCHANGED <<req, table, post>>
  BY <1>1, <1>3 DEF BarCreated, pmemacs, screen
<1>5. table[i] = made
  BY <1>1, <1>3 DEF Inv, Creating, Born
<1>6. barOf[window] = Nil /\ made # Nil /\ barOf' = [barOf EXCEPT ![window] = made]
      /\ barOf \in [Windows -> Links]
  BY <1>1, <1>4 DEF Inv, Stages, Nil, Types, EmacsTypes
<1>7. Owned' = Owned \cup {made}
  BY <1>1, <1>6 DEF Owned
<1>8. ASSUME NEW j \in Ids, Accounted(j) PROVE Accounted(j)'
  <2>1. CASE answer = <<j>>
    <3>1. j = i
      BY <2>1, <1>2
    <3>2. QED BY <3>1, <1>4, <1>5, <1>7 DEF Accounted
  <2>2. CASE answer # <<j>>
    BY <2>2, <1>8, <1>4, <1>7 DEF Accounted, Destroys
  <2>3. QED BY <2>1, <2>2
<1>9. QED BY <1>1, <1>4, <1>8 DEF Room, NeverAborts

(* A destruction goes from the pipe to the queue of the PM thread. *)
LEMMA RoomPosted == ASSUME Inv, Room, PostRequest PROVE Room'
<1>0. PICK r : r = Head(req)
  OBVIOUS
<1>1. /\ UNCHANGED <<at, answer, table, barOf>> /\ req # <<>> /\ req' = Tail(req) /\ post' = Append(post, r)
  BY <1>0 DEF PostRequest, Take, screen, emacs, redisplay
<1>2. req \in Seq(Requests) /\ post \in Seq(Requests) /\ Owned' = Owned
  BY <1>1 DEF Inv, Types, PipeTypes, ScreenTypes, Owned
<1>3. /\ r \in Requests /\ r = req[1] /\ Len(req) \in Nat \ {0} /\ Len(req') = Len(req) - 1
      /\ \A k \in 1 .. Len(req') : k + 1 \in 1 .. Len(req) /\ req'[k] = req[k + 1]
  BY <1>0, <1>1, <1>2, TailOf
<1>4. /\ Len(post) \in Nat /\ Len(post') = Len(post) + 1 /\ post'[Len(post) + 1] = r
      /\ \A k \in 1 .. Len(post) : post'[k] = post[k]
  BY <1>1, <1>2, <1>3, AppendOf
<1>5. ASSUME NEW i \in Ids, Accounted(i) PROVE Accounted(i)'
  <2>1. ASSUME NEW k \in 1 .. Len(post), Destroys(post, k, i) PROVE Accounted(i)'
    BY <2>1, <1>4 DEF Accounted, Destroys
  <2>2. ASSUME NEW k \in 1 .. Len(req), Destroys(req, k, i) PROVE Accounted(i)'
    <3>1. CASE k = 1
      <4>1. Len(post) + 1 \in 1 .. Len(post') /\ Destroys(post', Len(post) + 1, i)
        BY <3>1, <2>2, <1>3, <1>4 DEF Destroys
      <4>2. QED BY <4>1 DEF Accounted
    <3>2. CASE k # 1
      <4>1. k - 1 \in 1 .. Len(req') /\ req'[k - 1] = req[k]
        BY <3>2, <1>3
      <4>2. QED BY <4>1, <2>2 DEF Accounted, Destroys
    <3>3. QED BY <3>1, <3>2
  <2>3. QED BY <2>1, <2>2, <1>1, <1>2, <1>5 DEF Accounted
<1>6. QED BY <1>1, <1>3, <1>5 DEF Room, NeverAborts

(* An update or a move that is taken accounts for no id. *)
LEMMA RoomTested == ASSUME Inv, Room, TestDragging PROVE Room'
<1>1. /\ UNCHANGED <<at, answer, table, barOf, post>> /\ req # <<>> /\ req' = Tail(req)
      /\ Head(req).op \in {"update", "move"}
  BY DEF TestDragging, Take, screen, emacs, redisplay
<1>2. req \in Seq(Requests) /\ Owned' = Owned
  BY <1>1 DEF Inv, Types, PipeTypes, Owned
<1>3. /\ Head(req) = req[1] /\ Len(req) \in Nat \ {0} /\ Len(req') = Len(req) - 1
      /\ \A k \in 1 .. Len(req') : k + 1 \in 1 .. Len(req) /\ req'[k] = req[k + 1]
  BY <1>1, <1>2, TailOf
<1>4. ASSUME NEW i \in Ids, Accounted(i) PROVE Accounted(i)'
  <2>1. ASSUME NEW k \in 1 .. Len(req), Destroys(req, k, i) PROVE Accounted(i)'
    <3>1. k # 1
      BY <2>1, <1>1, <1>3 DEF Destroys
    <3>2. k - 1 \in 1 .. Len(req') /\ req'[k - 1] = req[k]
      BY <3>1, <1>3
    <3>3. QED BY <3>2, <2>1 DEF Accounted, Destroys
  <2>2. QED BY <2>1, <1>1, <1>2, <1>4 DEF Accounted
<1>5. QED BY <1>1, <1>3, <1>4 DEF Room, NeverAborts

(* destroy_scrollbar: the id it gives back is free. *)
LEMMA RoomDestroyed == ASSUME Inv, Room, DestroyWindow PROVE Room'
<1>0. PICK i : i = Head(post).id
  OBVIOUS
<1>1. /\ UNCHANGED <<at, answer, req, barOf>> /\ post # <<>> /\ post' = Tail(post)
      /\ table' = [table EXCEPT ![i] = Nil] /\ Head(post).op = "destroy"
  BY <1>0 DEF DestroyWindow, pipes, emacs, redisplay
<1>2. post \in Seq(Requests) /\ table \in [Ids -> Links] /\ Owned' = Owned
  BY <1>1 DEF Inv, Types, ScreenTypes, Owned
<1>3. /\ Head(post) = post[1] /\ Len(post) \in Nat \ {0} /\ Len(post') = Len(post) - 1
      /\ \A k \in 1 .. Len(post') : k + 1 \in 1 .. Len(post) /\ post'[k] = post[k + 1]
  BY <1>1, <1>2, TailOf
<1>4. ASSUME NEW j \in Ids, table'[j] # Nil PROVE j # i /\ table'[j] = table[j]
  BY <1>1, <1>2, <1>4
<1>5. ASSUME NEW j \in Ids, table'[j] # Nil, Accounted(j) PROVE Accounted(j)'
  <2>1. ASSUME NEW k \in 1 .. Len(post), Destroys(post, k, j) PROVE Accounted(j)'
    <3>1. k # 1
      BY <2>1, <1>0, <1>3, <1>4, <1>5 DEF Destroys
    <3>2. k - 1 \in 1 .. Len(post') /\ post'[k - 1] = post[k]
      BY <3>1, <1>3
    <3>3. QED BY <3>2, <2>1 DEF Accounted, Destroys
  <2>2. QED BY <2>1, <1>1, <1>2, <1>4, <1>5 DEF Accounted
<1>6. QED BY <1>1, <1>4, <1>5 DEF Room, NeverAborts

(* Enough ids: with all of them used by bars of windows, each by another      *)
(* window, there would be more windows than the one without a bar leaves.    *)
LEMMA Enough ==
  ASSUME Inv, IsFiniteSet(Windows), Cardinality(Windows) <= MaxIds, NEW w \in Windows, barOf[w] = Nil,
         \A i \in Ids : table[i] \in Owned
  PROVE  FALSE
<1>1. /\ \A b \in Owned : win[b] \in Windows /\ barOf[win[b]] = b
      /\ \A i \in Ids : table[i] # Nil
      /\ \A i, j \in Ids : table[i] = table[j] => i = j
  BY OwnedInFrames, NilIsNoBar DEF Inv, Types, Table
<1>2. PICK g : g = [i \in Ids |-> win[table[i]]]
  OBVIOUS
<1>3. PICK T : T = Windows \ {w}
  OBVIOUS
<1>4. g \in [Ids -> T] /\ \A i, j \in Ids : g[i] = g[j] => i = j
  <2>1. ASSUME NEW i \in Ids PROVE g[i] = win[table[i]] /\ g[i] \in Windows /\ barOf[g[i]] = table[i] /\ g[i] # w
    BY <1>1, <1>2
  <2>2. g \in [Ids -> T]
    BY <2>1, <1>2, <1>3
  <2>3. \A i, j \in Ids : g[i] = g[j] => table[i] = table[j]
    BY <2>1
  <2>4. QED BY <2>2, <2>3, <1>1
<1>5. IsFiniteSet(T) /\ Cardinality(T) = Cardinality(Windows) - 1
  BY <1>3, FS_RemoveElement
<1>6. IsFiniteSet(Ids) /\ Cardinality(Ids) = MaxIds
  BY FS_Interval, BoundAssumption DEF Ids
<1>7. Cardinality(Windows) \in Nat
  BY FS_CardinalityType
<1>8. Cardinality(T) < Cardinality(Ids)
  BY <1>5, <1>6, <1>7, BoundAssumption
<1>9. QED BY <1>4, <1>5, <1>6, <1>8, FS_PigeonHole

(* create_scrollbar finds a free id: when Emacs waits for a new bar it has    *)
(* sent nothing else, so that no id is being destroyed.                      *)
LEMMA RoomMade ==
  ASSUME Inv, Room, IsFiniteSet(Windows), Cardinality(Windows) <= MaxIds, CreateWindow
  PROVE  Room'
<1>0. PICK r : r = Head(post)
  OBVIOUS
<1>1. /\ UNCHANGED <<at, made, req, barOf>> /\ post # <<>> /\ r.op = "create" /\ post' = Tail(post)
  BY <1>0 DEF CreateWindow, emacs, redisplay, barVars
<1>2. post \in Seq(Requests) /\ table \in [Ids -> Links] /\ Owned' = Owned /\ (window \in Windows \/ at # "await")
  BY <1>1 DEF Inv, Types, EmacsTypes, ScreenTypes, Owned, Stages
<1>3. r = post[1] /\ Len(post) \in Nat \ {0} /\ 1 \in 1 .. Len(post)
  BY <1>0, <1>1, TailOf DEF Inv, Types, ScreenTypes
<1>4. at = "await" /\ answer = <<>> /\ req = <<>> /\ Asks(post)
  BY <1>1, <1>3 DEF Inv, Creating, NoCreate
<1>5. Len(post) = 1
  <2>1. NoCreate(post, Len(post) - 1)
    BY <1>4 DEF Asks
  <2>2. PICK n \in Nat \ {0} : n = Len(post)
    BY <1>3
  <2>3. ASSUME n # 1 PROVE FALSE
    <3>1. 1 \in 1 .. n - 1
      BY <2>3
    <3>2. QED BY <3>1, <2>1, <2>2, <1>1, <1>3 DEF NoCreate
  <2>4. QED BY <2>2, <2>3
<1>6. /\ window \in Windows /\ barOf[window] = Nil /\ table \in [Ids -> Links] /\ Owned' = Owned
      /\ 1 .. Len(req) = {} /\ \A k \in 1 .. Len(post) : post[k].op = "create"
  <2>1. Len(<<>>) = 0 /\ 1 .. 0 = {}
    OBVIOUS
  <2>2. \A k \in 1 .. Len(post) : k = 1
    BY <1>5
  <2>3. QED BY <2>1, <2>2, <1>1, <1>2, <1>3, <1>4 DEF Inv, Stages, Types, EmacsTypes
<1>7. \A i \in Ids : table[i] # Nil => table[i] \in Owned
  BY <1>4, <1>6 DEF Room, Accounted, Destroys
<1>8. FreeIds # {}
  <2>1. ASSUME FreeIds = {} PROVE FALSE
    <3>1. \A i \in Ids : table[i] \in Owned
      BY <2>1, <1>7 DEF FreeIds
    <3>2. PICK w \in Windows : w = window /\ barOf[w] = Nil
      BY <1>6
    <3>3. QED BY <3>1, <3>2, Enough
  <2>2. QED BY <2>1
<1>9. PICK i \in Ids : /\ answer' = <<i>> /\ table' = [table EXCEPT ![i] = r.bar]
  <2> DEFINE n == CHOOSE i \in FreeIds : \A j \in FreeIds : i <= j
  <2>1. \E m \in FreeIds : \A j \in FreeIds : m <= j
    <3>1. FreeIds \in SUBSET Nat
      BY BoundAssumption DEF FreeIds, Ids
    <3>2. QED BY <3>1, <1>8, LeastNumber
  <2>2. n \in FreeIds
    BY <2>1
  <2>3. answer' = <<n>> /\ table' = [table EXCEPT ![n] = r.bar]
    BY <1>0, <1>8 DEF CreateWindow
  <2> HIDE DEF n
  <2>4. n \in Ids
    BY <2>2 DEF FreeIds
  <2>5. QED BY <2>3, <2>4
<1>10. ASSUME NEW j \in Ids, table'[j] # Nil PROVE Accounted(j)'
  <2>1. CASE j = i
    BY <2>1, <1>1, <1>4, <1>9 DEF Accounted
  <2>2. CASE j # i
    BY <2>2, <1>6, <1>7, <1>9, <1>10 DEF Accounted
  <2>3. QED BY <2>1, <2>2
<1>11. answer' # <<NoId>>
  <2>1. i # NoId
    BY BoundAssumption DEF Ids, NoId
  <2>2. QED BY <2>1, <1>9
<1>12. QED BY <1>1, <1>10, <1>11 DEF Room, NeverAborts

(* Room is kept by every step when no frame may be deleted. *)
LEMMA RoomNext ==
  ASSUME MaxFrameDeletions = 0, IsFiniteSet(Windows), Cardinality(Windows) <= MaxIds, Inv, Room, [Next]_vars
  PROVE  Room'
<1>1. CASE UNCHANGED vars
  <2>1. UNCHANGED <<at, barOf, req, table, answer, post>>
    BY <1>1 DEF vars, emacs, redisplay, pipes, pmemacs, screen
  <2>2. QED BY <2>1, RoomUnsent DEF Room, NeverAborts
<1>2. ASSUME NEW w \in Windows, DeleteWindow(w) \/ ShowWindow(w) \/ RedisplayOne(w) PROVE Room'
  <2>1. UNCHANGED <<barOf, req, table, answer, post>> /\ at = "idle" /\ at' # "aborted"
    BY <1>2 DEF DeleteWindow, ShowWindow, RedisplayOne, redisplay, pipes, pmemacs, screen
  <2>2. QED BY <2>1, RoomUnsent
<1>3. ASSUME NEW w \in Windows, NEW v \in Values, NEW p \in Places, UpdateBar(w, v, p) PROVE Room'
  <2>1. UNCHANGED <<barOf, table, answer, post>> /\ at = "redisplay"
    BY <1>3 DEF UpdateBar, pmemacs, screen
  <2>2. at' # "aborted" /\ Extended(req, req') /\ Owned' = Owned
    BY <1>3, <2>1, UpdateStep DEF Owned
  <2>3. QED BY <2>1, <2>2, RoomKept
<1>4. ASSUME NEW w \in Windows, NEW v \in Values, NEW p \in Places, CreateBar(w, v, p) PROVE Room'
  BY <1>4, RoomCreate
<1>5. ASSUME NEW f \in Frames, DeleteFrame(f) PROVE Room'
  <2>1. deletions \in Nat /\ deletions < 0
    BY <1>5 DEF DeleteFrame, Inv, Types, ScreenTypes
  <2>2. QED BY <2>1
<1>6. ASSUME NEW f \in Frames, Condemn(f) PROVE Room'
  <2>1. UNCHANGED <<barOf, req, table, answer, post>> /\ at = "idle"
    BY <1>6 DEF Condemn, pipes, pmemacs, screen
  <2>2. QED BY <1>6, <2>1, CondemnStep, RoomUnsent
<1>7. CASE Judge
  <2>1. UNCHANGED <<table, answer, post>> /\ at = "redisplay" /\ at' = "idle"
    BY <1>7 DEF Judge, pmemacs, screen
  <2>2. QED BY <1>7, <2>1, JudgeStep, RoomKept
<1>8. CASE RedisplayedOne \/ HandleEvent
  <2>1. UNCHANGED <<barOf, req, table, answer, post>> /\ at' \in {"idle", at} /\ at # "await"
    BY <1>8 DEF RedisplayedOne, HandleEvent, redisplay, pipes, pmemacs, screen
  <2>2. QED BY <2>1, RoomUnsent DEF Room, NeverAborts
<1>9. CASE Defer \/ SetBar
  <2>1. UNCHANGED <<at, barOf, req, table, answer, post>>
    BY <1>9 DEF Defer, SetBar, emacs, redisplay, pipes
  <2>2. QED BY <2>1, RoomUnsent DEF Room, NeverAborts
<1>10. CASE DestroyFrame
  <2>1. req # <<>> /\ Head(req).op = "delete" /\ req \in Seq(Requests)
    BY <1>10 DEF DestroyFrame, Take, Inv, Types, PipeTypes
  <2>2. Head(req) = req[1] /\ 1 \in 1 .. Len(req)
    BY <2>1, TailOf
  <2>3. QED BY <2>1, <2>2 DEF Room
<1>11. ASSUME NEW i \in UsedIds, Click(i) \/ StartDrag(i) \/ EndDrag(i) PROVE Room'
  <2>1. UNCHANGED <<at, barOf, req, table, answer, post>>
    BY <1>11 DEF Click, StartDrag, EndDrag, emacs, redisplay
  <2>2. QED BY <2>1, RoomUnsent DEF Room, NeverAborts
<1>12. QED
  BY <1>1, <1>2, <1>3, <1>4, <1>5, <1>6, <1>7, <1>8, <1>9, <1>10, <1>11, RoomCreated, RoomPosted, RoomTested,
     RoomMade, RoomDestroyed DEF Next

(* Emacs never aborts while it has no more windows than pmemacs has ids and   *)
(* no frame is deleted: pm_scroll_bar_create always gets an id, and condemn,  *)
(* redeem and judge never find the lists as they do not expect.               *)
THEOREM KeepsRunning ==
  ASSUME MaxFrameDeletions = 0, IsFiniteSet(Windows), Cardinality(Windows) <= MaxIds
  PROVE  Spec => []NeverAborts
<1>1. Init => Room
  <2> SUFFICES ASSUME Init PROVE Room
    OBVIOUS
  <2>1. req = <<>> /\ at = "idle" /\ answer = <<>> /\ \A i \in Ids : table[i] = Nil
    BY DEF Init
  <2>2. 1 .. Len(req) = {}
    BY <2>1
  <2>3. QED BY <2>1, <2>2 DEF Room, NeverAborts
<1>2. Inv /\ Room /\ [Next]_vars => Room'
  BY RoomNext
<1>3. Room => NeverAborts
  BY DEF Room
<1>4. QED BY <1>1, <1>2, <1>3, InitInv, NextInv, PTL DEF Spec
=============================================================================
