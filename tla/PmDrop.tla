------------------------------- MODULE PmDrop -------------------------------
(***************************************************************************)
(* Drag and drop in pmemacs.c.  The PM thread stores a dropped object in   *)
(* the circular buffer drop_list, under drop_mutex, and sends Emacs a      *)
(* button event with the object's cookie (send_drop).  Emacs answers the   *)
(* event with pm-get-drop, which the pipe thread serves from the buffer    *)
(* (get_drop).  The PM thread tests drop_count without the mutex.          *)
(***************************************************************************)
EXTENDS Integers, Sequences

CONSTANTS
  DropMax,    \* DROP_MAX
  MaxItems,   \* bound: items in one drag operation
  MaxDrops,   \* bound: objects stored
  MaxColors,  \* bound: colors dropped
  MaxAsks     \* bound: calls of pm-get-drop

ASSUME DropMaxAssumption == DropMax \in Nat \ {0}
ASSUME DropBoundAssumption == MaxItems \in Nat \ {0} /\ MaxDrops \in Nat /\ MaxColors \in Nat
                          /\ MaxAsks \in Nat

VARIABLES
  list,    \* drop_list: in each slot the cookie of the object there, or None
  in,      \* drop_in
  out,     \* drop_out
  count,   \* drop_count
  cookie,  \* drop_cookie
  mutex,   \* who holds drop_mutex
  pm,      \* where the PM thread is
  items,   \* items left in drag_drop's loop
  colors,  \* history: colors dropped so far
  gd,      \* where the pipe thread is
  wanted,  \* get_drop's argument
  found,   \* d: the object found, None if d was never assigned
  events,  \* drop events sent and not yet handled by Emacs, oldest first
  emacs,   \* the cookie Emacs has asked for and awaits, or None
  answer,  \* the object get_drop answered last: its cookie, None or Junk
  newest,  \* history: the greatest cookie that has been answered
  asks     \* history: calls of pm-get-drop

dropRing == <<list, in, out, count, cookie>>
pmVars == <<pm, items, colors>>
gdVars == <<gd, wanted, found>>
emacsVars == <<events, emacs, answer, newest, asks>>
dropVars == <<dropRing, mutex, pmVars, gdVars, emacsVars>>

None == -1
Junk == -2   \* the uninitialised length of a local struct drop
DropSlots == 0 .. DropMax - 1

DropInit ==
  /\ list = [s \in DropSlots |-> None]
  /\ in = 0 /\ out = 0 /\ count = 0 /\ cookie = 0
  /\ mutex = "free"
  /\ pm = "idle" /\ items = 0 /\ colors = 0
  /\ gd = "idle" /\ wanted = None /\ found = None
  /\ events = <<>> /\ emacs = None /\ newest = None /\ asks = 0
  /\ answer = None

(* Variant: the index is not wrapped. *)
FollowingUnwrapped(s) == s + 1

Following(s) == IF s + 1 = DropMax THEN 0 ELSE s + 1

-----------------------------------------------------------------------------
(* The PM thread *)

(* drag_over accepts the items if the buffer has room for all of them; they  *)
(* are dropped later, when other messages may have been handled.             *)
DragOver(n) ==
  /\ pm = "idle" /\ items = 0
  /\ n <= DropMax - count
  /\ items' = n
  /\ UNCHANGED <<dropRing, mutex, pm, colors, gdVars, emacsVars>>

(* drag_drop's loop, one item: the name may be too long to be sent. *)
DropItem ==
  /\ pm = "idle" /\ items > 0
  /\ count < DropMax
  /\ cookie < MaxDrops
  /\ items' = items - 1
  /\ pm' \in {"store", "idle"}
  /\ UNCHANGED <<dropRing, mutex, colors, gdVars, emacsVars>>

(* The loop ends early when the buffer is full, or the drag is abandoned. *)
EndDrag ==
  /\ pm = "idle" /\ items > 0
  /\ items' = 0
  /\ UNCHANGED <<dropRing, mutex, pm, colors, gdVars, emacsVars>>

(* drop_color *)
DropColor ==
  /\ pm = "idle"
  /\ colors < MaxColors /\ cookie < MaxDrops
  /\ colors' = colors + 1
  /\ pm' = "store"
  /\ UNCHANGED <<dropRing, mutex, items, gdVars, emacsVars>>

(* send_drop: store the object under the mutex, then send the event.         *)
LockStore ==
  /\ pm = "store" /\ mutex = "free"
  /\ mutex' = "pm"
  /\ pm' = "locked"
  /\ UNCHANGED <<dropRing, items, colors, gdVars, emacsVars>>

(* Variant: drop_in is advanced before the object is stored. *)
StoreAdvancedFirst ==
  /\ pm = "locked"
  /\ list' = [list EXCEPT ![Following(in)] = cookie]
  /\ in' = Following(in)
  /\ count' = count + 1
  /\ mutex' = "free"
  /\ pm' = "send"
  /\ UNCHANGED <<out, cookie, items, colors, gdVars, emacsVars>>

Store ==
  /\ pm = "locked"
  /\ list' = [list EXCEPT ![in] = cookie]
  /\ in' = Following(in)
  /\ count' = count + 1
  /\ mutex' = "free"
  /\ pm' = "send"
  /\ UNCHANGED <<out, cookie, items, colors, gdVars, emacsVars>>

SendEvent ==
  /\ pm = "send"
  /\ events' = Append(events, cookie)
  /\ cookie' = cookie + 1
  /\ pm' = "idle"
  /\ UNCHANGED <<list, in, out, count, mutex, items, colors, gdVars,
                 emacs, answer, newest, asks>>

-----------------------------------------------------------------------------
(* Emacs: handle the drop events in order, ask for the object or ignore it;  *)
(* Lisp may also ask again for an object it has asked for.                   *)
Ask(c) ==
  /\ emacs = None /\ gd = "idle" /\ asks < MaxAsks
  /\ emacs' = c
  /\ asks' = asks + 1
  /\ gd' = "lock" /\ wanted' = c
  /\ UNCHANGED <<dropRing, mutex, pmVars, found, answer, newest>>

AskNext == events # <<>> /\ Ask(Head(events)) /\ events' = Tail(events)

AskAgain == (\E c \in 0 .. newest : Ask(c)) /\ UNCHANGED events

IgnoreEvent ==
  /\ events # <<>> /\ emacs = None
  /\ events' = Tail(events)
  /\ UNCHANGED <<dropRing, mutex, pmVars, gdVars, emacs, answer, newest, asks>>

-----------------------------------------------------------------------------
(* The pipe thread: get_drop *)

LockGet ==
  /\ gd = "lock" /\ mutex = "free"
  /\ mutex' = "gd"
  /\ gd' = "scan"
  /\ found' = None
  /\ UNCHANGED <<dropRing, pmVars, wanted, emacsVars>>

RemoveOldest ==
  /\ out' = Following(out)
  /\ count' = count - 1
  /\ UNCHANGED <<list, in, cookie>>

Found ==
  /\ gd = "scan" /\ count > 0 /\ list[out] = wanted
  /\ found' = list[out]
  /\ RemoveOldest
  /\ mutex' = "free"
  /\ gd' = "answer"
  /\ UNCHANGED <<pmVars, wanted, emacsVars>>

(* Variant: the objects before the one wanted are kept. *)
KeepOlder ==
  /\ gd = "scan" /\ count > 0 /\ list[out] < wanted
  /\ mutex' = "free"
  /\ gd' = "answer"
  /\ UNCHANGED <<dropRing, pmVars, wanted, found, emacsVars>>

SkipOlder ==
  /\ gd = "scan" /\ count > 0 /\ list[out] < wanted
  /\ RemoveOldest
  /\ UNCHANGED <<mutex, pmVars, gdVars, emacsVars>>

(* Variant: the mutex is not released. *)
NotThereKeepsMutex ==
  /\ gd = "scan"
  /\ count = 0 \/ list[out] > wanted
  /\ gd' = "answer"
  /\ UNCHANGED <<dropRing, mutex, pmVars, wanted, found, emacsVars>>

NotThere ==
  /\ gd = "scan"
  /\ count = 0 \/ list[out] > wanted
  /\ mutex' = "free"
  /\ gd' = "answer"
  /\ UNCHANGED <<dropRing, pmVars, wanted, found, emacsVars>>

(* send_answer with d.len, which is not initialised if nothing was found. *)
SendAnswer ==
  /\ gd = "answer"
  /\ gd' = "idle"
  /\ answer' \in IF found = None THEN {None, Junk} ELSE {found}
  /\ newest' = IF wanted > newest THEN wanted ELSE newest
  /\ emacs' = None
  /\ UNCHANGED <<dropRing, mutex, pmVars, wanted, found, events, asks>>

PmThread ==
  \/ \E n \in 1 .. MaxItems : DragOver(n)
  \/ DropItem \/ EndDrag \/ DropColor \/ LockStore \/ Store \/ SendEvent
EmacsThread == AskNext \/ AskAgain \/ IgnoreEvent
PipeThread == LockGet \/ Found \/ SkipOlder \/ NotThere \/ SendAnswer

DropNext == PmThread \/ EmacsThread \/ PipeThread

DropSpec == DropInit /\ [][DropNext]_dropVars

(* Both threads keep running, and DosRequestMutexSem grants the mutex to a   *)
(* thread that keeps waiting for it.                                         *)
FairSpec == /\ DropSpec
            /\ WF_dropVars(Found \/ SkipOlder \/ NotThere \/ SendAnswer) /\ SF_dropVars(LockGet)
            /\ WF_dropVars(Store \/ SendEvent) /\ SF_dropVars(LockStore)

-----------------------------------------------------------------------------
NthDrop(k) == IF out + k < DropMax THEN out + k ELSE out + k - DropMax

(* The cookie the next object will be stored under. *)
NextCookie == IF pm = "send" THEN cookie + 1 ELSE cookie

DropTypeOK ==
  /\ list \in [DropSlots -> Int]
  /\ in \in DropSlots /\ out \in DropSlots /\ count \in Nat /\ cookie \in Nat
  /\ mutex \in {"free", "pm", "gd"}
  /\ pm \in {"idle", "store", "locked", "send"}
  /\ gd \in {"idle", "lock", "scan", "answer"}
  /\ items \in Nat /\ colors \in Nat /\ asks \in Nat
  /\ wanted \in Int /\ found \in Int /\ emacs \in Int /\ answer \in Int /\ newest \in Int

(* While only files are dropped the unlocked tests of drop_count suffice: it *)
(* never holds more than DROP_MAX objects, drop_in is where the newest ends, *)
(* and the objects are the last ones dropped, in order, none overwritten.    *)
InOrder ==
  /\ count <= DropMax
  /\ in = NthDrop(count)
  /\ \A k \in 0 .. count - 1 : list[NthDrop(k)] = NextCookie - count + k
RingOrdered == colors = 0 => InOrder

(* "Send to Emacs the name of the dropped object associated with COOKIE"     *)
(* (pmemacs.c:2319): asked about a drop event it has not passed before,      *)
(* get_drop answers with that event's object, whatever Emacs ignored, as     *)
(* long as no color is dropped: drop_color breaks this.                      *)
RightAnswer ==
  [][colors = 0 /\ gd = "answer" /\ gd' = "idle" /\ wanted > newest => answer' = wanted]_dropVars

(* A dropped object is stored and announced: the PM thread, which serves all *)
(* of the user interface, is never left waiting for the mutex.               *)
StoreCompletes == pm = "store" ~> pm = "idle"
=============================================================================
