------------------------------ MODULE KbdBuffer ------------------------------
(***************************************************************************)
(* The circular buffer of pre-read input events of keyboard.c: kbd_buffer  *)
(* with its fetch and store pointers, the vector that protects the frames  *)
(* of the events from the garbage collector, and the frame bookkeeping     *)
(* that decides when a switch-frame event must precede a real one.         *)
(*                                                                         *)
(* A pointer is the index of the slot it points to; both pointers may      *)
(* have the value Size, one past the last slot, which means slot 0.        *)
(* Events carry a serial number (a history value: the code has none) so    *)
(* that the properties can tell two events of the same kind apart.         *)
(***************************************************************************)
EXTENDS Integers, Sequences

CONSTANTS
  Size,        \* KBD_BUFFER_SIZE
  Frames,      \* the live frames
  Focus,       \* FRAME_FOCUS_FRAME, with the frame itself for nil
  NoFrame,     \* Qnil
  MaxEvents,   \* bound: events kept during a behaviour
  MaxQuits,    \* bound: quit characters that arrive through the buffer
  MaxDiscards  \* bound: calls of discard-input

ASSUME SizeAssumption == Size \in Nat \ {0, 1}
ASSUME FrameAssumption == NoFrame \notin Frames /\ Focus \in [Frames -> Frames]
ASSUME BoundAssumption ==
  MaxEvents \in Nat /\ MaxQuits \in Nat /\ MaxDiscards \in Nat

VARIABLES
  buf,        \* kbd_buffer
  protect,    \* kbd_buffer_frame_or_window
  fetch,      \* kbd_fetch_ptr
  store,      \* kbd_store_ptr
  last,       \* internal_last_event_frame
  selected,   \* selected_frame
  stored,     \* history: how many events were kept
  unread,     \* history: how many of those were neither taken nor discarded
  peak,       \* history: the most events there were, one that arrives included
  taken,      \* history: the event kbd_buffer_get_event consumed last
  delivered,  \* history: serial numbers of the user events returned
  announced,  \* history: frames of the switch-frame events since a selection
  quits, discards

ring == <<buf, protect, fetch, store>>
frames == <<last, selected, announced>>
bounds == <<quits, discards>>
vars == <<ring, frames, stored, unread, peak, taken, delivered, bounds>>

(***************************************************************************)
(* "user" stands for the kinds make_lispy_event turns into input (keys,    *)
(* clicks, scroll bars, menu bar), "window" for iconify, deiconify and     *)
(* delete_window, "switch" for buffer_switch_event, whose frame is nil.    *)
(***************************************************************************)
Kinds == {"user", "window", "switch"}
Event == [kind : Kinds, frame : Frames \cup {NoFrame}, id : 1 .. MaxEvents]
Cell == [kind : Kinds \cup {"no_event"}, frame : Frames \cup {NoFrame}, id : Nat]
NoEvent == [kind |-> "no_event", frame |-> NoFrame, id |-> 0]
Slots == 0 .. Size - 1
Pointers == 0 .. Size

Slot(p) == IF p < Size THEN p ELSE 0
Empty == fetch = store
Front == buf[Slot(fetch)]

Init ==
  /\ buf = [s \in Slots |-> NoEvent]
  /\ protect = [s \in Slots |-> NoFrame]
  /\ fetch = 0 /\ store = 0
  /\ last = NoFrame /\ selected \in Frames /\ announced = {}
  /\ stored = 0 /\ unread = 0 /\ peak = 0 /\ taken = <<>> /\ delivered = {}
  /\ quits = 0 /\ discards = 0

-----------------------------------------------------------------------------
(* kbd_buffer_store_event *)

Arrives == stored < MaxEvents

(* kbd_store_ptr->kind == buffer_switch_event: the test reads the slot the   *)
(* store pointer points to.  One past the end it reads whatever lies there.  *)
StoreSlotSaysSwitch ==
  IF store < Size THEN {buf[store].kind = "switch"} ELSE BOOLEAN

IgnoreSwitch ==
  /\ Arrives
  /\ ~Empty
  /\ TRUE \in StoreSlotSaysSwitch
  /\ UNCHANGED vars

(* Variant: the store pointer is normalised after the store, not before. *)
PutEventWrapsEarly(kind, frame) ==
  LET s == Slot(store)
  IN IF fetch - 1 # s
     THEN /\ buf' = [buf EXCEPT ![s] = [kind |-> kind, frame |-> frame, id |-> stored + 1]]
          /\ protect' = [protect EXCEPT ![s] = frame]
          /\ store' = Slot(s + 1)
          /\ stored' = stored + 1
          /\ unread' = unread + 1
          /\ peak' = IF peak > unread THEN peak ELSE unread + 1
          /\ UNCHANGED <<fetch, frames, taken, delivered, bounds>>
     ELSE UNCHANGED vars

(* The tail of the function: wrap the pointer, then keep or drop the event. *)
PutEvent(kind, frame) ==
  LET s == Slot(store)
      e == [kind |-> kind, frame |-> frame, id |-> stored + 1]
  IN IF fetch - 1 # s
     THEN /\ buf' = [buf EXCEPT ![s] = e]
          /\ protect' = [protect EXCEPT ![s] = frame]
          /\ store' = s + 1
          /\ stored' = stored + 1
          /\ unread' = unread + 1
          /\ peak' = IF peak > unread THEN peak ELSE unread + 1
          /\ UNCHANGED <<fetch, frames, taken, delivered, bounds>>
     ELSE /\ store' = s
          /\ peak' = IF peak > unread THEN peak ELSE unread + 1
          /\ UNCHANGED <<buf, protect, fetch, frames, stored, unread, taken, delivered, bounds>>

StoreSwitch ==
  /\ Arrives
  /\ Empty \/ FALSE \in StoreSlotSaysSwitch
  /\ PutEvent("switch", NoFrame)

StoreEvent(kind, frame) ==
  /\ Arrives
  /\ kind # "switch"
  /\ PutEvent(kind, frame)

(* Variant: do_switch_frame without its last assignment. *)
SelectKeepsLastFrame(f) ==
  /\ f # selected
  /\ selected' = f
  /\ announced' = {}
  /\ UNCHANGED last

(* do_switch_frame; it forgets the frame of the last event. *)
Select(f) ==
  /\ f # selected
  /\ selected' = f
  /\ last' = NoFrame
  /\ announced' = {}

(* The quit character never enters the buffer: it sets the last event frame *)
(* and calls interrupt_signal, which sets quit-flag, or, when read_char is   *)
(* waiting, throws to it after selecting the frame the quit came from.       *)
StoreQuitChar(f) ==
  /\ quits < MaxQuits
  /\ quits' = quits + 1
  /\ last' = Focus[f]
  /\ UNCHANGED <<ring, selected, announced, stored, unread, peak, taken, delivered, discards>>

StoreQuitCharWaiting(f) ==
  /\ quits < MaxQuits
  /\ quits' = quits + 1
  /\ last' = Focus[f]
  /\ selected' = Focus[f]
  /\ announced' = IF Focus[f] # selected THEN {} ELSE announced
  /\ UNCHANGED <<ring, stored, unread, peak, taken, delivered, discards>>

-----------------------------------------------------------------------------
(* kbd_buffer_get_event, one action per kind of the event at the front.      *)

(* Variant: the fetch pointer is normalised after the fetch, not before. *)
ConsumeWrapsEarly ==
  /\ fetch' = Slot(Slot(fetch) + 1)
  /\ unread' = IF unread > 0 THEN unread - 1 ELSE 0
  /\ taken' = <<Front>>
  /\ UNCHANGED <<store, stored, peak, bounds>>

(* Variant: one past the end is not taken for slot 0. *)
ConsumeUnwrapped ==
  /\ fetch' = fetch + 1
  /\ unread' = IF unread > 0 THEN unread - 1 ELSE 0
  /\ taken' = <<Front>>
  /\ UNCHANGED <<store, stored, peak, bounds>>

Consume ==
  /\ fetch' = Slot(fetch) + 1
  /\ unread' = IF unread > 0 THEN unread - 1 ELSE 0
  /\ taken' = <<Front>>
  /\ UNCHANGED <<store, stored, peak, bounds>>

GetNothing ==
  /\ ~Empty
  /\ Front.kind = "no_event"
  /\ Consume
  /\ UNCHANGED <<buf, protect, frames, delivered>>

(* Iconify, deiconify, delete and buffer-switch events are returned but not *)
(* wiped: the slot keeps its kind.                                          *)
GetSpecial ==
  /\ ~Empty
  /\ Front.kind \in {"window", "switch"}
  /\ Consume
  /\ UNCHANGED <<buf, protect, frames, delivered>>

EventFrame == Focus[Front.frame]
NeedsSwitch == EventFrame # last /\ EventFrame # selected

(* The event is on another frame: return switch-frame, leave it in the queue. *)
GetSwitchFrame ==
  /\ ~Empty
  /\ Front.kind = "user"
  /\ NeedsSwitch
  /\ last' = EventFrame
  /\ announced' = announced \cup {EventFrame}
  /\ UNCHANGED <<ring, selected, stored, unread, peak, taken, delivered, bounds>>

(* Variants: the event is not wiped; the wrong element of the vector is.     *)
GetUserEventUnwiped ==
  /\ ~Empty
  /\ Front.kind = "user"
  /\ ~NeedsSwitch
  /\ last' = EventFrame
  /\ delivered' = delivered \cup {Front.id}
  /\ Consume
  /\ UNCHANGED <<buf, protect, selected, announced>>

GetUserEventUnprotectsNext ==
  /\ ~Empty
  /\ Front.kind = "user"
  /\ ~NeedsSwitch
  /\ last' = EventFrame
  /\ buf' = [buf EXCEPT ![Slot(fetch)].kind = "no_event"]
  /\ protect' = [protect EXCEPT ![Slot(Slot(fetch) + 1)] = NoFrame]
  /\ delivered' = delivered \cup {Front.id}
  /\ Consume
  /\ UNCHANGED <<selected, announced>>

GetUserEvent ==
  /\ ~Empty
  /\ Front.kind = "user"
  /\ ~NeedsSwitch
  /\ last' = EventFrame
  /\ buf' = [buf EXCEPT ![Slot(fetch)].kind = "no_event"]
  /\ protect' = [protect EXCEPT ![Slot(fetch)] = NoFrame]
  /\ delivered' = delivered \cup {Front.id}
  /\ Consume
  /\ UNCHANGED <<selected, announced>>

(* Lisp selects a frame, or handle-switch-frame does. *)
SelectFrame(f) ==
  /\ Select(f)
  /\ UNCHANGED <<ring, stored, unread, peak, taken, delivered, bounds>>

(* discard-input *)
DiscardInput ==
  /\ discards < MaxDiscards
  /\ discards' = discards + 1
  /\ fetch' = store
  /\ protect' = [s \in Slots |-> NoFrame]
  /\ unread' = 0
  /\ UNCHANGED <<buf, store, frames, stored, peak, taken, delivered, quits>>

Next ==
  \/ IgnoreSwitch
  \/ StoreSwitch
  \/ \E f \in Frames : \/ \E k \in Kinds : StoreEvent(k, f)
                       \/ StoreQuitChar(f)
                       \/ StoreQuitCharWaiting(f)
                       \/ SelectFrame(f)
  \/ GetNothing
  \/ GetSpecial
  \/ GetSwitchFrame
  \/ GetUserEvent
  \/ DiscardInput

Spec == Init /\ [][Next]_vars

-----------------------------------------------------------------------------
(* The slot of the k-th unread event, counting from 0, and the unread events *)
Nth(k) == IF fetch + k < Size THEN fetch + k ELSE fetch + k - Size
Unread == [k \in 1 .. unread |-> buf[Nth(k - 1)]]

(* Every variable has its type; both pointers stay within the buffer or one  *)
(* past it, so every write of kbd_buffer_store_event hits a slot.            *)
TypeOK ==
  /\ buf \in [Slots -> Cell]
  /\ \A s \in Slots : buf[s].kind = "user" => buf[s].frame \in Frames
  /\ protect \in [Slots -> Frames \cup {NoFrame}]
  /\ fetch \in Pointers /\ store \in Pointers
  /\ last \in Frames \cup {NoFrame} /\ selected \in Frames
  /\ announced \subseteq Frames
  /\ stored \in Nat /\ unread \in Nat /\ peak \in Nat /\ delivered \subseteq Nat
  /\ quits \in Nat /\ discards \in Nat

(* Until an event arrives when Size - 1 are unread the buffer is a FIFO: what *)
(* kbd_buffer_get_event consumes is what kbd_buffer_store_event kept, once,  *)
(* in order, across every wrap of the two pointers.                          *)
Fifo == INSTANCE EventQueue WITH Events <- Event, queue <- Unread, taken <- taken
FifoSpec == Fifo!Init /\ [][peak' < Size => Fifo!Next]_(Fifo!vars)

(* "We say that there is input available iff the two pointers are not equal" *)
(* (keyboard.c:473): until the buffer overflows, the pointers differ exactly *)
(* while an event is unread.                                                 *)
FlagIsExact == peak < Size => (Empty <=> unread = 0)

(* The frame of every unread event is in the vector the collector marks, so  *)
(* until the buffer overflows no event refers to a freed frame.              *)
UnreadProtected ==
  peak < Size => \A k \in 0 .. unread - 1 : protect[Nth(k)] = buf[Nth(k)].frame

(* A user event is returned only if its frame is selected or a switch-frame  *)
(* event for that frame was returned since the last selection: typing is     *)
(* never interpreted in another frame than the one it was typed in, as long  *)
(* as no quit character arrives.                                             *)
NeverMisdirected ==
  [][quits = 0 /\ delivered' # delivered => EventFrame \in announced \cup {selected}]_vars

(* Even when events overflow the buffer, no user event is delivered twice:   *)
(* a delivered one is in no slot any more, whatever the pointers say.        *)
WipedOnceDelivered ==
  \A s \in Slots : buf[s].kind = "user" => buf[s].id \notin delivered

(* "Discard the event if it would fill the last slot" (keyboard.c:2888): an  *)
(* event that arrives never takes the place of one that is still unread.     *)
NothingOverwritten ==
  [][unread' > unread => \A k \in 0 .. unread - 1 : buf'[Nth(k)] = buf[Nth(k)]]_vars
=============================================================================
