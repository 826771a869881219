----------------------------- MODULE RingProofs -----------------------------
(***************************************************************************)
(* Proofs about the two rings between threads or processes: the input      *)
(* buffer of keyboard.c, for any size, any set of frames and any focus     *)
(* redirection, and the buffer of dropped objects of pmemacs.c, for every  *)
(* DROP_MAX and any number of drops.                                       *)
(*                                                                         *)
(* KbdBuffer.  TypeOK is inductive.  The once-only delivery needs that the *)
(* user events in the buffer bear different serial numbers, none delivered *)
(* yet; the switch-frame property needs that internal_last_event_frame was *)
(* announced.  As long as fewer events than the buffer has slots are       *)
(* unread, the ring implements the abstract queue of EventQueue: then the  *)
(* distance of the pointers, counted around the ring, is the number of     *)
(* unread events.                                                          *)
(*                                                                         *)
(* PmDrop.  As long as no color is dropped (drop_color does not test       *)
(* whether the buffer is full), the test of drop_count without the mutex   *)
(* is enough because only the PM thread adds: between its test and its     *)
(* store the pipe thread can only make room.  The answers are right        *)
(* because the oldest object kept is always the one after the last one     *)
(* answered.                                                               *)
(***************************************************************************)
EXTENDS KbdBuffer, PmDrop, SequenceTheorems, TLAPS

(* Every pointer points to a slot of the ring.                               *)
LEMMA SlotInSlots == ASSUME NEW p \in Pointers PROVE Slot(p) \in Slots
  BY SizeAssumption DEF Pointers, Slots, Slot

(* The ring is empty at first.                                               *)
LEMMA InitTypeOK == Init => TypeOK
  <1> SUFFICES ASSUME Init PROVE TypeOK
    OBVIOUS
  <1>1. NoEvent \in Cell /\ NoEvent.kind # "user"
    BY DEF NoEvent, Cell
  <1>2. buf \in [Slots -> Cell] /\ protect \in [Slots -> Frames \cup {NoFrame}]
    BY <1>1 DEF Init
  <1> QED
    BY <1>1, <1>2, SizeAssumption DEF Init, TypeOK, Pointers

(* What PutEvent does when it keeps the event, without the LET. *)
Kept(kind, frame) ==
  /\ buf' = [buf EXCEPT ![Slot(store)] = [kind |-> kind, frame |-> frame, id |-> stored + 1]]
  /\ protect' = [protect EXCEPT ![Slot(store)] = frame]
  /\ store' = Slot(store) + 1
  /\ stored' = stored + 1
  /\ unread' = unread + 1
  /\ peak' = IF peak > unread THEN peak ELSE unread + 1
  /\ UNCHANGED <<fetch, frames, taken, delivered, bounds>>

Dropped ==
  /\ store' = Slot(store)
  /\ peak' = IF peak > unread THEN peak ELSE unread + 1
  /\ UNCHANGED <<buf, protect, fetch, frames, stored, unread, taken, delivered, bounds>>

(* The two cases of storing an event.                                        *)
LEMMA PutEventCases ==
  ASSUME NEW kind, NEW frame, PutEvent(kind, frame)
  PROVE  \/ fetch - 1 # Slot(store) /\ Kept(kind, frame)
         \/ fetch - 1 = Slot(store) /\ Dropped
  BY Zenon DEF PutEvent, Kept, Dropped

(* Storing an event keeps the types.                                         *)
LEMMA PutEventType ==
  ASSUME TypeOK, NEW kind \in Kinds, NEW frame \in Frames \cup {NoFrame},
         kind = "user" => frame \in Frames, PutEvent(kind, frame)
  PROVE  TypeOK'
  <1> DEFINE e == [kind |-> kind, frame |-> frame, id |-> stored + 1]
  <1>1. Slot(store) \in Slots
    BY SlotInSlots DEF TypeOK
  <1>2. e \in Cell /\ e.kind = kind /\ e.frame = frame
    BY DEF TypeOK, Cell
  <1>3. CASE Kept(kind, frame)
    <2> HIDE DEF e
    <2>1. buf' = [buf EXCEPT ![Slot(store)] = e]
      BY <1>3 DEF Kept, e
    <2>2. buf' \in [Slots -> Cell] /\ protect' \in [Slots -> Frames \cup {NoFrame}]
      BY <1>1, <1>2, <1>3, <2>1 DEF TypeOK, Kept
    <2>3. \A s \in Slots : buf'[s].kind = "user" => buf'[s].frame \in Frames
      BY <1>1, <1>2, <2>1 DEF TypeOK
    <2>4. store' \in Pointers
      BY <1>1, <1>3, SizeAssumption DEF Kept, Slots, Pointers
    <2> QED
      BY <1>3, <2>2, <2>3, <2>4 DEF TypeOK, Kept, frames, bounds
  <1>4. CASE Dropped
    <2>1. store' \in Pointers
      BY <1>1, <1>4, SizeAssumption DEF Dropped, Slots, Pointers
    <2> QED
      BY <1>4, <2>1 DEF TypeOK, Dropped, frames, bounds
  <1> QED
    BY <1>3, <1>4, PutEventCases

(* Consume leaves both pointers and the counts in range. *)
LEMMA ConsumeType ==
  ASSUME TypeOK, Consume
  PROVE  /\ fetch' \in Pointers /\ store' \in Pointers
         /\ unread' \in Nat /\ peak' \in Nat /\ stored' \in Nat /\ quits' \in Nat /\ discards' \in Nat
  <1>1. Slot(fetch) \in Slots
    BY SlotInSlots DEF TypeOK
  <1> QED
    BY <1>1, SizeAssumption DEF TypeOK, Consume, bounds, Slots, Pointers

(* The event at the front, and its frame if it is a user event. *)
LEMMA FrontType ==
  ASSUME TypeOK
  PROVE  /\ Slot(fetch) \in Slots /\ Front \in Cell
         /\ Front.kind = "user" => Front.frame \in Frames /\ EventFrame \in Frames
  <1>1. Slot(fetch) \in Slots
    BY SlotInSlots DEF TypeOK
  <1> QED
    BY <1>1, FrameAssumption DEF TypeOK, Front, EventFrame

(* Every step keeps the types.                                               *)
LEMMA NextTypeOK == TypeOK /\ [Next]_vars => TypeOK'
  <1> SUFFICES ASSUME TypeOK, [Next]_vars PROVE TypeOK'
    OBVIOUS
  <1>1. CASE IgnoreSwitch \/ UNCHANGED vars
    BY <1>1 DEF IgnoreSwitch, vars, ring, frames, bounds, TypeOK
  <1>2. CASE StoreSwitch
    BY <1>2, PutEventType DEF StoreSwitch, Kinds
  <1>3. ASSUME NEW f \in Frames, NEW k \in Kinds, StoreEvent(k, f) PROVE TypeOK'
    BY <1>3, PutEventType DEF StoreEvent
  <1>4. ASSUME NEW f \in Frames, StoreQuitChar(f) \/ StoreQuitCharWaiting(f) PROVE TypeOK'
    <2>1. Focus[f] \in Frames
      BY FrameAssumption
    <2>2. CASE StoreQuitChar(f)
      BY <2>1, <2>2 DEF StoreQuitChar, TypeOK, ring
    <2>3. CASE StoreQuitCharWaiting(f)
      <3>1. announced' \subseteq Frames
        BY <2>3 DEF StoreQuitCharWaiting, TypeOK
      <3> QED
        BY <2>1, <2>3, <3>1 DEF StoreQuitCharWaiting, TypeOK, ring
    <2> QED
      BY <1>4, <2>2, <2>3
  <1>5. ASSUME NEW f \in Frames, SelectFrame(f) PROVE TypeOK'
    BY <1>5 DEF SelectFrame, Select, TypeOK, ring, bounds
  <1>6. CASE GetNothing \/ GetSpecial
    BY <1>6, ConsumeType DEF GetNothing, GetSpecial, TypeOK, frames
  <1>7. CASE GetSwitchFrame
    BY <1>7, FrontType DEF GetSwitchFrame, TypeOK, ring, bounds
  <1>8. CASE GetUserEvent
    <2>1. Slot(fetch) \in Slots /\ EventFrame \in Frames /\ Front.id \in Nat
      BY <1>8, FrontType DEF GetUserEvent, Cell
    <2>2. buf' = [buf EXCEPT ![Slot(fetch)].kind = "no_event"]
      BY <1>8 DEF GetUserEvent
    <2>3. buf' \in [Slots -> Cell]
      <3>1. [buf[Slot(fetch)] EXCEPT !.kind = "no_event"] \in Cell
        BY <2>1 DEF TypeOK, Cell
      <3> QED
        BY <2>1, <2>2, <3>1 DEF TypeOK
    <2>4. \A s \in Slots : buf'[s].kind = "user" => buf'[s].frame \in Frames
      BY <2>1, <2>2 DEF TypeOK, Cell
    <2>5. protect' \in [Slots -> Frames \cup {NoFrame}]
      BY <1>8, <2>1 DEF GetUserEvent, TypeOK
    <2> QED
      BY <1>8, <2>1, <2>3, <2>4, <2>5, ConsumeType DEF GetUserEvent, TypeOK
  <1>9. CASE DiscardInput
    BY <1>9 DEF DiscardInput, TypeOK, frames
  <1> QED
    BY <1>1, <1>2, <1>3, <1>4, <1>5, <1>6, <1>7, <1>8, <1>9 DEF Next

(* Every variable keeps its type, and both pointers stay within the buffer   *)
(* or one past it, whatever the size of the buffer and however many events   *)
(* arrive: kbd_buffer_store_event never writes outside kbd_buffer.           *)
THEOREM TypeCorrect == Spec => []TypeOK
  BY InitTypeOK, NextTypeOK, PTL DEF Spec

-----------------------------------------------------------------------------
(* The serial numbers of the buffered events: all different, none above      *)
(* those given out, and those of user events not delivered yet.              *)
Serial ==
  /\ \A s \in Slots : buf[s].id <= stored
  /\ \A s, t \in Slots :
       s # t /\ buf[s].kind = "user" /\ buf[t].kind = "user" => buf[s].id # buf[t].id
  /\ \A d \in delivered : d <= stored
  /\ WipedOnceDelivered

(* Storing an event keeps the slots in the order of the events.              *)
LEMMA PutEventSerial ==
  ASSUME TypeOK, Serial, NEW kind \in Kinds, NEW frame \in Frames \cup {NoFrame},
         PutEvent(kind, frame)
  PROVE  Serial'
  <1> DEFINE e == [kind |-> kind, frame |-> frame, id |-> stored + 1]
  <1>1. Slot(store) \in Slots
    BY SlotInSlots DEF TypeOK
  <1>2. CASE Kept(kind, frame)
    <2>1. e.id = stored + 1
      OBVIOUS
    <2> HIDE DEF e
    <2>2. buf' = [buf EXCEPT ![Slot(store)] = e] /\ stored' = stored + 1 /\ delivered' = delivered
      BY <1>2 DEF Kept, e
    <2>3. \A s \in Slots : buf'[s] = IF s = Slot(store) THEN e ELSE buf[s]
      BY <1>1, <2>2 DEF TypeOK
    <2>4. \A s \in Slots : buf[s].id \in Nat
      BY DEF TypeOK, Cell
    <2>5. \A s \in Slots : buf'[s].id <= stored'
      BY <2>1, <2>2, <2>3, <2>4 DEF TypeOK, Serial
    <2>6. \A d \in delivered' : d <= stored'
      BY <2>2 DEF TypeOK, Serial
    <2>7. \A s, t \in Slots : s # t /\ buf'[s].kind = "user" /\ buf'[t].kind = "user"
                                => buf'[s].id # buf'[t].id
      BY <2>1, <2>3, <2>4 DEF TypeOK, Serial
    <2>8. WipedOnceDelivered'
      BY <2>1, <2>2, <2>3 DEF TypeOK, Serial, WipedOnceDelivered
    <2> QED
      BY <2>5, <2>6, <2>7, <2>8 DEF Serial
  <1>3. CASE Dropped
    BY <1>3 DEF Dropped, Serial, WipedOnceDelivered
  <1> QED
    BY <1>2, <1>3, PutEventCases

(* A step that leaves the buffer and the deliveries alone. *)
LEMMA SerialStutter ==
  ASSUME Serial, UNCHANGED <<buf, stored, delivered>>
  PROVE  Serial'
  BY DEF Serial, WipedOnceDelivered

(* Every step keeps the slots in the order of the events.                    *)
LEMMA NextSerial == TypeOK /\ Serial /\ [Next]_vars => Serial'
  <1> SUFFICES ASSUME TypeOK, Serial, [Next]_vars PROVE Serial'
    OBVIOUS
  <1>1. CASE StoreSwitch
    BY <1>1, PutEventSerial DEF StoreSwitch, Kinds
  <1>2. ASSUME NEW f \in Frames, NEW k \in Kinds, StoreEvent(k, f) PROVE Serial'
    BY <1>2, PutEventSerial DEF StoreEvent
  <1>3. CASE GetUserEvent
    <2>1. Slot(fetch) \in Slots
      BY FrontType
    <2>2. buf' = [buf EXCEPT ![Slot(fetch)].kind = "no_event"] /\ stored' = stored
          /\ delivered' = delivered \cup {buf[Slot(fetch)].id} /\ buf[Slot(fetch)].kind = "user"
      BY <1>3 DEF GetUserEvent, Consume, Front
    <2>3. \A s \in Slots : /\ buf'[s].id = buf[s].id
                           /\ buf'[s].kind = IF s = Slot(fetch) THEN "no_event" ELSE buf[s].kind
      BY <2>1, <2>2 DEF TypeOK, Cell
    <2>4. \A d \in delivered' : d <= stored'
      BY <2>1, <2>2 DEF Serial
    <2>5. WipedOnceDelivered'
      BY <2>1, <2>2, <2>3 DEF Serial, WipedOnceDelivered
    <2> QED
      BY <2>2, <2>3, <2>4, <2>5 DEF Serial
  <1>4. CASE \/ IgnoreSwitch \/ GetNothing \/ GetSpecial \/ GetSwitchFrame \/ DiscardInput
            \/ UNCHANGED vars
            \/ \E f \in Frames : StoreQuitChar(f) \/ StoreQuitCharWaiting(f) \/ SelectFrame(f)
    <2>1. UNCHANGED <<buf, stored, delivered>>
      BY <1>4 DEF IgnoreSwitch, GetNothing, GetSpecial, GetSwitchFrame, DiscardInput, StoreQuitChar,
                  StoreQuitCharWaiting, SelectFrame, Consume, vars, ring
    <2> QED
      BY <2>1, SerialStutter
  <1> QED
    BY <1>1, <1>2, <1>3, <1>4 DEF Next

(* No user event is delivered twice, however the buffer overflows: once      *)
(* kbd_buffer_get_event has returned it, it is in no slot of kbd_buffer.     *)
THEOREM DeliveredOnce == Spec => []WipedOnceDelivered
  <1>1. Init => Serial
    BY DEF Init, Serial, WipedOnceDelivered, NoEvent
  <1>2. Serial => WipedOnceDelivered
    BY DEF Serial
  <1> QED
    BY <1>1, <1>2, InitTypeOK, NextTypeOK, NextSerial, PTL DEF Spec

-----------------------------------------------------------------------------
(* The frame of the last event is forgotten by a selection; until then it is *)
(* selected or was announced.                                                *)
LastKnown == quits = 0 /\ last # NoFrame => last \in announced \cup {selected}

(* Every step keeps the last event known.                                    *)
LEMMA NextLastKnown ==
  ASSUME TypeOK, LastKnown, [Next]_vars
  PROVE  LastKnown'
  <1>1. CASE GetSwitchFrame
    BY <1>1 DEF GetSwitchFrame, LastKnown, bounds
  <1>2. CASE GetUserEvent
    BY <1>2, FrontType, FrameAssumption DEF GetUserEvent, NeedsSwitch, LastKnown, Consume, bounds
  <1>3. ASSUME NEW f \in Frames, SelectFrame(f) PROVE LastKnown'
    BY <1>3 DEF SelectFrame, Select, LastKnown
  <1>4. ASSUME NEW f \in Frames, StoreQuitChar(f) \/ StoreQuitCharWaiting(f) PROVE LastKnown'
    <2>1. quits \in Nat /\ quits' = quits + 1
      BY <1>4 DEF StoreQuitChar, StoreQuitCharWaiting, TypeOK
    <2>2. quits' # 0
      BY <2>1
    <2> QED
      BY <2>2 DEF LastKnown
  <1>5. CASE \/ IgnoreSwitch \/ GetNothing \/ GetSpecial \/ DiscardInput \/ UNCHANGED vars
    BY <1>5 DEF IgnoreSwitch, GetNothing, GetSpecial, DiscardInput, Consume, vars, frames, bounds, LastKnown
  <1>6. ASSUME NEW kind, NEW frame, PutEvent(kind, frame) PROVE LastKnown'
    <2>1. UNCHANGED <<frames, bounds>>
      BY <1>6, PutEventCases DEF Kept, Dropped
    <2> QED
      BY <2>1 DEF frames, bounds, LastKnown
  <1> QED
    BY <1>1, <1>2, <1>3, <1>4, <1>5, <1>6 DEF Next, StoreSwitch, StoreEvent

(* Without quit characters a user event is returned only in a frame that is  *)
(* selected or was announced by a switch-frame event since the selection.    *)
THEOREM Directed == Spec => NeverMisdirected
  <1>1. Init => LastKnown
    BY DEF Init, LastKnown
  <1>2. TypeOK /\ LastKnown /\ [Next]_vars
          => (quits = 0 /\ delivered' # delivered => EventFrame \in announced \cup {selected})
    <2> SUFFICES ASSUME TypeOK, LastKnown, [Next]_vars, quits = 0, delivered' # delivered
                 PROVE  EventFrame \in announced \cup {selected}
      OBVIOUS
    <2>1. ASSUME NEW kind, NEW frame, PutEvent(kind, frame) PROVE delivered' = delivered
      BY <2>1, PutEventCases DEF Kept, Dropped
    <2>2. GetUserEvent
      BY <2>1 DEF Next, IgnoreSwitch, StoreSwitch, StoreEvent, StoreQuitChar, StoreQuitCharWaiting,
                  SelectFrame, GetNothing, GetSpecial, GetSwitchFrame, DiscardInput, vars
    <2> QED
      BY <2>2, FrontType, FrameAssumption DEF GetUserEvent, NeedsSwitch, LastKnown
  <1>3. TypeOK /\ LastKnown /\ [Next]_vars => LastKnown'
    BY NextLastKnown
  <1> QED
    BY <1>1, <1>2, <1>3, InitTypeOK, NextTypeOK, PTL DEF Spec, NeverMisdirected

-----------------------------------------------------------------------------
(* The ring as a queue. *)

(* A pointer one past the end and a pointer to slot 0 are the same place,    *)
(* but only the first is ever compared with one past the end: the store      *)
(* pointer is 0 only before the first event, and then fetch is 0 too.        *)
Distance ==
  /\ unread < Size
  /\ unread <= peak
  /\ store = fetch + unread \/ store = fetch + unread - Size
  /\ store = 0 => fetch = 0

(* Every unread event is one that kbd_buffer_store_event kept, protected.    *)
Kept0 == \A k \in 0 .. unread - 1 : buf[Nth(k)] \in Event

FifoInv == TypeOK /\ peak < Size /\ Distance /\ Kept0 /\ UnreadProtected

(* Nothing is unread at first.                                               *)
LEMMA InitFifoInv == Init => FifoInv
  BY InitTypeOK, SizeAssumption, BoundAssumption
     DEF Init, FifoInv, Distance, Kept0, UnreadProtected

(* The flag is set only when something is unread.                            *)
LEMMA EmptyIffNoneUnread == ASSUME FifoInv PROVE FlagIsExact
  BY SizeAssumption DEF FifoInv, TypeOK, Distance, FlagIsExact, Empty, Pointers

(* The slots of the unread events are different slots of the buffer. *)
LEMMA NthSlots ==
  ASSUME FifoInv
  PROVE  /\ \A k \in 0 .. unread : Nth(k) \in Slots
         /\ \A j, k \in 0 .. unread : j # k => Nth(j) # Nth(k)
         /\ Nth(unread) = Slot(store) /\ Nth(0) = Slot(fetch)
  BY SizeAssumption DEF FifoInv, TypeOK, Distance, Nth, Slots, Pointers, Slot

(* The ring is never full while the bound on unread events holds.            *)
LEMMA NeverFull ==
  ASSUME FifoInv, unread + 1 < Size PROVE fetch - 1 # Slot(store)
  BY SizeAssumption, BoundAssumption DEF FifoInv, TypeOK, Distance, Slot, Pointers, Arrives

(* An event that arrives: what becomes of the unread events. *)
LEMMA PutStep ==
  ASSUME FifoInv, peak' < Size, Arrives, NEW kind \in Kinds, NEW frame \in Frames \cup {NoFrame},
         kind = "user" => frame \in Frames, PutEvent(kind, frame)
  PROVE  /\ FifoInv'
         /\ unread' = unread + 1
         /\ \E e \in Event : \A k \in 0 .. unread :
              buf'[Nth(k)'] = IF k < unread THEN buf[Nth(k)] ELSE e
  <1> DEFINE e == [kind |-> kind, frame |-> frame, id |-> stored + 1]
  <1>0. unread \in Nat /\ peak \in Nat /\ unread + 1 < Size /\ unread + 1 <= peak'
    BY SizeAssumption, PutEventCases DEF Kept, Dropped, FifoInv, TypeOK
  <1>1. Kept(kind, frame)
    BY <1>0, NeverFull, PutEventCases
  <1>2. e \in Event /\ e.frame = frame
    BY SizeAssumption, BoundAssumption DEF Event, FifoInv, TypeOK, Arrives
  <1>3. buf' = [buf EXCEPT ![Slot(store)] = e] /\ protect' = [protect EXCEPT ![Slot(store)] = frame]
        /\ store' = Slot(store) + 1 /\ unread' = unread + 1 /\ fetch' = fetch
    BY <1>1 DEF Kept
  <1> HIDE DEF e
  <1>4. Distance'
    BY <1>0, <1>3, SizeAssumption DEF FifoInv, TypeOK, Distance, Slot, Pointers
  <1>5. \A k \in 0 .. unread : Nth(k)' = Nth(k)
    BY <1>3 DEF Nth
  <1>6. Slot(store) \in Slots
    BY SlotInSlots DEF FifoInv, TypeOK
  <1>7. \A k \in 0 .. unread - 1 : buf'[Nth(k)] = buf[Nth(k)] /\ protect'[Nth(k)] = protect[Nth(k)]
    BY <1>3, <1>6, NthSlots DEF FifoInv, TypeOK
  <1>8. buf'[Nth(unread)] = e /\ protect'[Nth(unread)] = frame
    BY <1>3, <1>6, NthSlots DEF FifoInv, TypeOK
  <1>9. \A k \in 0 .. unread' - 1 : k \in 0 .. unread - 1 \/ k = unread
    BY <1>3 DEF FifoInv, TypeOK
  <1>10. Kept0' /\ UnreadProtected'
    BY <1>2, <1>3, <1>5, <1>7, <1>8, <1>9 DEF FifoInv, TypeOK, Kept0, UnreadProtected
  <1>11. TypeOK'
    BY PutEventType DEF FifoInv
  <1>12. FifoInv'
    BY <1>4, <1>10, <1>11 DEF FifoInv
  <1>13. unread \in 0 .. unread /\ 0 .. unread - 1 \subseteq 0 .. unread
    BY DEF FifoInv, TypeOK
  <1>14. \A k \in 0 .. unread : k < unread \/ k = unread
    BY <1>13 DEF FifoInv, TypeOK
  <1>15. \A k \in 0 .. unread : buf'[Nth(k)'] = IF k < unread THEN buf[Nth(k)] ELSE e
    BY <1>5, <1>7, <1>8, <1>13, <1>14
  <1> QED
    BY <1>2, <1>3, <1>12, <1>15

(* An event that is taken: what becomes of the unread events.                *)
LEMMA TakeStep ==
  ASSUME FifoInv, ~Empty, Consume, TypeOK',
         \A s \in Slots : s # Slot(fetch) => buf'[s] = buf[s] /\ protect'[s] = protect[s]
  PROVE  /\ FifoInv'
         /\ unread \in Nat \ {0} /\ unread' = unread - 1
         /\ \A k \in 0 .. unread' - 1 : buf'[Nth(k)'] = buf[Nth(k + 1)]
         /\ taken' = <<buf[Nth(0)]>>
  <1>1. /\ unread \in Nat \ {0} /\ unread' = unread - 1 /\ fetch' = Slot(fetch) + 1
        /\ store' = store /\ peak' = peak
    BY EmptyIffNoneUnread DEF Consume, FlagIsExact, FifoInv, TypeOK
  <1>2. Distance'
    BY <1>1, SizeAssumption, BoundAssumption DEF FifoInv, TypeOK, Distance, Slot, Pointers
  <1>3. \A k \in 0 .. unread' - 1 : Nth(k)' = Nth(k + 1) /\ k + 1 \in 0 .. unread
    BY <1>1, SizeAssumption DEF FifoInv, TypeOK, Distance, Slot, Pointers, Nth
  <1>4. \A k \in 0 .. unread' - 1 : Nth(k + 1) \in Slots /\ Nth(k + 1) # Slot(fetch)
    BY <1>1, NthSlots DEF FifoInv, TypeOK
  <1>5. \A k \in 0 .. unread' - 1 :
           buf'[Nth(k)'] = buf[Nth(k + 1)] /\ protect'[Nth(k)'] = protect[Nth(k + 1)]
    BY <1>3, <1>4
  <1>6. \A k \in 0 .. unread' - 1 : k + 1 \in 0 .. unread - 1
    BY <1>1
  <1>7. Kept0' /\ UnreadProtected'
    BY <1>5, <1>6 DEF FifoInv, Kept0, UnreadProtected
  <1>8. taken' = <<buf[Nth(0)]>>
    BY NthSlots DEF Consume, Front
  <1> QED
    BY <1>1, <1>2, <1>5, <1>7, <1>8 DEF FifoInv

(* A step that leaves the ring alone. *)
LEMMA RingUnchanged ==
  ASSUME FifoInv, TypeOK', UNCHANGED <<ring, unread, peak>>
  PROVE  FifoInv' /\ Unread' = Unread
  BY DEF ring, FifoInv, Distance, Kept0, UnreadProtected, Unread, Nth

-----------------------------------------------------------------------------
(* The mapping: Unread is a sequence of events; Put appends, Take takes the  *)
(* first.                                                                    *)
LEMMA UnreadSeq ==
  ASSUME FifoInv
  PROVE  /\ Unread \in Seq(Event) /\ Len(Unread) = unread
         /\ \A k \in 1 .. unread : Unread[k] = buf[Nth(k - 1)]
  <1>1. unread \in Nat
    BY DEF FifoInv, TypeOK
  <1>2. \A k \in 1 .. unread : buf[Nth(k - 1)] \in Event
    BY <1>1 DEF FifoInv, Kept0
  <1> QED
    BY <1>1, <1>2 DEF Unread

(* Storing an event is storing it in the abstract queue.                     *)
LEMMA PutMaps ==
  ASSUME FifoInv, peak' < Size, Arrives, NEW kind \in Kinds, NEW frame \in Frames \cup {NoFrame},
         kind = "user" => frame \in Frames, PutEvent(kind, frame)
  PROVE  FifoInv' /\ \E e \in Event : Fifo!Put(e)
  <1>1. PICK e \in Event : \A k \in 0 .. unread :
                              buf'[Nth(k)'] = IF k < unread THEN buf[Nth(k)] ELSE e
    BY PutStep
  <1>2. FifoInv' /\ unread' = unread + 1 /\ unread \in Nat
    BY PutStep DEF FifoInv, TypeOK
  <1>3. Unread' \in Seq(Event) /\ Len(Unread') = unread + 1
        /\ \A k \in 1 .. unread + 1 : Unread'[k] = buf'[Nth(k - 1)']
    BY <1>2 DEF Unread, FifoInv, Kept0
  <1>4. Append(Unread, e) \in Seq(Event) /\ Len(Append(Unread, e)) = unread + 1
        /\ \A k \in 1 .. unread + 1 : Append(Unread, e)[k] = IF k <= unread THEN Unread[k] ELSE e
    BY <1>2, UnreadSeq, AppendProperties
  <1>5. \A k \in 1 .. unread + 1 : Unread'[k] = Append(Unread, e)[k]
    <2> TAKE k \in 1 .. unread + 1
    <2>1. k - 1 \in 0 .. unread /\ (k <= unread <=> k - 1 < unread) /\ (k <= unread => k \in 1 .. unread)
      BY <1>2
    <2> QED
      BY <1>1, <1>3, <1>4, <2>1, UnreadSeq
  <1>6. Unread' = Append(Unread, e)
    BY <1>2, <1>3, <1>4, <1>5, SeqEqual
  <1>7. taken' = taken
    BY PutEventCases DEF Kept, Dropped
  <1> QED
    BY <1>2, <1>6, <1>7 DEF Fifo!Put

(* Taking an event is taking it from the abstract queue.                     *)
LEMMA TakeMaps ==
  ASSUME FifoInv, ~Empty, Consume, TypeOK',
         \A s \in Slots : s # Slot(fetch) => buf'[s] = buf[s] /\ protect'[s] = protect[s]
  PROVE  FifoInv' /\ Fifo!Take
  <1>1. /\ FifoInv' /\ unread \in Nat \ {0} /\ unread' = unread - 1
        /\ \A k \in 0 .. unread' - 1 : buf'[Nth(k)'] = buf[Nth(k + 1)]
        /\ taken' = <<buf[Nth(0)]>>
    BY TakeStep
  <1>2. Unread # <<>>
    BY <1>1, UnreadSeq, EmptySeq
  <1>3. taken' = <<Head(Unread)>>
    <2>1. Head(Unread) = Unread[1]
      BY <1>2, UnreadSeq
    <2> QED
      BY <1>1, <2>1, UnreadSeq
  <1>4. Tail(Unread) \in Seq(Event) /\ Len(Tail(Unread)) = unread - 1
        /\ \A k \in 1 .. unread - 1 : Tail(Unread)[k] = Unread[k + 1]
    BY <1>1, <1>2, UnreadSeq, HeadTailProperties
  <1>5. Unread' \in Seq(Event) /\ Len(Unread') = unread - 1
        /\ \A k \in 1 .. unread - 1 : Unread'[k] = buf'[Nth(k - 1)']
    BY <1>1 DEF Unread, FifoInv, Kept0
  <1>6. \A k \in 1 .. unread - 1 : Unread'[k] = Tail(Unread)[k]
    <2> TAKE k \in 1 .. unread - 1
    <2>1. k - 1 \in 0 .. unread' - 1 /\ (k - 1) + 1 = k /\ k + 1 \in 1 .. unread /\ (k + 1) - 1 = k
      BY <1>1
    <2>2. Unread'[k] = buf[Nth((k - 1) + 1)]
      BY <1>1, <1>5, <2>1
    <2>3. Unread[k + 1] = buf[Nth((k + 1) - 1)]
      BY <2>1, UnreadSeq
    <2> QED
      BY <1>4, <2>1, <2>2, <2>3
  <1>7. Unread' = Tail(Unread)
    BY <1>1, <1>4, <1>5, <1>6, SeqEqual
  <1> QED
    BY <1>1, <1>2, <1>3, <1>7 DEF Fifo!Take

(* Every step is a step of the abstract queue, or leaves it alone.           *)
LEMMA StepMaps ==
  ASSUME FifoInv, peak' < Size, [Next]_vars
  PROVE  FifoInv' /\ [Fifo!Next]_(Fifo!vars)
  <1>1. TypeOK /\ TypeOK'
    BY NextTypeOK DEF FifoInv
  <1>2. CASE StoreSwitch
    BY <1>2, PutMaps DEF StoreSwitch, Kinds, Fifo!Next
  <1>3. ASSUME NEW f \in Frames, NEW k \in Kinds, StoreEvent(k, f)
        PROVE  FifoInv' /\ [Fifo!Next]_(Fifo!vars)
    BY <1>3, PutMaps DEF StoreEvent, Fifo!Next
  <1>4. CASE GetNothing \/ GetSpecial
    BY <1>1, <1>4, TakeMaps DEF GetNothing, GetSpecial, Fifo!Next
  <1>5. CASE GetUserEvent
    <2>1. \A s \in Slots : s # Slot(fetch) => buf'[s] = buf[s] /\ protect'[s] = protect[s]
      BY <1>1, <1>5, FrontType DEF GetUserEvent, TypeOK
    <2> QED
      BY <1>1, <1>5, <2>1, TakeMaps DEF GetUserEvent, Fifo!Next
  <1>6. CASE DiscardInput
    <2>1. unread' = 0 /\ fetch' = store /\ store' = store /\ taken' = taken
      BY <1>6 DEF DiscardInput
    <2>2. FifoInv'
      <3>1. Distance'
        BY <1>1, <2>1, SizeAssumption, BoundAssumption DEF Distance, TypeOK, Pointers
      <3> QED
        BY <1>1, <2>1, <3>1 DEF FifoInv, Kept0, UnreadProtected
    <2>3. Unread' = <<>>
      BY <2>1, <2>2, UnreadSeq, EmptySeq DEF Unread
    <2> QED
      BY <2>1, <2>2, <2>3 DEF Fifo!Next, Fifo!Clear
  <1>7. CASE \/ IgnoreSwitch \/ GetSwitchFrame \/ UNCHANGED vars
            \/ \E f \in Frames : StoreQuitChar(f) \/ StoreQuitCharWaiting(f) \/ SelectFrame(f)
    <2>1. UNCHANGED <<ring, unread, peak>> /\ taken' = taken
      BY <1>7 DEF IgnoreSwitch, GetSwitchFrame, StoreQuitChar, StoreQuitCharWaiting, SelectFrame,
                  vars
    <2> QED
      BY <1>1, <2>1, RingUnchanged DEF Fifo!vars
  <1> QED
    BY <1>2, <1>3, <1>4, <1>5, <1>6, <1>7 DEF Next

(* Once too many events arrived, nothing is claimed any more.                *)
FifoUntilFull == TypeOK /\ (peak < Size => FifoInv)

(* The ring starts as a queue.                                               *)
LEMMA InitFifoUntilFull == Init => FifoUntilFull
  BY InitFifoInv DEF FifoUntilFull, FifoInv

(* The peak of unread events only grows.                                     *)
LEMMA PeakGrows == ASSUME TypeOK, [Next]_vars PROVE peak' \in Nat /\ peak <= peak'
  <1>1. peak' = peak \/ peak' = (IF peak > unread THEN peak ELSE unread + 1)
    <2>1. ASSUME NEW kind, NEW frame, PutEvent(kind, frame)
          PROVE  peak' = IF peak > unread THEN peak ELSE unread + 1
      BY <2>1, PutEventCases DEF Kept, Dropped
    <2> QED
      BY <2>1 DEF Next, IgnoreSwitch, StoreSwitch, StoreEvent, StoreQuitChar, StoreQuitCharWaiting,
                  SelectFrame, GetNothing, GetSpecial, GetSwitchFrame, GetUserEvent, DiscardInput,
                  Consume, vars
  <1> QED
    BY <1>1 DEF TypeOK

(* Every step keeps the ring a queue until it was full once.                 *)
LEMMA NextFifoUntilFull == FifoUntilFull /\ [Next]_vars => FifoUntilFull'
  <1> SUFFICES ASSUME FifoUntilFull, [Next]_vars PROVE FifoUntilFull'
    OBVIOUS
  <1>1. TypeOK'
    BY NextTypeOK DEF FifoUntilFull
  <1>2. ASSUME peak' < Size PROVE FifoInv'
    <2>1. peak < Size
      BY <1>2, PeakGrows, SizeAssumption DEF FifoUntilFull, TypeOK
    <2> QED
      BY <1>2, <2>1, StepMaps DEF FifoUntilFull
  <1> QED
    BY <1>1, <1>2 DEF FifoUntilFull

(* While fewer events than slots are there, the two pointers differ exactly  *)
(* when an event is unread, and the vector marked by the garbage collector   *)
(* holds the frame of every unread event.                                    *)
THEOREM PointersExact == Spec => [](FlagIsExact /\ UnreadProtected)
  <1>1. FifoUntilFull => FlagIsExact /\ UnreadProtected
    <2> SUFFICES ASSUME FifoUntilFull PROVE FlagIsExact /\ UnreadProtected
      OBVIOUS
    <2>1. CASE peak < Size
      BY <2>1, EmptyIffNoneUnread DEF FifoUntilFull, FifoInv
    <2>2. CASE ~(peak < Size)
      BY <2>2 DEF FlagIsExact, UnreadProtected
    <2> QED
      BY <2>1, <2>2
  <1> QED
    BY <1>1, InitFifoUntilFull, NextFifoUntilFull, PTL DEF Spec

(* The frame of an unread event is not collected while it waits: the part of *)
(* the theorem above that the garbage collector relies on.                   *)
THEOREM FramesProtected == Spec => []UnreadProtected
  BY PointersExact, PTL

(* While fewer events than slots are there, kbd_buffer is a FIFO queue:      *)
(* every initial state and every step maps to one of EventQueue.             *)
THEOREM ImplementsQueue == Spec => FifoSpec
  <1>1. Init => Fifo!Init
    <2> SUFFICES ASSUME Init PROVE Fifo!Init
      OBVIOUS
    <2>1. unread = 0 /\ taken = <<>> /\ FifoInv
      BY InitFifoInv DEF Init
    <2>2. Unread = <<>>
      BY <2>1, UnreadSeq, EmptySeq DEF Unread
    <2> QED
      BY <2>1, <2>2 DEF Fifo!Init
  <1>2. FifoUntilFull /\ [Next]_vars => [peak' < Size => Fifo!Next]_(Fifo!vars)
    <2> SUFFICES ASSUME FifoUntilFull, [Next]_vars, peak' < Size PROVE [Fifo!Next]_(Fifo!vars)
      OBVIOUS
    <2>1. peak < Size
      BY PeakGrows, SizeAssumption DEF FifoUntilFull, TypeOK
    <2> QED
      BY <2>1, StepMaps DEF FifoUntilFull
  <1> QED
    BY <1>1, <1>2, InitFifoUntilFull, NextFifoUntilFull, PTL DEF Spec, FifoSpec

-----------------------------------------------------------------------------
(* The buffer of dropped objects. *)

(* The mutex is held by the thread inside its critical section; an object    *)
(* about to be stored has room.                                              *)
Exclusion ==
  /\ (mutex = "pm") <=> (pm = "locked")
  /\ (mutex = "gd") <=> (gd = "scan")
  /\ pm \in {"store", "locked"} => count < DropMax

Oldest == NextCookie - count

(* What get_drop has done so far for the request in progress.                *)
Progress ==
  /\ gd = "idle" \/ wanted <= newest => Oldest = newest + 1
  /\ gd \in {"lock", "scan"} /\ wanted > newest => Oldest <= wanted /\ newest < Oldest
  /\ gd = "answer" /\ wanted > newest => found = wanted /\ Oldest = wanted + 1
  /\ gd # "idle" => 0 <= wanted /\ wanted < NextCookie
  /\ newest < NextCookie /\ -1 <= newest

EventsOK == events \in Seq(Nat) /\ \A i \in 1 .. Len(events) : events[i] < cookie

DropInv == DropTypeOK /\ EventsOK /\ Exclusion /\ InOrder /\ Progress

(* Nothing has been dropped at first.                                        *)
LEMMA InitDropInv == DropInit => DropInv
  BY DropMaxAssumption
     DEF DropInit, DropInv, DropTypeOK, EventsOK, Exclusion, InOrder, Progress, Oldest, NextCookie, NthDrop,
         DropSlots, None

(* The counting of slots: distinct ones, and the one after the oldest.       *)
LEMMA NthDropSlots ==
  ASSUME DropInv
  PROVE  /\ \A k \in 0 .. count : k < DropMax => NthDrop(k) \in DropSlots
         /\ \A j, k \in 0 .. count : j < DropMax /\ k < DropMax /\ j # k => NthDrop(j) # NthDrop(k)
         /\ NthDrop(0) = out
  BY SMTT(30), DropMaxAssumption DEF DropInv, DropTypeOK, InOrder, NthDrop, DropSlots

(* send_drop stores an object. *)
LEMMA StoreStep == ASSUME DropInv, Store PROVE DropInv'
  <1>1. count < DropMax /\ count \in Nat /\ pm = "locked" /\ gd # "scan"
    BY DEF DropInv, DropTypeOK, Exclusion, Store
  <1>2. in \in DropSlots /\ in = NthDrop(count) /\ NextCookie = cookie /\ NextCookie' = cookie + 1
        /\ count' = count + 1 /\ out' = out /\ list' = [list EXCEPT ![in] = cookie]
    BY DEF DropInv, DropTypeOK, InOrder, Store, NextCookie
  <1>3. DropTypeOK' /\ EventsOK'
    BY <1>1, <1>2, DropMaxAssumption
       DEF DropInv, DropTypeOK, EventsOK, Store, Following, DropSlots, pmVars, gdVars, emacsVars
  <1>4. Exclusion'
    BY <1>1 DEF DropInv, Exclusion, Store, gdVars
  <1>5. InOrder'
    <2>1. \A k \in 0 .. count : NthDrop(k)' = NthDrop(k)
      BY <1>2 DEF NthDrop
    <2>2. \A k \in 0 .. count - 1 : list'[NthDrop(k)] = cookie - count + k
      <3>1. \A k \in 0 .. count - 1 : k \in 0 .. count /\ k < DropMax /\ k # count
        BY <1>1, DropMaxAssumption
      <3>2. count \in 0 .. count
        BY <1>1
      <3>3. \A k \in 0 .. count - 1 : NthDrop(k) \in DropSlots /\ NthDrop(k) # in
        BY <1>1, <1>2, <3>1, <3>2, NthDropSlots
      <3> QED
        BY <1>2, <3>3 DEF DropInv, DropTypeOK, InOrder
    <2>3. list'[NthDrop(count)] = cookie
      BY <1>2 DEF DropInv, DropTypeOK
    <2>4. in' = NthDrop(count)'
      BY <1>1, <1>2, DropMaxAssumption DEF DropInv, DropTypeOK, Store, Following, NthDrop, DropSlots
    <2>5. \A k \in 0 .. count : k \in 0 .. count - 1 \/ k = count
      BY <1>1
    <2>6. \A k \in 0 .. count' - 1 : list'[NthDrop(k)'] = NextCookie' - count' + k
      <3>1. cookie \in Nat
        BY DEF DropInv, DropTypeOK
      <3>2. count' - 1 = count /\ \A k \in 0 .. count : NextCookie' - count' + k = cookie - count + k
        BY <1>1, <1>2, <3>1
      <3> QED
        BY <1>1, <2>1, <2>2, <2>3, <2>5, <3>1, <3>2
    <2>7. count' <= DropMax
      BY <1>1, <1>2, DropMaxAssumption
    <2> QED
      BY <2>4, <2>6, <2>7 DEF InOrder
  <1>6. Progress'
    BY <1>1, <1>2 DEF DropInv, DropTypeOK, Progress, Oldest, Store, gdVars, emacsVars
  <1> QED
    BY <1>3, <1>4, <1>5, <1>6 DEF DropInv

(* get_drop removes the oldest object.                                       *)
LEMMA RemoveRing ==
  ASSUME DropInv, gd = "scan", count > 0, RemoveOldest, UNCHANGED pm
  PROVE  InOrder' /\ Oldest' = Oldest + 1 /\ list[out] = Oldest
         /\ count' \in Nat /\ out' \in DropSlots /\ count' < DropMax
  <1>1. count \in Nat \ {0} /\ count' = count - 1 /\ out' = Following(out) /\ in' = in /\ list' = list
        /\ NextCookie' = NextCookie
    BY DEF DropInv, DropTypeOK, RemoveOldest, NextCookie
  <1>2. count' \in Nat /\ out' \in DropSlots /\ count' < DropMax
    BY <1>1, DropMaxAssumption DEF DropInv, DropTypeOK, InOrder, Following, DropSlots
  <1>3. \A k \in 0 .. count - 1 : NthDrop(k)' = NthDrop(k + 1)
    BY <1>1, DropMaxAssumption DEF DropInv, DropTypeOK, InOrder, Following, NthDrop, DropSlots
  <1>4. NextCookie \in Nat
    BY DEF DropInv, DropTypeOK, NextCookie
  <1>5. \A k \in 0 .. count - 2 : list[NthDrop(k + 1)] = NextCookie - count + (k + 1)
    <2>1. \A k \in 0 .. count - 2 : k + 1 \in 0 .. count - 1
      BY <1>1
    <2> QED
      BY <2>1 DEF DropInv, InOrder
  <1>6. \A k \in 0 .. count' - 1 : list'[NthDrop(k)'] = NextCookie' - count' + k
    <2> TAKE k \in 0 .. count' - 1
    <2>1. k \in 0 .. count - 2 /\ k \in 0 .. count - 1
      BY <1>1
    <2>2. NextCookie' - count' + k = NextCookie - count + (k + 1)
      BY <1>1, <1>4, <2>1
    <2> QED
      BY <1>1, <1>3, <1>5, <2>1, <2>2
  <1>7. in' = NthDrop(count)'
    <2>1. count - 1 \in 0 .. count - 1 /\ (count - 1) + 1 = count
      BY <1>1
    <2>2. in = NthDrop((count - 1) + 1)
      BY <2>1 DEF DropInv, InOrder
    <2> QED
      BY <1>1, DropMaxAssumption DEF DropInv, DropTypeOK, InOrder, Following, NthDrop, DropSlots
  <1>8. list[out] = Oldest
    <2>1. 0 \in 0 .. count - 1 /\ NthDrop(0) = out
      BY <1>1, NthDropSlots
    <2> QED
      BY <1>1, <1>4, <2>1 DEF DropInv, InOrder, Oldest
  <1>9. count' <= DropMax /\ Oldest' = Oldest + 1
    BY <1>1, <1>2, <1>4, DropMaxAssumption DEF Oldest
  <1> QED
    BY <1>2, <1>6, <1>7, <1>8, <1>9 DEF InOrder

(* get_drop finds the object asked for.                                      *)
LEMMA FoundStep == ASSUME DropInv, Found PROVE DropInv'
  <1>1. /\ gd = "scan" /\ count > 0 /\ list[out] = wanted /\ found' = list[out] /\ gd' = "answer"
        /\ mutex' = "free" /\ RemoveOldest /\ UNCHANGED <<pmVars, wanted, emacsVars>>
    BY DEF Found
  <1>2. InOrder' /\ Oldest' = Oldest + 1 /\ list[out] = Oldest
        /\ count' \in Nat /\ out' \in DropSlots /\ count' < DropMax
    BY <1>1, RemoveRing DEF pmVars
  <1>3. UNCHANGED <<list, in, cookie>>
    BY <1>1 DEF RemoveOldest
  <1>4. DropTypeOK' /\ EventsOK'
    BY <1>1, <1>2, <1>3 DEF DropInv, DropTypeOK, EventsOK, pmVars, emacsVars
  <1>5. Exclusion'
    BY <1>1, <1>2 DEF DropInv, Exclusion, pmVars
  <1>6. Progress'
    <2>1. NextCookie' = NextCookie /\ Oldest \in Int /\ newest \in Int /\ wanted \in Int
      BY <1>1, <1>3 DEF DropInv, DropTypeOK, NextCookie, Oldest, pmVars
    <2>2. newest' = newest /\ wanted' = wanted
      BY <1>1, <1>3 DEF gdVars, emacsVars
    <2> QED
      BY <1>1, <1>2, <2>1, <2>2 DEF DropInv, Progress, gdVars
  <1> QED
    BY <1>2, <1>4, <1>5, <1>6 DEF DropInv

(* get_drop discards an object older than the one asked for.                 *)
LEMMA SkipStep == ASSUME DropInv, SkipOlder PROVE DropInv'
  <1>1. /\ gd = "scan" /\ count > 0 /\ list[out] < wanted /\ RemoveOldest
        /\ UNCHANGED <<mutex, pmVars, gdVars, emacsVars>>
    BY DEF SkipOlder
  <1>2. InOrder' /\ Oldest' = Oldest + 1 /\ list[out] = Oldest
        /\ count' \in Nat /\ out' \in DropSlots /\ count' < DropMax
    BY <1>1, RemoveRing DEF pmVars
  <1>3. UNCHANGED <<list, in, cookie>>
    BY <1>1 DEF RemoveOldest
  <1>4. DropTypeOK' /\ EventsOK'
    BY <1>1, <1>2, <1>3 DEF DropInv, DropTypeOK, EventsOK, pmVars, gdVars, emacsVars
  <1>5. Exclusion'
    BY <1>1, <1>2 DEF DropInv, Exclusion, pmVars, gdVars
  <1>6. Progress'
    <2>1. NextCookie' = NextCookie /\ Oldest \in Int /\ newest \in Int /\ wanted \in Int
      BY <1>1, <1>3 DEF DropInv, DropTypeOK, NextCookie, Oldest, pmVars
    <2>2. newest' = newest /\ wanted' = wanted
      BY <1>1, <1>3 DEF gdVars, emacsVars
    <2> QED
      BY <1>1, <1>2, <2>1, <2>2 DEF DropInv, Progress, gdVars
  <1> QED
    BY <1>2, <1>4, <1>5, <1>6 DEF DropInv

(* The object wanted is there: a search for one not answered yet succeeds.   *)
LEMMA NotThereStep == ASSUME DropInv, NotThere PROVE DropInv'
  <1>1. /\ gd = "scan" /\ (count = 0 \/ list[out] > wanted) /\ gd' = "answer" /\ mutex' = "free"
        /\ UNCHANGED <<dropRing, pmVars, wanted, found, emacsVars>>
    BY DEF NotThere
  <1>2. wanted <= newest
    <2> SUFFICES ASSUME wanted > newest PROVE FALSE
      BY DEF DropInv, DropTypeOK
    <2>1. Oldest <= wanted /\ wanted < NextCookie
      BY <1>1 DEF DropInv, Progress
    <2>2. count \in Nat /\ wanted \in Int /\ NextCookie \in Int /\ Oldest = NextCookie - count
      BY DEF DropInv, DropTypeOK, NextCookie, Oldest
    <2>3. count > 0
      BY <2>1, <2>2
    <2>4. list[out] = Oldest
      <3>1. 0 \in 0 .. count - 1 /\ NthDrop(0) = out
        BY <2>2, <2>3, NthDropSlots
      <3> QED
        BY <2>2, <3>1 DEF DropInv, InOrder
    <2> QED
      BY <1>1, <2>1, <2>2, <2>3, <2>4
  <1>3. DropTypeOK' /\ EventsOK' /\ Exclusion' /\ InOrder'
    BY <1>1 DEF DropInv, DropTypeOK, EventsOK, Exclusion, InOrder, NextCookie, NthDrop, dropRing, pmVars,
                emacsVars
  <1>4. Progress'
    BY <1>1, <1>2 DEF DropInv, DropTypeOK, Progress, NextCookie, Oldest, dropRing, pmVars, emacsVars
  <1> QED
    BY <1>3, <1>4 DEF DropInv

(* Emacs asks for an object it was told of, and only while no other request  *)
(* is in progress.                                                           *)
LEMMA AskStep ==
  ASSUME DropInv, NEW c \in Nat, c < NextCookie, Ask(c), EventsOK'
  PROVE  DropInv'
  <1>1. /\ gd = "idle" /\ gd' = "lock" /\ wanted' = c /\ asks' = asks + 1 /\ emacs' = c
        /\ UNCHANGED <<dropRing, mutex, pmVars, found, answer, newest>>
    BY DEF Ask
  <1>2. DropTypeOK' /\ Exclusion' /\ InOrder'
    BY <1>1 DEF DropInv, DropTypeOK, Exclusion, InOrder, NextCookie, NthDrop, dropRing, pmVars
  <1>3. NextCookie' = NextCookie /\ Oldest' = Oldest /\ newest' = newest /\ newest \in Int
        /\ Oldest \in Int /\ NextCookie \in Int
    BY <1>1 DEF DropInv, DropTypeOK, NextCookie, Oldest, dropRing, pmVars
  <1>4. Progress'
    BY <1>1, <1>3 DEF DropInv, Progress
  <1> QED
    BY <1>2, <1>4 DEF DropInv

(* Every step of Emacs keeps the invariant.                                  *)
LEMMA EmacsStep == ASSUME DropInv, EmacsThread PROVE DropInv'
  <1>1. cookie \in Nat /\ cookie <= NextCookie /\ newest < NextCookie /\ newest \in Int
        /\ NextCookie \in Int
    BY DEF DropInv, DropTypeOK, Progress, NextCookie
  <1>2. ASSUME events # <<>>, events' = Tail(events), cookie' = cookie
        PROVE  EventsOK' /\ Head(events) \in Nat /\ Head(events) < cookie
    <2>1. /\ Head(events) \in Nat /\ Tail(events) \in Seq(Nat) /\ Len(Tail(events)) = Len(events) - 1
          /\ Len(events) \in Nat \ {0} /\ Head(events) = events[1]
          /\ \A i \in 1 .. Len(events) - 1 : Tail(events)[i] = events[i + 1]
      BY <1>2, HeadTailProperties, EmptySeq DEF DropInv, EventsOK
    <2>2. \A i \in 1 .. Len(events) - 1 : i + 1 \in 1 .. Len(events)
      BY <2>1
    <2> QED
      BY <1>2, <2>1, <2>2 DEF DropInv, EventsOK
  <1>3. CASE AskNext
    BY <1>1, <1>2, <1>3, AskStep DEF AskNext, Ask, dropRing
  <1>4. CASE AskAgain
    <2>1. PICK c \in 0 .. newest : Ask(c)
      BY <1>4 DEF AskAgain
    <2>2. c \in Nat /\ c < NextCookie
      BY <1>1
    <2>3. EventsOK'
      BY <1>4, <2>1 DEF AskAgain, Ask, dropRing, DropInv, EventsOK
    <2> QED
      BY <2>1, <2>2, <2>3, AskStep
  <1>5. CASE IgnoreEvent
    <2>1. EventsOK'
      BY <1>2, <1>5 DEF IgnoreEvent, dropRing
    <2>2. UNCHANGED <<dropRing, mutex, pmVars, gdVars, emacs, answer, newest, asks>>
      BY <1>5 DEF IgnoreEvent
    <2> QED
      BY <2>1, <2>2 DEF DropInv, DropTypeOK, Exclusion, InOrder, Progress, NextCookie, Oldest,
                        NthDrop, dropRing, pmVars, gdVars
  <1> QED
    BY <1>3, <1>4, <1>5 DEF EmacsThread

(* The steps of the PM thread but the store itself. *)
LEMMA PmStep == ASSUME colors' = 0, DropInv, PmThread PROVE DropInv'
  <1>1. CASE DropColor
    <2>1. colors \in Nat /\ colors' = colors + 1
      BY <1>1 DEF DropColor, DropInv, DropTypeOK
    <2> QED
      BY <2>1, colors' = 0
  <1>2. CASE Store
    BY <1>2, StoreStep
  <1>3. CASE SendEvent
    <2>1. /\ pm = "send" /\ pm' = "idle" /\ events' = Append(events, cookie) /\ cookie' = cookie + 1
          /\ UNCHANGED <<list, in, out, count, mutex, items, colors, gdVars, emacs, answer, newest, asks>>
      BY <1>3 DEF SendEvent
    <2>2. NextCookie' = NextCookie /\ Oldest' = Oldest /\ cookie \in Nat
      BY <2>1 DEF NextCookie, Oldest, DropInv, DropTypeOK
    <2>3. EventsOK'
      <3>1. /\ Append(events, cookie) \in Seq(Nat) /\ Len(Append(events, cookie)) = Len(events) + 1
            /\ Len(events) \in Nat
            /\ \A i \in 1 .. Len(events) + 1 :
                 Append(events, cookie)[i] = IF i <= Len(events) THEN events[i] ELSE cookie
        BY <2>2, AppendProperties, LenProperties DEF DropInv, EventsOK
      <3>2. \A i \in 1 .. Len(events) : events[i] \in Nat /\ events[i] < cookie
        BY DEF DropInv, EventsOK
      <3>3. \A i \in 1 .. Len(events) + 1 : i <= Len(events) => i \in 1 .. Len(events)
        BY <3>1
      <3> QED
        BY <2>1, <2>2, <3>1, <3>2, <3>3 DEF EventsOK
    <2>4. DropTypeOK' /\ Exclusion'
      BY <2>1 DEF DropInv, DropTypeOK, Exclusion, gdVars
    <2>5. InOrder'
      BY <2>1, <2>2 DEF DropInv, InOrder, NthDrop
    <2>6. Progress'
      BY <2>1, <2>2 DEF DropInv, Progress, gdVars
    <2> QED
      BY <2>3, <2>4, <2>5, <2>6 DEF DropInv
  <1>4. CASE DropItem \/ EndDrag \/ LockStore \/ \E n \in 1 .. MaxItems : DragOver(n)
    <2>1. /\ UNCHANGED <<dropRing, gdVars, emacsVars>>
          /\ items' \in Nat /\ colors' = colors /\ pm # "send" /\ pm' # "send"
      BY <1>4 DEF DropItem, EndDrag, LockStore, DragOver, DropInv, DropTypeOK, pmVars
    <2>2. pm' \in {"idle", "store", "locked"} /\ mutex' \in {"free", "pm", "gd"}
          /\ (pm' \in {"store", "locked"} => count < DropMax)
          /\ (mutex' = "pm" <=> pm' = "locked") /\ (mutex' = "gd" <=> gd = "scan")
      BY <1>4 DEF DropItem, EndDrag, LockStore, DragOver, DropInv, DropTypeOK, Exclusion
    <2> QED
      BY <2>1, <2>2 DEF DropInv, DropTypeOK, EventsOK, Exclusion, InOrder, Progress, NextCookie,
                        Oldest, NthDrop, dropRing, gdVars, emacsVars
  <1> QED
    BY <1>1, <1>2, <1>3, <1>4 DEF PmThread

(* Every step of the thread that reads the pipe keeps the invariant.         *)
LEMMA PipeStep == ASSUME DropInv, PipeThread PROVE DropInv'
  <1>1. CASE LockGet
    <2>1. /\ gd = "lock" /\ gd' = "scan" /\ mutex = "free" /\ mutex' = "gd" /\ found' = None
          /\ UNCHANGED <<dropRing, pmVars, wanted, emacsVars>>
      BY <1>1 DEF LockGet
    <2> QED
      BY <2>1 DEF DropInv, DropTypeOK, EventsOK, Exclusion, InOrder, Progress, NextCookie, Oldest,
                  NthDrop, dropRing, pmVars, emacsVars, None
  <1>2. CASE SendAnswer
    <2>1. /\ gd = "answer" /\ gd' = "idle" /\ answer' \in {None, Junk, found} /\ emacs' = None
          /\ newest' = (IF wanted > newest THEN wanted ELSE newest)
          /\ UNCHANGED <<dropRing, mutex, pmVars, wanted, found, events, asks>>
      BY <1>2 DEF SendAnswer
    <2>2. NextCookie' = NextCookie /\ Oldest' = Oldest /\ Oldest \in Int /\ newest \in Int
          /\ wanted \in Int /\ NextCookie \in Int
      BY <2>1 DEF DropInv, DropTypeOK, NextCookie, Oldest, dropRing, pmVars
    <2>3. Progress'
      BY <2>1, <2>2 DEF DropInv, Progress
    <2>4. DropTypeOK' /\ EventsOK' /\ Exclusion' /\ InOrder'
      BY <2>1 DEF DropInv, DropTypeOK, EventsOK, Exclusion, InOrder, NextCookie, NthDrop, dropRing, pmVars,
                  None, Junk
    <2> QED
      BY <2>3, <2>4 DEF DropInv
  <1> QED
    BY <1>1, <1>2, FoundStep, SkipStep, NotThereStep DEF PipeThread

(* Every step keeps the invariant while no color is dropped.                 *)
LEMMA NextDropInv == ASSUME colors' = 0, DropInv, [DropNext]_dropVars PROVE DropInv'
  <1>1. CASE UNCHANGED dropVars
    BY <1>1 DEF DropInv, DropTypeOK, EventsOK, Exclusion, InOrder, Progress, NextCookie, Oldest, NthDrop,
                dropVars, dropRing, pmVars, gdVars, emacsVars
  <1> QED
    BY <1>1, colors' = 0, PmStep, EmacsStep, PipeStep DEF DropNext

(* Only drop_color is about colors; while none was dropped all is in order.  *)
UntilColor == colors \in Nat /\ (colors = 0 => DropInv)

(* No color was dropped at first.                                            *)
LEMMA InitUntilColor == DropInit => UntilColor
  BY InitDropInv DEF UntilColor, DropInv, DropTypeOK

(* Every step keeps the invariant until a color was dropped.                 *)
LEMMA NextUntilColor == UntilColor /\ [DropNext]_dropVars => UntilColor'
  <1> SUFFICES ASSUME UntilColor, [DropNext]_dropVars PROVE UntilColor'
    OBVIOUS
  <1>1. colors' = colors \/ colors' = colors + 1
    BY DEF DropNext, PmThread, EmacsThread, PipeThread, DropItem, EndDrag, DropColor, LockStore, Store,
           SendEvent, DragOver, AskNext, AskAgain, Ask, IgnoreEvent, LockGet, Found, SkipOlder,
           NotThere, SendAnswer, RemoveOldest, pmVars, dropVars
  <1>2. colors' \in Nat /\ (colors' = 0 => colors = 0)
    BY <1>1 DEF UntilColor
  <1>3. CASE colors' = 0
    BY <1>2, <1>3, NextDropInv DEF UntilColor
  <1>4. CASE colors' # 0
    BY <1>2, <1>4 DEF UntilColor
  <1> QED
    BY <1>3, <1>4

(* With colors too every step keeps the types: drop_in and drop_out stay     *)
(* slots, and drop_count is not lowered when it is 0.                        *)
LEMMA NextTypes ==
  ASSUME DropTypeOK, events \in Seq(Nat), [DropNext]_dropVars
  PROVE  DropTypeOK' /\ events' \in Seq(Nat)
  <1>1. ASSUME PmThread PROVE DropTypeOK' /\ events' \in Seq(Nat)
    <2>1. CASE Store
      <3>1. cookie \in Int /\ Following(in) \in DropSlots /\ count + 1 \in Nat
        BY DropMaxAssumption DEF DropTypeOK, Following, DropSlots
      <3> QED
        BY <2>1, <3>1 DEF DropTypeOK, Store, pmVars, gdVars, emacsVars
    <2>2. CASE SendEvent
      BY <2>2 DEF DropTypeOK, SendEvent, gdVars
    <2>3. CASE DropItem
      <3>1. items' \in Nat
        BY <2>3 DEF DropTypeOK, DropItem
      <3>2. pm' \in {"idle", "store", "locked", "send"}
        BY <2>3 DEF DropItem
      <3> QED
        BY <2>3, <3>1, <3>2 DEF DropTypeOK, DropItem, dropRing, gdVars, emacsVars
    <2>5. CASE EndDrag \/ LockStore
      BY <2>5 DEF DropTypeOK, EndDrag, LockStore, dropRing, gdVars, emacsVars
    <2>6. CASE DropColor
      BY <2>6 DEF DropTypeOK, DropColor, dropRing, gdVars, emacsVars
    <2>4. ASSUME NEW n \in 1 .. MaxItems, DragOver(n) PROVE DropTypeOK' /\ events' \in Seq(Nat)
      BY <2>4, DropBoundAssumption DEF DropTypeOK, DragOver, dropRing, gdVars, emacsVars
    <2> QED
      BY <1>1, <2>1, <2>2, <2>3, <2>4, <2>5, <2>6 DEF PmThread
  <1>2. ASSUME EmacsThread PROVE DropTypeOK' /\ events' \in Seq(Nat)
    <2>1. events # <<>> => Head(events) \in Nat /\ Tail(events) \in Seq(Nat)
      BY HeadTailProperties
    <2>2. ASSUME NEW c \in Nat, Ask(c), events' \in Seq(Nat) PROVE DropTypeOK' /\ events' \in Seq(Nat)
      BY <2>2 DEF DropTypeOK, Ask, dropRing, pmVars
    <2>3. CASE AskNext
      BY <2>1, <2>2, <2>3 DEF AskNext
    <2>4. CASE AskAgain
      BY <2>2, <2>4 DEF AskAgain, DropTypeOK
    <2>5. CASE IgnoreEvent
      BY <2>1, <2>5 DEF DropTypeOK, IgnoreEvent, dropRing, pmVars, gdVars
    <2> QED
      BY <1>2, <2>3, <2>4, <2>5 DEF EmacsThread
  <1>3. ASSUME PipeThread PROVE DropTypeOK' /\ events' \in Seq(Nat)
    <2>1. RemoveOldest /\ count > 0 => /\ UNCHANGED <<list, in, cookie>>
                                       /\ out' \in DropSlots /\ count' \in Nat
      BY DropMaxAssumption DEF DropTypeOK, RemoveOldest, Following, DropSlots
    <2>2. list[out] \in Int
      BY DEF DropTypeOK
    <2>3. CASE LockGet \/ NotThere
      BY <2>3 DEF DropTypeOK, LockGet, NotThere, dropRing, pmVars, emacsVars, None
    <2>4. CASE Found
      BY <2>1, <2>2, <2>4 DEF DropTypeOK, Found, pmVars, emacsVars
    <2>5. CASE SkipOlder
      BY <2>1, <2>5 DEF DropTypeOK, SkipOlder, pmVars, gdVars, emacsVars
    <2>6. CASE SendAnswer
      BY <2>6 DEF DropTypeOK, SendAnswer, dropRing, pmVars, None, Junk
    <2> QED
      BY <1>3, <2>3, <2>4, <2>5, <2>6 DEF PipeThread
  <1>4. CASE UNCHANGED dropVars
    BY <1>4 DEF DropTypeOK, dropVars, dropRing, pmVars, gdVars, emacsVars
  <1> QED
    BY <1>1, <1>2, <1>3, <1>4 DEF DropNext

(* Even when colors are dropped into a full buffer, drop_in and drop_out     *)
(* stay slots of it and drop_count never falls below 0: drop_color spoils    *)
(* the order of the objects, not the memory around them.                     *)
THEOREM DropTypes == DropSpec => []DropTypeOK
  <1>1. DropInit => DropTypeOK /\ events \in Seq(Nat)
    BY InitDropInv DEF DropInv, EventsOK
  <1>2. DropTypeOK /\ events \in Seq(Nat) /\ [DropNext]_dropVars => (DropTypeOK /\ events \in Seq(Nat))'
    BY NextTypes
  <1> QED
    BY <1>1, <1>2, PTL DEF DropSpec

(* For every DROP_MAX: tested without the mutex, drop_count still never      *)
(* exceeds it, and the buffer holds the last objects dropped, in order,      *)
(* until a color is dropped.                                                 *)
THEOREM NeverOverflows == DropSpec => []RingOrdered
  <1>1. UntilColor => RingOrdered
    BY DEF UntilColor, DropInv, RingOrdered
  <1> QED
    BY <1>1, InitUntilColor, NextUntilColor, PTL DEF DropSpec

(* Asked about a drop event it has not passed before, get_drop answers with  *)
(* the object of that event, whichever earlier events Emacs ignored.         *)
THEOREM AnswersRight == DropSpec => RightAnswer
  <1>1. UntilColor /\ [DropNext]_dropVars
          => (colors = 0 /\ gd = "answer" /\ gd' = "idle" /\ wanted > newest => answer' = wanted)
    <2> SUFFICES ASSUME DropInv, [DropNext]_dropVars, gd = "answer", gd' = "idle", wanted > newest
                 PROVE  answer' = wanted
      BY DEF UntilColor
    <2>1. SendAnswer
      BY DEF DropNext, PmThread, EmacsThread, PipeThread, DropItem, EndDrag, DropColor, LockStore, Store,
             SendEvent, DragOver, AskNext, AskAgain, Ask, IgnoreEvent, LockGet, Found, SkipOlder,
             NotThere, gdVars, dropVars
    <2>2. found = wanted /\ wanted # None
      BY DEF DropInv, DropTypeOK, Progress, None
    <2> QED
      BY <2>1, <2>2 DEF SendAnswer
  <1> QED
    BY <1>1, InitUntilColor, NextUntilColor, PTL DEF DropSpec, RightAnswer
=============================================================================
