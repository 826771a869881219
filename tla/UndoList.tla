------------------------------ MODULE UndoList ------------------------------
(***************************************************************************)
(* The undo list of a buffer and the markers in its text: what the editing *)
(* functions of insdel.c record with the functions of undo.c, and what     *)
(* primitive-undo makes of it, undoing its own effects included.           *)
(*                                                                         *)
(* The text is a sequence of characters (the gap is in GapBuffer).  The    *)
(* list of records is a sequence, the newest first.  A record is undone by  *)
(* the same editing functions, which record again.  Not modelled: text     *)
(* properties, multibyte characters, narrowing, transpositions, and the    *)
(* NOUNDO changes of subst-char-in-region, which are not to be recorded.     *)
(***************************************************************************)
EXTENDS Integers, SequencesExt

CONSTANTS
  Strings,    \* what Lisp inserts, a set of sequences of characters
  Case,       \* what changes in place do to a character, a function
  FileText,   \* the text of the file when the buffer visited it
  Markers,
  Advancing,  \* those of insertion_type t
  MaxLen,     \* bound: the length of the text
  MaxEdits,   \* bound: edits that are not undoing
  MaxUndos,   \* bound: calls of primitive-undo
  MaxSaves    \* bound: times the buffer is saved

Chars == DOMAIN Case

ASSUME CaseAssumption == Case \in [Chars -> Chars]
ASSUME FileAssumption == FileText \in Seq(Chars)
ASSUME StringsAssumption == Strings \subseteq Seq(Chars) \ {<<>>}
ASSUME MarkersAssumption == IsFiniteSet(Markers) /\ Advancing \subseteq Markers
ASSUME BoundAssumption == MaxLen \in Nat

VARIABLES
  buf,      \* the buffer, its undo list, and what the record functions look at
  pending,  \* pending-undo-list: what primitive-undo returned last, if undoing,
            \* and whether it is still a tail of the undo list
  disk,     \* the text of the file
  past,     \* history: for the oldest record of each unit, the buffer before it
  restPast, \* history: the same for the pending list
  hasty,    \* history: the file was written twice within a tick of its clock
  halved,   \* history: primitive-undo was left in the middle of a unit
  edits, undos, saves

vars == <<buf, pending, disk, past, restPast, hasty, halved, edits, undos, saves>>

Boundary == [kind |-> "boundary"]
Point(p) == [kind |-> "point", at |-> p]
First(t) == [kind |-> "first", time |-> t]
Ins(beg, end) == [kind |-> "insert", beg |-> beg, end |-> end]
(* The position of a deletion is negative if point was at the end of the text. *)
Del(str, pos) == [kind |-> "delete", str |-> str, pos |-> pos]
Adj(m, by) == [kind |-> "adjust", marker |-> m, by |-> by]

Nowhere == 0
Unknown == -1
NonePending == [list |-> <<>>, tail |-> FALSE]

Init ==
  /\ \E t \in [Markers -> BOOLEAN], p \in [Markers -> 1 .. Len(FileText) + 1] :
       buf = [text |-> FileText, pt |-> 1,
              marks |-> p,            \* the charpos of the markers
              astray |-> {},          \* history: those set after an adjustment was recorded
              list |-> <<>>,          \* undo_list
              on |-> TRUE,            \* undo_list is not t
              modified |-> FALSE,     \* SAVE_MODIFF < MODIFF
              time |-> 0,             \* modtime
              own |-> FALSE,           \* last_undo_buffer is this buffer
              last |-> 1,             \* last_point_position
              here |-> FALSE,          \* last_point_position_buffer is this buffer
              error |-> FALSE]        \* primitive-undo signaled an error
  /\ pending = NonePending /\ disk = FileText /\ past = <<>> /\ restPast = <<>>
  /\ hasty = FALSE /\ halved = FALSE /\ edits = 0 /\ undos = 0 /\ saves = 0

-----------------------------------------------------------------------------
(* undo.c: a buffer B with something recorded *)
Consed(b, record) == [b EXCEPT !.list = <<record>> \o @]
AtBoundary(list) == list # <<>> /\ Head(list).kind = "boundary"

(* undo-boundary *)
Bounded(b) ==
  IF b.on /\ b.list # <<>> /\ ~AtBoundary(b.list) THEN Consed(b, Boundary) ELSE b

(* Edits of two buffers never share a unit. *)
Owned(b) == IF b.own THEN b ELSE [Bounded(b) EXCEPT !.own = TRUE]

WithFirst(b) == IF b.modified THEN b ELSE Consed(b, First(b.time))

RecordFirstChange(b) == IF b.on THEN WithFirst(Owned(b)) ELSE b

(* Variant: an insertion anywhere is joined with the last one. *)
JoinsAnywhere(list, beg) == list # <<>> /\ Head(list).kind = "insert"

(* An insertion next to the last one is joined with it. *)
Joins(list, beg) == list # <<>> /\ Head(list).kind = "insert" /\ Head(list).end = beg

RecordInsert(b, beg, n) ==
  LET f == WithFirst(Owned(b))
  IN IF ~b.on THEN b
     ELSE IF Joins(f.list, beg)
     THEN [f EXCEPT !.list = <<Ins(Head(@).beg, beg + n)>> \o Tail(@)]
     ELSE Consed(f, Ins(beg, beg + n))

(* Only adjustments of markers were recorded since a boundary.  When there is   *)
(* nothing else in the list the loop takes the car of nil's symbol, which is    *)
(* its name and ends it.                                                        *)
JustBegun(list) ==
  \E i \in 1 .. Len(list) :
    list[i].kind = "boundary" /\ \A j \in 1 .. i - 1 : list[j].kind = "adjust"

RecordDelete(b, beg, str) ==
  LET o == Owned(b)
      sbeg == IF o.pt = beg + Len(str) THEN -beg ELSE beg
      f == WithFirst(o)
      p == IF JustBegun(o.list) /\ o.last # sbeg /\ o.here THEN Consed(f, Point(o.last)) ELSE f
  IN IF b.on THEN Consed(p, Del(str, sbeg)) ELSE b

(* record_marker_adjustment, for one marker after the other *)
RecordAdjustments(b, adjustments) ==
  IF b.on /\ adjustments # <<>> THEN [Owned(b) EXCEPT !.list = adjustments \o @] ELSE b

-----------------------------------------------------------------------------
(* insdel.c *)
Part(text, from, to) == SubSeq(text, from, to - 1)
Replaced(text, from, to, s) == Part(text, 1, from) \o s \o Part(text, to, Len(text) + 1)

(* adjust_markers_for_delete.  The markers are in no particular order. *)
Inside(b, from, to) == {m \in Markers : b.marks[m] > from /\ b.marks[m] <= to}
MarkersForDelete(b, from, to) ==
  LET inside == SetToSeq(Inside(b, from, to))
      r == RecordAdjustments(b, [i \in DOMAIN inside |-> Adj(inside[i], from - b.marks[inside[i]])])
  IN [r EXCEPT !.marks = [m \in Markers |-> IF @[m] > to THEN @[m] - (to - from)
                                            ELSE IF @[m] > from THEN from ELSE @[m]]]

(* Variant: every marker at the place of an insertion moves with it. *)
MarkersForInsertAll(b, at, n, before) ==
  [b EXCEPT !.marks = [m \in Markers |-> IF @[m] >= at THEN @[m] + n ELSE @[m]]]

MarkersForInsert(b, at, n, before) ==
  [b EXCEPT !.marks = [m \in Markers |->
     IF @[m] > at \/ (@[m] = at /\ (m \in Advancing \/ before)) THEN @[m] + n ELSE @[m]]]

(* insert_1_both, insert_from_string_1 *)
Inserted(b, s, before) ==
  LET r == [RecordInsert(b, b.pt, Len(s)) EXCEPT !.modified = TRUE,
                                                 !.text = Replaced(@, b.pt, b.pt, s)]
  IN [MarkersForInsert(r, b.pt, Len(s), before) EXCEPT !.pt = @ + Len(s)]

(* Point is relocated as if it were a marker. *)
PointAfter(pt, from, to, n) ==
  IF from >= pt THEN pt ELSE IF pt < to THEN from + n ELSE pt - (to - from) + n

(* del_range_2 *)
Deleted(b, from, to) ==
  LET r == RecordDelete(MarkersForDelete(b, from, to), from, Part(b.text, from, to))
  IN IF from < to
     THEN [r EXCEPT !.modified = TRUE, !.pt = PointAfter(@, from, to, 0),
                    !.text = Replaced(@, from, to, <<>>)]
     ELSE b

(* replace_range *)
ReplacedRange(b, from, to, s) ==
  LET d == RecordDelete(MarkersForDelete(b, from, to), from, Part(b.text, from, to))
      r == MarkersForInsert(RecordInsert(d, from, Len(s)), from, Len(s), FALSE)
  IN [r EXCEPT !.modified = TRUE, !.pt = PointAfter(@, from, to, Len(s)),
               !.text = Replaced(@, from, to, s)]

(* casify_region: modify_region, record_change, and the change in place. *)
Changed(b, from, to) ==
  LET f == IF b.modified THEN b ELSE RecordFirstChange(b)
      d == RecordDelete([f EXCEPT !.modified = TRUE], from, Part(b.text, from, to))
      r == RecordInsert(d, from, to - from)
  IN [r EXCEPT !.text = [i \in DOMAIN @ |-> IF i \in from .. to - 1 THEN Case[@[i]] ELSE @[i]]]

-----------------------------------------------------------------------------
(* primitive-undo: one record after the other *)

(* Variant: the time is not looked at. *)
UndoneFirstAlways(b, time) == [b EXCEPT !.modified = FALSE]

InRange(b, beg, end) == 1 <= beg /\ end <= Len(b.text) + 1
Outside(b) == [b EXCEPT !.error = TRUE]

UndoneDelete(b, str, pos) ==
  IF ~InRange(b, IF pos < 0 THEN -pos ELSE pos, IF pos < 0 THEN -pos ELSE pos) THEN Outside(b)
  ELSE IF pos < 0 THEN Inserted([b EXCEPT !.pt = -pos], str, FALSE)
  ELSE [Inserted([b EXCEPT !.pt = pos], str, FALSE) EXCEPT !.pt = pos]

UndoneFirst(b, time) == IF time = b.time THEN [b EXCEPT !.modified = FALSE] ELSE b

Clipped(b, p) == IF p < 1 THEN 1 ELSE IF p > Len(b.text) + 1 THEN Len(b.text) + 1 ELSE p
UndoneAdjust(b, m, by) ==
  IF b.marks[m] = Nowhere THEN b ELSE [b EXCEPT !.marks[m] = Clipped(b, @ - by)]

UndoneInsert(b, beg, end) ==
  IF InRange(b, beg, end) THEN Deleted([b EXCEPT !.pt = beg], beg, end) ELSE Outside(b)

UndoneRecord(b, r) ==
  IF b.error THEN b
  ELSE CASE r.kind = "boundary" -> b
         [] r.kind = "point" -> [b EXCEPT !.pt = Clipped(b, r.at)]
         [] r.kind = "first" -> UndoneFirst(b, r.time)
         [] r.kind = "insert" -> UndoneInsert(b, r.beg, r.end)
         [] r.kind = "delete" -> UndoneDelete(b, r.str, r.pos)
         [] r.kind = "adjust" -> UndoneAdjust(b, r.marker, r.by)

(* The buffers after each of the records is undone. *)
UndoneRecords(b, list) ==
  LET c[i \in 0 .. Len(list)] == IF i = 0 THEN b ELSE UndoneRecord(c[i - 1], list[i]) IN c

(* Between boundaries is a unit, the records of a command. *)
EndsUnit(list, i) == i = Len(list) \/ list[i + 1].kind = "boundary"

BeginsByDeleting(list, i) ==
  \E j \in 1 .. i :
    /\ list[j].kind = "delete"
    /\ \A k \in j + 1 .. i : list[k].kind \notin {"insert", "delete", "boundary"}

(* What is remembered of a buffer when a unit begins: its text, where point     *)
(* was when the command began, if the unit begins with a deletion and            *)
(* record_delete can know, and the markers, except that markers which advance    *)
(* are not put back (undo.c:147 says that inserting inverts what a deletion did, *)
(* which for these it does not).                                                 *)
Snap(b, deleted) ==
  [text |-> b.text,
   pt |-> IF b.here /\ b.list # <<>> /\ deleted THEN Clipped(b, b.last) ELSE Unknown,
   marks |-> [m \in Markers |-> IF m \in Advancing \/ m \in b.astray THEN Unknown ELSE b.marks[m]]]
NoSnap == [text |-> <<>>, pt |-> Unknown, marks |-> [m \in Markers |-> Unknown]]
Before(b, new) ==
  [i \in 1 .. Len(new.list) - Len(past) |->
     IF EndsUnit(new.list, i) THEN Snap(b, BeginsByDeleting(new.list, i)) ELSE NoSnap] \o past

-----------------------------------------------------------------------------
(* What Lisp and the command loop do to the buffer *)

(* Only what may matter to a later edit or undo is worth a step. *)
EditsLeft == edits < MaxEdits
UndosLeft == undos < MaxUndos
StepsLeft == EditsLeft \/ UndosLeft

(* The command loop, before a command: a boundary, unless there is a prefix    *)
(* argument or a character is inserted directly (up to 20 in a row).           *)
Command(boundary) ==
  /\ StepsLeft
  /\ buf' = [IF boundary THEN Bounded(buf) ELSE buf EXCEPT !.last = buf.pt, !.here = TRUE]
  /\ past' = Before(buf, buf') /\ pending' = NonePending /\ restPast' = <<>>
  /\ UNCHANGED <<disk, hasty, halved, edits, undos, saves>>

UndoBoundary ==
  /\ EditsLeft
  /\ buf' = Bounded(buf) /\ past' = Before(buf, buf')
  /\ UNCHANGED <<pending, disk, restPast, hasty, halved, edits, undos, saves>>

(* Another buffer is changed, perhaps by a command that began there. *)
EditElsewhere(here) ==
  /\ EditsLeft /\ (here => buf.here) /\ edits' = edits + 1
  /\ buf' = [buf EXCEPT !.own = FALSE, !.here = here]
  /\ UNCHANGED <<pending, disk, past, restPast, hasty, halved, undos, saves>>

GotoChar(p) ==
  /\ EditsLeft /\ p \in 1 .. Len(buf.text) + 1
  /\ buf' = [buf EXCEPT !.pt = p]
  /\ pending' = NonePending /\ restPast' = <<>>
  /\ UNCHANGED <<disk, past, hasty, halved, edits, undos, saves>>

(* An edit ends a series of undos. *)
Edit(new, snaps) ==
  /\ EditsLeft /\ Len(new.text) <= MaxLen
  /\ buf' = new /\ past' = snaps /\ edits' = edits + 1
  /\ pending' = NonePending /\ restPast' = <<>>
  /\ UNCHANGED <<disk, hasty, halved, undos, saves>>

Insert(s, before) == LET new == Inserted(buf, s, before) IN Edit(new, Before(buf, new))

Within(from, to) == from <= to /\ to <= Len(buf.text) + 1
Delete(from, to) ==
  /\ Within(from, to) /\ from < to
  /\ LET new == Deleted(buf, from, to) IN Edit(new, Before(buf, new))

(* internal_self_insert in overwrite mode: forward-char follows. *)
Overwrite(to, s) ==
  LET new == [ReplacedRange(buf, buf.pt, to, s) EXCEPT !.pt = buf.pt + Len(s)]
  IN Within(buf.pt, to) /\ buf.pt < to /\ Edit(new, Before(buf, new))

(* Undone, a change in place is a deletion, and markers collapse (their old     *)
(* places are not recorded, which would be for the deletion to do), so that      *)
(* adjustments of them recorded before no longer fit; nor is point recorded      *)
(* when the first change was recorded before.                                    *)
Adjusted == {r.marker : r \in {q \in ToSet(buf.list) \cup ToSet(pending.list) : q.kind = "adjust"}}
Placeless(snap) == [snap EXCEPT !.pt = Unknown, !.marks = [m \in Markers |-> Unknown]]
Change(from, to) ==
  LET new == [Changed(buf, from, to) EXCEPT !.astray = @ \cup (Inside(buf, from, to) \cap Adjusted)]
      snaps == Before(buf, new)
  IN Within(from, to) /\ from < to /\ Edit(new, [i \in DOMAIN snaps |-> Placeless(snaps[i])])

(* Fset_marker does not record, and adjustments recorded before are made all   *)
(* the same when they are undone.                                              *)
SetMarker(m, p) ==
  /\ p \in Nowhere .. Len(buf.text) + 1 /\ EditsLeft /\ edits' = edits + 1
  /\ buf' = [buf EXCEPT !.marks[m] = p, !.astray = @ \cup ({m} \cap Adjusted)]
  /\ past' = [i \in DOMAIN past |-> [past[i] EXCEPT !.marks[m] = Unknown]]
  /\ restPast' = [i \in DOMAIN restPast |-> [restPast[i] EXCEPT !.marks[m] = Unknown]]
  /\ UNCHANGED <<pending, disk, hasty, halved, undos, saves>>

(* write-region; the clock of the file may not have moved since it was last    *)
(* written.                                                                    *)
Save(time) ==
  /\ UndosLeft /\ saves < MaxSaves /\ time \in {buf.time, buf.time + 1}
  /\ disk' = buf.text /\ buf' = [buf EXCEPT !.modified = FALSE, !.time = time]
  /\ hasty' = (hasty \/ time = buf.time) /\ saves' = saves + 1
  /\ UNCHANGED <<pending, past, restPast, halved, edits, undos>>

(* `undo', the command: a boundary, and primitive-undo with one unit of what    *)
(* is pending, or else of the list without the boundary at its head.  An error  *)
(* or a C-g in a change hook leaves primitive-undo after record k.              *)
Undo(k) ==
  LET more == pending.list # <<>>
      start == [Bounded(buf) EXCEPT !.last = buf.pt, !.here = TRUE]
      list == IF more THEN pending.list ELSE buf.list
      snaps == IF more THEN restPast ELSE past
      first == IF AtBoundary(list) THEN 2 ELSE 1
      after == UndoneRecords(start, list)[k]
      done == EndsUnit(list, k) /\ ~after.error
  IN /\ UndosLeft /\ buf.on
     /\ k \in first .. Len(list) /\ \A i \in first .. k : list[i].kind # "boundary"
     /\ buf' = [after EXCEPT !.error = FALSE] /\ past' = Before(start, after)
     /\ undos' = undos + 1
     /\ IF done
        THEN /\ pending' = [list |-> SubSeq(list, k + 2, Len(list)), tail |-> more => pending.tail]
             /\ restPast' = SubSeq(snaps, k + 2, Len(list))
             /\ UNCHANGED halved
        ELSE pending' = NonePending /\ restPast' = <<>> /\ halved' = TRUE
     /\ UNCHANGED <<disk, hasty, edits, saves>>

(* Garbage collection calls truncate_undo_list, which, depending on the sizes,  *)
(* cuts the list before one of its boundaries, but not before the first unit.   *)
(* pending-undo-list is cut with it if the cells are still shared.              *)
Truncate(i) ==
  LET cut == i - (Len(buf.list) - Len(pending.list)) - 1
      kept == IF pending.tail /\ cut > 0 THEN cut ELSE Len(pending.list)
  IN /\ StepsLeft /\ i \in 2 .. Len(buf.list) /\ buf.list[i].kind = "boundary"
     /\ buf' = [buf EXCEPT !.list = SubSeq(@, 1, i - 1)] /\ past' = SubSeq(past, 1, i - 1)
     /\ pending' = [list |-> SubSeq(pending.list, 1, kept), tail |-> pending.tail /\ cut > 0]
     /\ restPast' = SubSeq(restPast, 1, kept)
     /\ UNCHANGED <<disk, hasty, halved, edits, undos, saves>>

(* buffer-disable-undo, buffer-enable-undo *)
SetUndo(on) ==
  /\ EditsLeft /\ on # buf.on
  /\ buf' = [buf EXCEPT !.on = on, !.list = <<>>] /\ past' = <<>>
  /\ pending' = NonePending /\ restPast' = <<>>
  /\ UNCHANGED <<disk, hasty, halved, edits, undos, saves>>

Next ==
  \/ \E boundary \in BOOLEAN : Command(boundary) \/ EditElsewhere(boundary) \/ SetUndo(boundary)
  \/ UndoBoundary
  \/ \E p \in 1 .. MaxLen + 1 : GotoChar(p)
  \/ \E s \in Strings, before \in BOOLEAN : Insert(s, before)
  \/ \E from, to \in 1 .. MaxLen + 1 :
       Delete(from, to) \/ Change(from, to)
  \/ \E to \in 1 .. MaxLen + 1, s \in Strings : Overwrite(to, s)
  \/ \E m \in Markers, p \in Nowhere .. MaxLen + 1 : SetMarker(m, p)
  \/ \E time \in 0 .. MaxSaves : Save(time)
  \/ \E k \in 1 .. Len(buf.list) : Undo(k)
  \/ \E i \in 2 .. Len(buf.list) : Truncate(i)

Spec == Init /\ [][Next]_vars

-----------------------------------------------------------------------------
(* The buffers after each record is undone with nothing else in between. *)
Undone(list) == UndoneRecords([buf EXCEPT !.on = FALSE], list)

(* "Changes to be undone": at any moment, undoing unit after unit, from the     *)
(* undo list or from where a series of undos has come to, gives the text before *)
(* each unit, whatever was joined, cut off, saved, undone or left half-way      *)
(* meanwhile, and is never refused for positions outside the text.              *)
TextBack(list, snaps) ==
  /\ Len(snaps) = Len(list)
  /\ LET b == Undone(list)
     IN \A i \in DOMAIN list : EndsUnit(list, i) => ~b[i].error /\ b[i].text = snaps[i].text
TextRestored == TextBack(buf.list, past) /\ TextBack(pending.list, restPast)

(* The markers that nobody moved in between and that do not advance are back    *)
(* too (undo.c:147-150), and so is point, where a unit begins with a deletion:   *)
(* "record where it was" (undo.c:136).                                          *)
MarkersBack(list, snaps) ==
  LET b == Undone(list)
  IN \A i \in DOMAIN list, m \in Markers :
       EndsUnit(list, i) => snaps[i].marks[m] \in {Unknown, b[i].marks[m]}
PlacesRestored ==
  /\ MarkersBack(buf.list, past) /\ MarkersBack(pending.list, restPast)
  /\ LET b == Undone(buf.list)
     IN \A i \in DOMAIN buf.list : EndsUnit(buf.list, i) => past[i].pt \in {Unknown, b[i].pt}

(* "If this records an obsolete save (not matching the actual disk file) then   *)
(* don't mark unmodified" (undo.c:430): a buffer that undo leaves unmodified is  *)
(* the file, unless the file was written twice within a tick of its clock or a   *)
(* unit was only half undone.                                                    *)
UnmodifiedIsSaved == ~buf.modified /\ ~hasty /\ ~halved => buf.text = disk
=============================================================================
