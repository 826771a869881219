------------------------------ MODULE GapBuffer ------------------------------
(***************************************************************************)
(* The text of a buffer in memory (insdel.c): the characters before and    *)
(* after a gap, the motion of the gap, which a quit may stop half-way, the *)
(* enlargement of the gap, the editing functions built from them, and what *)
(* they note for redisplay: beg_unchanged and end_unchanged.               *)
(*                                                                         *)
(* Positions are those of the code: BEG is 1, GPT the position of the gap, *)
(* Z one past the last character.  Every character is one byte.            *)
(***************************************************************************)
EXTENDS Integers

CONSTANTS
  Chars,    \* the characters of texts
  Nul,      \* the byte that anchors the gap
  NewGap,   \* the gap of a new buffer (20)
  Spare,    \* what make_gap adds to the request (2000)
  Chunk,    \* characters copied between two looks at quit-flag (32000)
  MaxSize,  \* the size at which make_gap signals an error
  MaxIns,   \* bound: the length of an inserted text
  MaxLen    \* bound: the length of the text

ASSUME CharAssumption == Nul \notin Chars
ASSUME SizeAssumption == NewGap \in Nat /\ Spare \in Nat /\ Chunk \in Nat \ {0} /\ MaxSize \in Nat
ASSUME BoundAssumption == MaxIns \in Nat \ {0} /\ MaxLen \in Nat

VARIABLES
  buf,        \* the text, with its gap
  unchanged,  \* beg_unchanged and end_unchanged
  textSeen,   \* unchanged_modified == MODIFF
  facesSeen,  \* overlay_unchanged_modified == OVERLAY_MODIFF
  pt,         \* PT
  shown,      \* history: the text the last redisplay showed
  ahead       \* history: beg_unchanged was beyond the gap since the text was shown

vars == <<buf, unchanged, textSeen, facesSeen, pt, shown, ahead>>

Smaller(a, b) == IF a < b THEN a ELSE b

(* The text without the gap *)
Length(b) == b.z - 1
Address(b, i) == IF i < b.gpt THEN i ELSE i + b.gap
Text(b) == [i \in 1 .. Length(b) |-> b.mem[Address(b, i)]]
View(b) == [text |-> Text(b), length |-> Length(b)]

Init ==
  /\ buf = [mem |-> [i \in 1 .. NewGap |-> Nul], gpt |-> 1, gap |-> NewGap, z |-> 1]
  /\ unchanged = [beg |-> 0, end |-> 0]
  /\ textSeen = FALSE /\ facesSeen = FALSE
  /\ pt = 1
  /\ shown = View(buf)
  /\ ahead = FALSE

-----------------------------------------------------------------------------
(* gap_left and gap_right: copy the characters between the gap and P across  *)
(* the gap, and put an anchor into it.                                       *)
Anchored(b, mem, p) == IF b.gap > 0 THEN [mem EXCEPT ![p] = Nul] ELSE mem

(* Variant: the anchor is written although the gap is empty. *)
MovedLeftAnchoring(b, p) ==
  LET mem == [i \in DOMAIN b.mem |->
                IF i \in p + b.gap .. b.gpt + b.gap - 1 THEN b.mem[i - b.gap] ELSE b.mem[i]]
  IN [mem |-> [mem EXCEPT ![p] = Nul], gpt |-> p, gap |-> b.gap, z |-> b.z]

MovedLeft(b, p) ==
  LET mem == [i \in DOMAIN b.mem |->
                IF i \in p + b.gap .. b.gpt + b.gap - 1 THEN b.mem[i - b.gap] ELSE b.mem[i]]
  IN [mem |-> Anchored(b, mem, p), gpt |-> p, gap |-> b.gap, z |-> b.z]

MovedRight(b, p) ==
  LET mem == [i \in DOMAIN b.mem |->
                IF i \in b.gpt .. p - 1 THEN b.mem[i + b.gap] ELSE b.mem[i]]
  IN [mem |-> Anchored(b, mem, p), gpt |-> p, gap |-> b.gap, z |-> b.z]

(* move_gap_both *)
MovedTo(b, p) ==
  IF p < b.gpt THEN MovedLeft(b, p) ELSE IF p > b.gpt THEN MovedRight(b, p) ELSE b

(* Where the gap may be when a quit stops the motion to P. *)
Stops(b, p) ==
  {q \in 1 .. b.z : \E k \in 0 .. b.z : \/ q = b.gpt - k * Chunk /\ p < q
                                        \/ q = b.gpt + k * Chunk /\ q < p} \cup {p}

(* Variant: a motion to the left notes only where it goes. *)
NotedAhead(b, u, p) ==
  IF textSeen /\ facesSeen /\ p # b.gpt
  THEN [beg |-> p - 1, end |-> b.z - p]
  ELSE IF p < b.gpt
  THEN [u EXCEPT !.beg = Smaller(p - 1, u.beg)]
  ELSE IF p > b.gpt
  THEN [beg |-> Smaller(b.gpt - 1, u.beg), end |-> Smaller(b.z - p, u.end)]
  ELSE u

(* What a motion to P notes for redisplay, whether it gets there or not. *)
Noted(b, u, p) ==
  IF textSeen /\ facesSeen /\ p # b.gpt
  THEN [beg |-> p - 1, end |-> b.z - p]
  ELSE IF p < b.gpt
  THEN [beg |-> IF p < u.beg THEN p - 1 ELSE u.beg, end |-> Smaller(b.z - b.gpt, u.end)]
  ELSE IF p > b.gpt
  THEN [beg |-> Smaller(b.gpt - 1, u.beg),
        end |-> IF b.z - p - 1 < u.end THEN b.z - p ELSE u.end]
  ELSE u

(* make_gap: the new space is a gap at the end of the whole space; it moves   *)
(* down to the end of the old gap, which for the moment counts as text.      *)
Fits(b, n) == b.z - 1 + b.gap + n + Spare < MaxSize

Enlarged(b, n) ==
  LET size == b.z - 1 + b.gap
      added == n + Spare
      atEnd == [mem |-> [i \in 1 .. size + added |-> IF i <= size THEN b.mem[i] ELSE Nul],
                gpt |-> b.z + b.gap, gap |-> added, z |-> b.z]
  IN [mem |-> MovedLeft(atEnd, b.gpt + b.gap).mem,
      gpt |-> b.gpt, gap |-> b.gap + added, z |-> b.z]

Roomy(b, n) == IF b.gap < n THEN Enlarged(b, n - b.gap) ELSE b

(* The characters of S take the beginning of the gap. *)
Filled(b, n, s) ==
  LET mem == [i \in DOMAIN b.mem |->
                IF i \in b.gpt .. b.gpt + n - 1 THEN s[i - b.gpt + 1]
                ELSE IF i = b.gpt + n /\ b.gap > n THEN Nul ELSE b.mem[i]]
  IN [mem |-> mem, gpt |-> b.gpt + n, gap |-> b.gap - n, z |-> b.z + n]

(* The characters from FROM to TO, on both sides of the gap, join it. *)
Emptied(b, from, to) ==
  [mem |-> [b.mem EXCEPT ![from] = Nul], gpt |-> from,
   gap |-> b.gap + (to - from), z |-> b.z - (to - from)]

-----------------------------------------------------------------------------
(* Variant: after a quit the gap is taken to be where it was to go. *)
MoveGapClaimed(p) ==
  /\ p # buf.gpt
  /\ \E q \in Stops(buf, p) : buf' = [MovedTo(buf, q) EXCEPT !.gpt = p]
  /\ unchanged' = Noted(buf, unchanged, p)
  /\ UNCHANGED <<textSeen, facesSeen, pt, shown>>

(* Some function wants the text contiguous around P, or an insertion or      *)
(* deletion moves the gap there and goes no further: a quit, or no memory.   *)
MoveGap(p) ==
  /\ p # buf.gpt
  /\ \E q \in Stops(buf, p) : buf' = MovedTo(buf, q)
  /\ unchanged' = Noted(buf, unchanged, p)
  /\ UNCHANGED <<textSeen, facesSeen, pt, shown>>

(* insert_1_both *)
Inserted(n, s) == Filled(Roomy(MovedTo(buf, pt), n), n, s)

Insert(n, s) ==
  /\ Length(buf) + n <= MaxLen
  /\ buf.gap < n => Fits(buf, n - buf.gap)
  /\ buf' = Inserted(n, s)
  /\ unchanged' = Noted(buf, unchanged, pt)
  /\ textSeen' = FALSE
  /\ pt' = pt + n
  /\ UNCHANGED <<facesSeen, shown>>

(* self-insert-command at the end of a line on an up-to-date screen: the      *)
(* character is inserted, and direct_output_for_insert shows it at once.     *)
InsertAndShow(s) ==
  /\ textSeen /\ facesSeen
  /\ Length(buf) < MaxLen
  /\ buf.gap < 1 => Fits(buf, 1 - buf.gap)
  /\ buf' = Inserted(1, s)
  /\ unchanged' = [Noted(buf, unchanged, pt) EXCEPT !.beg = buf'.gpt - 1]
  /\ pt' = pt + 1
  /\ shown' = View(buf')
  /\ UNCHANGED <<textSeen, facesSeen>>

(* The gap is moved in or next to what is deleted. *)
Adjacent(from, to) ==
  IF from > buf.gpt THEN from ELSE IF to < buf.gpt THEN to ELSE buf.gpt

NotedDeletion(from, to) ==
  LET u == Noted(buf, unchanged, Adjacent(from, to))
  IN [beg |-> Smaller(from - 1, u.beg), end |-> Smaller(buf.z - to, u.end)]

(* del_range_2 *)
Deleted(from, to) == Emptied(MovedTo(buf, Adjacent(from, to)), from, to)

Delete(from, to) ==
  /\ from < to
  /\ buf' = Deleted(from, to)
  /\ unchanged' = NotedDeletion(from, to)
  /\ textSeen' = FALSE
  /\ pt' = IF from < pt THEN pt + from - Smaller(pt, to) ELSE pt
  /\ UNCHANGED <<facesSeen, shown>>

(* replace_range.  Its callers replace some text, but a function called before *)
(* the change may have deleted it.  Left out is an insertion for no text while *)
(* the gap is empty: the anchor, written without the test for an empty gap     *)
(* (insdel.c:1869), would overwrite the character after the gap.               *)
Replace(from, to, n, s) ==
  /\ from < to \/ (from = to /\ n > 0 /\ buf.gap > 0)
  /\ Length(buf) - (to - from) + n <= MaxLen
  /\ LET b == Deleted(from, to)
     IN /\ b.gap < n => Fits(b, n - b.gap)
        /\ buf' = Filled(Roomy(b, n), n, s)
  /\ unchanged' = NotedDeletion(from, to)
  /\ textSeen' = FALSE
  /\ pt' = IF from < pt THEN pt + from + n - Smaller(pt, to) ELSE pt
  /\ UNCHANGED <<facesSeen, shown>>

(* translate-region and its like: modify_region, then the characters are      *)
(* changed in place.                                                         *)
Translated(b, from, to, table) ==
  LET mem == [a \in DOMAIN b.mem |->
                IF \E i \in from .. to - 1 : a = Address(b, i)
                THEN table[b.mem[a]] ELSE b.mem[a]]
  IN [mem |-> mem, gpt |-> b.gpt, gap |-> b.gap, z |-> b.z]

(* Variant: modify_region notes the first change only.                        *)
TranslateNotedOnce(from, to, table) ==
  /\ from <= to
  /\ buf' = Translated(buf, from, to, table)
  /\ unchanged' = IF textSeen /\ facesSeen THEN [beg |-> from - 1, end |-> buf.z - to]
                  ELSE unchanged
  /\ textSeen' = FALSE
  /\ UNCHANGED <<facesSeen, pt, shown>>

Translate(from, to, table) ==
  /\ from <= to
  /\ buf' = Translated(buf, from, to, table)
  /\ unchanged' = [beg |-> IF from - 1 < unchanged.beg \/ (textSeen /\ facesSeen)
                           THEN from - 1 ELSE unchanged.beg,
                   end |-> IF buf.z - to < unchanged.end \/ (textSeen /\ facesSeen)
                           THEN buf.z - to ELSE unchanged.end]
  /\ textSeen' = FALSE
  /\ UNCHANGED <<facesSeen, pt, shown>>

(* modify_overlay *)
ModifyOverlay(from, to) ==
  /\ from < to
  /\ unchanged' = IF textSeen /\ facesSeen THEN [beg |-> from - 1, end |-> buf.z - to]
                  ELSE [beg |-> Smaller(from - 1, unchanged.beg),
                        end |-> Smaller(buf.z - to, unchanged.end)]
  /\ facesSeen' = FALSE
  /\ UNCHANGED <<buf, textSeen, pt, shown>>

(* redisplay_internal finishes without a pause. *)
Redisplay ==
  /\ textSeen' = TRUE /\ facesSeen' = TRUE
  /\ unchanged' = [beg |-> buf.gpt - 1, end |-> buf.z - buf.gpt]
  /\ shown' = View(buf)
  /\ UNCHANGED <<buf, pt>>

(* The command loop, when the last command forced a window start. *)
ForgetUnchanged ==
  /\ unchanged' = [beg |-> 0, end |-> 0]
  /\ UNCHANGED <<buf, textSeen, facesSeen, pt, shown>>

GotoChar(p) ==
  /\ pt' = p
  /\ UNCHANGED <<buf, unchanged, textSeen, facesSeen, shown>>

Positions == 1 .. buf.z

Edit ==
  \/ \E p \in Positions : MoveGap(p) \/ GotoChar(p)
  \/ \E n \in 1 .. MaxIns : \E s \in [1 .. n -> Chars] : Insert(n, s)
  \/ \E s \in [1 .. 1 -> Chars] : InsertAndShow(s)
  \/ \E from, to \in Positions :
       \/ Delete(from, to)
       \/ \E n \in 0 .. MaxIns : \E s \in [1 .. n -> Chars] : Replace(from, to, n, s)
       \/ \E table \in [Chars -> Chars] : Translate(from, to, table)
       \/ ModifyOverlay(from, to)
  \/ Redisplay
  \/ ForgetUnchanged

Next ==
  /\ Edit
  /\ ahead' = (unchanged'.beg > buf'.gpt \/ (ahead /\ View(buf') # shown'))

Spec == Init /\ [][Next]_vars

-----------------------------------------------------------------------------
Buffer(b) ==
  /\ b.gap \in Nat /\ b.z \in Nat \ {0} /\ b.gpt \in 1 .. b.z
  /\ b.mem \in [1 .. b.z - 1 + b.gap -> Chars \cup {Nul}]
  /\ b = [mem |-> b.mem, gpt |-> b.gpt, gap |-> b.gap, z |-> b.z]
  /\ \A i \in 1 .. Length(b) : b.mem[Address(b, i)] \in Chars

PointInText == pt \in Positions

(* The gap lies within the memory, everything else is text without anchors,  *)
(* and point is a position of the text.                                      *)
TypeOK ==
  /\ Buffer(buf)
  /\ unchanged \in [beg : Nat, end : Nat]
  /\ textSeen \in BOOLEAN /\ facesSeen \in BOOLEAN /\ ahead \in BOOLEAN
  /\ PointInText

(* Whatever the gap does, a step is one editing operation on the text or it  *)
(* changes nothing: neither its motions, stopped by a quit or not, nor its    *)
(* enlargement loses, doubles or overwrites a character.                     *)
Edited == INSTANCE EditedText WITH text <- Text(buf), length <- Length(buf), point <- pt
ImplementsText == Edited!Spec

(* The characters at the end that redisplay takes for unchanged, the fewer   *)
(* of end_unchanged and those after the gap (try_window_id), are at the end  *)
(* of the text that is on the screen.                                        *)
UnchangedEnd == Smaller(unchanged.end, buf.z - buf.gpt)
SuffixShown ==
  \A i \in 1 .. UnchangedEnd :
    i <= shown.length /\ Text(buf)[buf.z - i] = shown.text[shown.length + 1 - i]

(* "Find position before which nothing is changed" (xdisp.c:2655): the same   *)
(* of the characters at the beginning, the fewer of beg_unchanged and those  *)
(* before the gap, but for the last of them: gap_left compares a position    *)
(* with a count, and leaves beg_unchanged one too large.  Nothing is claimed *)
(* once beg_unchanged was beyond the gap, where modify_region,               *)
(* modify_overlay and an interrupted motion may leave it: insert_1_both does *)
(* not note a text it inserts at the gap.                                    *)
UnchangedBeg == Smaller(unchanged.beg, buf.gpt - 1)
PrefixNearlyShown ==
  ~ahead => \A i \in 1 .. UnchangedBeg - 1 : i <= shown.length /\ Text(buf)[i] = shown.text[i]

(* "It is incremented for each such event" (buffer.h:377): when MODIFF is    *)
(* what it was when redisplay finished, the text is what redisplay showed.   *)
NothingUnseen == textSeen => View(buf) = shown
=============================================================================
