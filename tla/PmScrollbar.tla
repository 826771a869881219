----------------------------- MODULE PmScrollbar -----------------------------
(***************************************************************************)
(* The scroll bars of the OS/2 port.  Emacs keeps for each frame two lists *)
(* of scroll bars, linked through the bars; redisplay condemns all bars of *)
(* a frame, redeems those of the windows it displays and destroys the rest *)
(* (pmterm.c).  pmemacs keeps the Presentation Manager windows in a table  *)
(* indexed by the id that Emacs uses (pmemacs.c).  The pipe thread of      *)
(* pmemacs takes the requests; it hands creation and destruction to the    *)
(* PM thread, which owns the windows and follows the user's mouse.         *)
(*                                                                         *)
(* A bar is numbered by the order of creation, and its PM window with it.  *)
(***************************************************************************)
EXTENDS Integers, Sequences

CONSTANTS
  Windows,     \* the leaf windows of Emacs
  Frames,      \* the frames
  FrameOf,     \* the frame of a window
  MaxIds,      \* MAX_SCROLLBARS
  Values,      \* positions of a slider
  Places,      \* positions of a scroll bar in its frame
  MaxBars,     \* bound: scroll bars created
  MaxChanges,  \* bound: redisplays, and windows or frames made or deleted
  MaxEvents,   \* bound: clicks
  MaxDrags,    \* bound: drags of a slider
  MaxFrameDeletions

ASSUME FrameOfAssumption == FrameOf \in [Windows -> Frames] /\ 0 \notin Windows
ASSUME BoundAssumption == MaxIds \in Nat \ {0} /\ MaxBars \in Nat /\ MaxChanges \in Nat
                          /\ MaxEvents \in Nat /\ MaxDrags \in Nat /\ MaxFrameDeletions \in Nat

VARIABLES
  (* Emacs *)
  live,       \* the windows that are displayed
  barOf,      \* w->vertical_scroll_bar
  bars,       \* FRAME_SCROLL_BARS: the first of the list
  condemned,  \* FRAME_CONDEMNED_SCROLL_BARS
  next, prev, \* the links of a bar
  win, id,    \* bar->window, bar->id
  want,       \* bar->position and its like: what was sent last
  place,      \* bar->top and its like
  at,         \* "idle", "redisplay", "await" the id of a new bar, or "aborted"
  frame,      \* the frame being redisplayed
  judging,    \* whether its bars were condemned
  todo,       \* its windows still to be redisplayed
  window,     \* the window whose bar is being created
  made,       \* history: how many bars were created
  handled,    \* the event handled last: its bar and the window it was taken for
  (* the pipes *)
  req,        \* requests to pmemacs, oldest first
  answer,     \* the answer to a creation, or <<>>
  events,     \* events from pmemacs, oldest first
  (* pmemacs *)
  pipeThread, \* "idle", "waiting" for hevDone, or about to act on a request
  request,    \* the request the pipe thread is acting on
  post,       \* the message queue of the PM thread
  table,      \* scrollbar_table[id].hwnd
  async,      \* scrollbar_table[id].async
  shown,      \* the slider position each PM window shows
  placed,     \* where each PM window is
  exist,      \* the PM windows that exist
  drag,       \* dragging_scrollbar_slider
  dragged,    \* the PM window whose slider the user holds
  changes, clicks, drags, deletions

lists == <<bars, condemned, next, prev>>
barVars == <<win, id, want, place, made>>
redisplay == <<at, frame, judging, todo, window>>
emacs == <<live, barOf, lists, barVars, redisplay, handled>>
pipes == <<req, answer, events>>
screen == <<table, async, shown, placed, exist>>
dragging == <<drag, dragged>>
pmemacs == <<pipeThread, request, post, screen, dragging>>
bounds == <<changes, clicks, drags, deletions>>
vars == <<emacs, pipes, pmemacs, bounds>>

Bars == 1 .. MaxBars
Nil == 0
Ids == 0 .. MaxIds - 1
NoId == -1        \* SB_INVALID_ID
NoValue == -1     \* async.whole == -1
NoPlace == -1     \* created with size zero
NoRequest == [op |-> "none"]

Init ==
  /\ live = Windows /\ barOf = [w \in Windows |-> Nil]
  /\ bars = [f \in Frames |-> Nil] /\ condemned = [f \in Frames |-> Nil]
  /\ next = [b \in Bars |-> Nil] /\ prev = [b \in Bars |-> Nil]
  /\ win = [b \in Bars |-> Nil] /\ id = [b \in Bars |-> NoId]
  /\ want = [b \in Bars |-> NoValue] /\ place = [b \in Bars |-> NoPlace]
  /\ at = "idle" /\ frame = Nil /\ judging = FALSE /\ todo = {} /\ window = Nil
  /\ made = 0 /\ handled = <<>>
  /\ req = <<>> /\ answer = <<>> /\ events = <<>>
  /\ pipeThread = "idle" /\ request = NoRequest /\ post = <<>>
  /\ table = [i \in Ids |-> Nil] /\ async = [i \in Ids |-> NoValue]
  /\ shown = [b \in Bars |-> NoValue] /\ placed = [b \in Bars |-> NoPlace] /\ exist = {}
  /\ drag = FALSE /\ dragged = Nil
  /\ changes = 0 /\ clicks = 0 /\ drags = 0 /\ deletions = 0

(* The bars of the list that starts at `head', in order.                     *)
Chain(head) ==
  LET step[k \in Bars] == IF k = 1 THEN head
                          ELSE IF step[k - 1] = Nil THEN Nil ELSE next[step[k - 1]]
  IN [k \in {j \in Bars : step[j] # Nil} |-> step[k]]
Elements(s) == {s[i] : i \in DOMAIN s}
Listed(f) == Elements(Chain(bars[f])) \cup Elements(Chain(condemned[f]))

(* The sequence s without its elements outside of a set.                     *)
Kept(s, set) ==
  LET first[k \in 0 .. Len(s)] ==
        IF k = 0 THEN <<>>
        ELSE IF s[k] \in set THEN Append(first[k - 1], s[k]) ELSE first[k - 1]
  IN first[Len(s)]

-----------------------------------------------------------------------------
(* Emacs: windows come and go without regard to their scroll bars.           *)

Change == changes < MaxChanges /\ changes' = changes + 1

DeleteWindow(w) ==
  /\ at = "idle" /\ w \in live /\ Change
  /\ live' = live \ {w}
  /\ UNCHANGED <<barOf, lists, barVars, redisplay, handled, pipes, pmemacs, clicks, drags, deletions>>

(* A new window, or one set-window-configuration brings back with its bar. *)
ShowWindow(w) ==
  /\ at = "idle" /\ w \notin live /\ Change
  /\ live' = live \cup {w}
  /\ UNCHANGED <<barOf, lists, barVars, redisplay, handled, pipes, pmemacs, clicks, drags, deletions>>

(* x_destroy_window; a new frame with new windows takes the place of the old. *)
(* PM_read_socket drops the events of a dead frame: here they go at once.     *)
DeleteFrame(f) ==
  /\ at = "idle"
  /\ deletions < MaxFrameDeletions /\ deletions' = deletions + 1
  /\ bars' = [bars EXCEPT ![f] = Nil] /\ condemned' = [condemned EXCEPT ![f] = Nil]
  /\ barOf' = [w \in Windows |-> IF FrameOf[w] = f THEN Nil ELSE barOf[w]]
  /\ win' = [b \in Bars |-> IF win[b] \in Windows /\ FrameOf[win[b]] = f THEN Nil ELSE win[b]]
  /\ events' = Kept(events, {e \in Elements(events) : e.frame # f})
  /\ req' = Append(req, [op |-> "delete", frame |-> f, bars |-> {b \in Bars : win'[b] # win[b]}])
  /\ UNCHANGED <<live, next, prev, id, want, place, made, redisplay, handled, answer, pmemacs,
                 changes, clicks, drags>>

(* redisplay_internal, for one frame: PM_condemn_scroll_bars.  The windows   *)
(* of a frame that cannot be seen are not redisplayed.                       *)
Condemn(f) ==
  /\ at = "idle" /\ Change
  /\ frame' = f /\ judging' = TRUE
  /\ todo' \in {{}, {w \in live : FrameOf[w] = f}}
  /\ IF condemned[f] # Nil
     THEN at' = "aborted" /\ UNCHANGED <<bars, condemned>>
     ELSE /\ at' = "redisplay"
          /\ condemned' = [condemned EXCEPT ![f] = bars[f]]
          /\ bars' = [bars EXCEPT ![f] = Nil]
  /\ UNCHANGED <<live, barOf, next, prev, barVars, window, handled, pipes, pmemacs,
                 clicks, drags, deletions>>

(* redisplay_internal, for the selected window only: nothing is condemned.   *)
RedisplayOne(w) ==
  /\ at = "idle" /\ w \in live /\ Change
  /\ at' = "redisplay" /\ frame' = FrameOf[w] /\ judging' = FALSE /\ todo' = {w}
  /\ UNCHANGED <<live, barOf, lists, barVars, window, handled, pipes, pmemacs,
                 clicks, drags, deletions>>

(* Make b the first of the frame's bars. *)
PushFront(b, nx, pv) ==
  /\ bars' = [bars EXCEPT ![frame] = b]
  /\ next' = [nx EXCEPT ![b] = bars[frame]]
  /\ prev' = [k \in Bars |-> CASE k = b -> Nil [] k = bars[frame] -> b [] OTHER -> pv[k]]

(* Variant: the successor's link is not corrected. *)
RedeemForgetsPrev(b) ==
  \/ prev[b] = Nil /\ bars[frame] = b /\ UNCHANGED lists
  \/ /\ ~(prev[b] = Nil /\ bars[frame] = b)
     /\ condemned' = IF prev[b] = Nil THEN [condemned EXCEPT ![frame] = next[b]] ELSE condemned
     /\ PushFront(b, [k \in Bars |-> IF prev[b] # Nil /\ k = prev[b] THEN next[b] ELSE next[k]], prev)

(* Variant: the bar is not taken off the condemned list. *)
RedeemLeavesCondemned(b) ==
  \/ prev[b] = Nil /\ bars[frame] = b /\ UNCHANGED lists
  \/ /\ ~(prev[b] = Nil /\ bars[frame] = b)
     /\ UNCHANGED condemned
     /\ PushFront(b, [k \in Bars |-> IF prev[b] # Nil /\ k = prev[b] THEN next[b] ELSE next[k]],
                     [k \in Bars |-> IF next[b] # Nil /\ k = next[b] THEN prev[b] ELSE prev[k]])

(* PM_redeem_scroll_bar *)
Redeem(b) ==
  \/ prev[b] = Nil /\ bars[frame] = b /\ UNCHANGED lists
  \/ /\ ~(prev[b] = Nil /\ bars[frame] = b)
     /\ condemned' = IF prev[b] = Nil THEN [condemned EXCEPT ![frame] = next[b]] ELSE condemned
     /\ PushFront(b, [k \in Bars |-> IF prev[b] # Nil /\ k = prev[b] THEN next[b] ELSE next[k]],
                     [k \in Bars |-> IF next[b] # Nil /\ k = next[b] THEN prev[b] ELSE prev[k]])

CanRedeem(b) == prev[b] # Nil \/ b \in {bars[frame], condemned[frame]}

(* PM_set_vertical_scroll_bar for a window that has a bar, then redeem it.   *)
(* pm_scroll_bar_move sends what has changed.                                *)
UpdateBar(w, v, p) ==
  LET b == barOf[w]
      move == IF p # place[b] THEN <<[op |-> "move", id |-> id[b], to |-> p]>> ELSE <<>>
      update == IF v # want[b] THEN <<[op |-> "update", id |-> id[b], to |-> v]>> ELSE <<>>
  IN /\ at = "redisplay" /\ w \in todo /\ b # Nil
     /\ req' = req \o move \o update
     /\ want' = [want EXCEPT ![b] = v] /\ place' = [place EXCEPT ![b] = p]
     /\ todo' = todo \ {w}
     /\ IF CanRedeem(b) THEN Redeem(b) /\ UNCHANGED at ELSE at' = "aborted" /\ UNCHANGED lists
     /\ UNCHANGED <<live, barOf, win, id, made, frame, judging, window, handled, answer, events,
                    pmemacs, bounds>>

(* pm_scroll_bar_create *)
CreateBar(w, v, p) ==
  /\ at = "redisplay" /\ w \in todo /\ barOf[w] = Nil
  /\ made < MaxBars
  /\ made' = made + 1
  /\ want' = [want EXCEPT ![made + 1] = v] /\ place' = [place EXCEPT ![made + 1] = p]
  /\ req' = Append(req, [op |-> "create", bar |-> made + 1, to |-> v, at |-> p])
  /\ at' = "await" /\ window' = w
  /\ UNCHANGED <<live, barOf, lists, win, id, frame, judging, todo, handled, answer, events,
                 pmemacs, bounds>>

BarCreated ==
  /\ at = "await" /\ answer # <<>>
  /\ answer' = <<>>
  /\ IF answer[1] = NoId
     THEN at' = "aborted" /\ UNCHANGED <<lists, barOf, win, id, todo>>
     ELSE /\ at' = "redisplay"
          /\ id' = [id EXCEPT ![made] = answer[1]] /\ win' = [win EXCEPT ![made] = window]
          /\ PushFront(made, next, prev) /\ UNCHANGED condemned
          /\ barOf' = [barOf EXCEPT ![window] = made]
          /\ todo' = todo \ {window}
  /\ UNCHANGED <<live, want, place, made, frame, judging, window, handled, req, events,
                 pmemacs, bounds>>

(* PM_judge_scroll_bars: pm_scroll_bar_close for every condemned bar.        *)
Judge ==
  LET doomed == Chain(condemned[frame])
  IN /\ at = "redisplay" /\ judging /\ todo = {}
     /\ at' = "idle"
     /\ condemned' = [condemned EXCEPT ![frame] = Nil]
     /\ req' = req \o [k \in DOMAIN doomed |->
                         [op |-> "destroy", id |-> id[doomed[k]], frame |-> frame]]
     /\ barOf' = [w \in Windows |-> IF \E b \in Elements(doomed) : win[b] = w THEN Nil ELSE barOf[w]]
     /\ next' = [b \in Bars |-> IF b \in Elements(doomed) THEN Nil ELSE next[b]]
     /\ prev' = [b \in Bars |-> IF b \in Elements(doomed) THEN Nil ELSE prev[b]]
     /\ UNCHANGED <<live, bars, barVars, frame, judging, todo, window, handled, answer, events,
                    pmemacs, bounds>>

RedisplayedOne ==
  /\ at = "redisplay" /\ ~judging /\ todo = {}
  /\ at' = "idle"
  /\ UNCHANGED <<live, barOf, lists, barVars, frame, judging, todo, window, handled, pipes,
                 pmemacs, bounds>>

(* PM_read_socket on PME_SCROLLBAR: find_scroll_bar_window looks for the id  *)
(* in both lists of the frame; in the variant, in one.                       *)
FoundUncondemned(f, i) == {b \in Elements(Chain(bars[f])) : id[b] = i}
Found(f, i) == {b \in Listed(f) : id[b] = i}

HandleEvent ==
  LET e == Head(events)
  IN /\ at \in {"idle", "redisplay"} /\ events # <<>>
     /\ events' = Tail(events)
     /\ handled' = <<[bar |-> e.bar,
                      win |-> IF Found(e.frame, e.id) = {} THEN Nil
                              ELSE win[CHOOSE b \in Found(e.frame, e.id) : TRUE]]>>
     /\ UNCHANGED <<live, barOf, lists, barVars, redisplay, req, answer, pmemacs, bounds>>

-----------------------------------------------------------------------------
(* The pipe thread of pmemacs.                                               *)

Take == pipeThread = "idle" /\ req # <<>> /\ req' = Tail(req)

(* Creation and destruction are posted to the PM thread; the pipe thread     *)
(* waits until a creation is done.                                           *)
PostRequest ==
  LET r == Head(req)
  IN /\ Take /\ r.op \in {"create", "destroy"}
     /\ post' = Append(post, r)
     /\ pipeThread' = IF r.op = "create" THEN "waiting" ELSE "idle"
     /\ UNCHANGED <<emacs, answer, events, request, screen, dragging, bounds>>

(* update_scrollbar and move_scrollbar: first test whether a slider is being *)
(* dragged, then act; a move is forgotten.                                   *)
TestDragging ==
  LET r == Head(req)
  IN /\ Take /\ r.op \in {"update", "move"}
     /\ IF drag /\ r.op = "move"
        THEN UNCHANGED <<pipeThread, request>>
        ELSE /\ pipeThread' = IF drag THEN "defer" ELSE "set"
             /\ request' = r
     /\ UNCHANGED <<emacs, answer, events, post, screen, dragging, bounds>>

Defer ==
  /\ pipeThread = "defer"
  /\ async' = [async EXCEPT ![request.id] = request.to]
  /\ pipeThread' = "idle" /\ request' = NoRequest
  /\ UNCHANGED <<emacs, pipes, post, table, shown, placed, exist, dragging, bounds>>

SetBar ==
  LET h == table[request.id]
  IN /\ pipeThread = "set"
     /\ shown' = [b \in Bars |-> IF b = h /\ b \in exist /\ request.op = "update"
                                 THEN request.to ELSE shown[b]]
     /\ placed' = [b \in Bars |-> IF b = h /\ b \in exist /\ request.op = "move"
                                  THEN request.to ELSE placed[b]]
     /\ pipeThread' = "idle" /\ request' = NoRequest
     /\ UNCHANGED <<emacs, pipes, post, table, async, exist, dragging, bounds>>

(* PMR_DESTROY: the frame's window goes, its scroll bars and the messages    *)
(* posted to it with it; the table is left alone.                            *)
DestroyFrame ==
  LET r == Head(req)
  IN /\ Take /\ r.op = "delete"
     /\ exist' = exist \ r.bars
     /\ post' = Kept(post, {m \in Elements(post) : m.op # "destroy" \/ m.frame # r.frame})
     /\ UNCHANGED <<emacs, answer, events, pipeThread, request, table, async, shown, placed,
                    dragging, bounds>>

-----------------------------------------------------------------------------
(* The PM thread of pmemacs.                                                 *)

FreeIds == {i \in Ids : table[i] = Nil}

(* Variant: the new bar is not moved to its place. *)
CreateWindowUnplaced ==
  LET r == Head(post)
  IN /\ post # <<>> /\ r.op = "create"
     /\ post' = Tail(post)
     /\ pipeThread' = "idle"
     /\ IF FreeIds = {}
        THEN answer' = <<NoId>> /\ UNCHANGED <<table, async, shown, placed, exist>>
        ELSE LET i == CHOOSE i \in FreeIds : \A j \in FreeIds : i <= j
             IN /\ answer' = <<i>>
                /\ table' = [table EXCEPT ![i] = r.bar] /\ exist' = exist \cup {r.bar}
                /\ async' = [async EXCEPT ![i] = IF drag THEN r.to ELSE NoValue]
                /\ shown' = [shown EXCEPT ![r.bar] = IF drag THEN NoValue ELSE r.to]
                /\ UNCHANGED placed
     /\ UNCHANGED <<emacs, req, events, request, dragging, bounds>>

(* create_scrollbar: the first free id; set and place the new bar unless a   *)
(* slider is being dragged.  Then answer, and release the pipe thread.       *)
CreateWindow ==
  LET r == Head(post)
  IN /\ post # <<>> /\ r.op = "create"
     /\ post' = Tail(post)
     /\ pipeThread' = "idle"
     /\ IF FreeIds = {}
        THEN answer' = <<NoId>> /\ UNCHANGED <<table, async, shown, placed, exist>>
        ELSE LET i == CHOOSE i \in FreeIds : \A j \in FreeIds : i <= j
             IN /\ answer' = <<i>>
                /\ table' = [table EXCEPT ![i] = r.bar] /\ exist' = exist \cup {r.bar}
                /\ async' = [async EXCEPT ![i] = IF drag THEN r.to ELSE NoValue]
                /\ shown' = [shown EXCEPT ![r.bar] = IF drag THEN NoValue ELSE r.to]
                /\ placed' = [placed EXCEPT ![r.bar] = IF drag THEN NoPlace ELSE r.at]
     /\ UNCHANGED <<emacs, req, events, request, dragging, bounds>>

(* Variant: the entry is marked with SB_INVALID_ID instead of NULLHANDLE. *)
DestroyWindowMarksInvalid ==
  LET r == Head(post)
  IN /\ post # <<>> /\ r.op = "destroy"
     /\ post' = Tail(post)
     /\ exist' = exist \ {table[r.id]}
     /\ table' = [table EXCEPT ![r.id] = NoId]
     /\ UNCHANGED <<emacs, pipes, pipeThread, request, async, shown, placed, dragging, bounds>>

(* Variant: the entry is not given back. *)
DestroyWindowLeaks ==
  LET r == Head(post)
  IN /\ post # <<>> /\ r.op = "destroy"
     /\ post' = Tail(post)
     /\ exist' = exist \ {table[r.id]}
     /\ UNCHANGED <<emacs, pipes, pipeThread, request, table, async, shown, placed, dragging, bounds>>

(* destroy_scrollbar *)
DestroyWindow ==
  LET r == Head(post)
  IN /\ post # <<>> /\ r.op = "destroy"
     /\ post' = Tail(post)
     /\ exist' = exist \ {table[r.id]}
     /\ table' = [table EXCEPT ![r.id] = Nil]
     /\ UNCHANGED <<emacs, pipes, pipeThread, request, async, shown, placed, dragging, bounds>>

(* handle_vscroll sends an event for the id of the PM window the user uses.  *)
SendClick(i) ==
  /\ clicks < MaxEvents /\ clicks' = clicks + 1
  /\ events' = Append(events, [id |-> i, bar |-> table[i], frame |-> FrameOf[win[table[i]]]])

UsedIds == {i \in Ids : table[i] \in exist /\ win[table[i]] \in Windows}

(* The bar whose slider is held has captured the mouse. *)
Click(i) ==
  /\ ~drag \/ dragged \notin exist
  /\ SendClick(i)
  /\ drag' = FALSE /\ dragged' = Nil
  /\ shown' = IF drag /\ async[i] # NoValue THEN [shown EXCEPT ![table[i]] = async[i]] ELSE shown
  /\ UNCHANGED <<emacs, req, answer, pipeThread, request, post, table, async, placed, exist,
                 changes, drags, deletions>>

(* SB_SLIDERTRACK *)
StartDrag(i) ==
  /\ ~drag /\ drags < MaxDrags /\ drags' = drags + 1
  /\ SendClick(i)
  /\ drag' = TRUE /\ dragged' = table[i]
  /\ async' = [async EXCEPT ![i] = NoValue]
  /\ UNCHANGED <<emacs, req, answer, pipeThread, request, post, table, shown, placed, exist,
                 changes, deletions>>

(* SB_SLIDERPOSITION, when the slider is released. *)
EndDrag(i) ==
  /\ drag /\ dragged = table[i]
  /\ SendClick(i)
  /\ drag' = FALSE /\ dragged' = Nil
  /\ shown' = IF async[i] # NoValue THEN [shown EXCEPT ![table[i]] = async[i]] ELSE shown
  /\ UNCHANGED <<emacs, req, answer, pipeThread, request, post, table, async, placed, exist,
                 changes, drags, deletions>>

Next ==
  \/ \E w \in Windows : \/ DeleteWindow(w) \/ ShowWindow(w) \/ RedisplayOne(w)
                        \/ \E v \in Values, p \in Places : UpdateBar(w, v, p) \/ CreateBar(w, v, p)
  \/ \E f \in Frames : DeleteFrame(f) \/ Condemn(f)
  \/ BarCreated \/ Judge \/ RedisplayedOne \/ HandleEvent
  \/ PostRequest \/ TestDragging \/ Defer \/ SetBar \/ DestroyFrame
  \/ CreateWindow \/ DestroyWindow
  \/ \E i \in UsedIds : Click(i) \/ StartDrag(i) \/ EndDrag(i)

Spec == Init /\ [][Next]_vars

-----------------------------------------------------------------------------
TypeOK ==
  /\ live \subseteq Windows /\ barOf \in [Windows -> Bars \cup {Nil}]
  /\ bars \in [Frames -> Bars \cup {Nil}] /\ condemned \in [Frames -> Bars \cup {Nil}]
  /\ next \in [Bars -> Bars \cup {Nil}] /\ prev \in [Bars -> Bars \cup {Nil}]
  /\ id \in [Bars -> Ids \cup {NoId}]
  /\ table \in [Ids -> Bars \cup {Nil}] /\ exist \subseteq Bars
  /\ at \in {"idle", "redisplay", "await", "aborted"}
  /\ pipeThread \in {"idle", "waiting", "defer", "set"}

(* The two lists of a frame are disjoint, without cycles and linked in both  *)
(* directions; a window's bar is on a list of its frame, and a listed bar is *)
(* the bar of its window, through every order of redisplays.                 *)
ListsSound ==
  \A f \in Frames :
    /\ Elements(Chain(bars[f])) \cap Elements(Chain(condemned[f])) = {}
    /\ \A c \in {Chain(bars[f]), Chain(condemned[f])} :
         /\ \A i, j \in DOMAIN c : i # j => c[i] # c[j]
         /\ \A i \in DOMAIN c : prev[c[i]] = IF i = 1 THEN Nil ELSE c[i - 1]
    /\ Listed(f) = {barOf[w] : w \in {x \in Windows : FrameOf[x] = f /\ barOf[x] # Nil}}
    /\ \A w \in Windows : FrameOf[w] = f /\ barOf[w] # Nil => win[barOf[w]] = w

(* An id in Emacs's hands names that bar's PM window, although destruction   *)
(* is posted while updates are not and ids are used again.                   *)
IdsAgree == \A f \in Frames : \A b \in Listed(f) : table[id[b]] = b

(* Emacs never aborts while it has no more windows than there are ids: ids   *)
(* are free again before they are needed, and the condemn, redeem and judge  *)
(* protocol never finds the lists in a state it does not expect.             *)
NeverAborts == at # "aborted"

(* When nothing is under way, each bar shows what Emacs asked for last and   *)
(* is where it asked for, unless the user dragged a slider meanwhile.        *)
Quiet == req = <<>> /\ post = <<>> /\ pipeThread = "idle" /\ at = "idle"
InSync ==
  Quiet /\ drags = 0 => \A f \in Frames : \A b \in Listed(f) : shown[b] = want[b] /\ placed[b] = place[b]

(* An event of a bar that still exists is taken for an event in its window.  *)
LiveBarGetsItsEvents ==
  [][handled' # handled =>
       LET e == Head(handled') IN e.bar \in Listed(Head(events).frame) => e.win = win[e.bar]]_vars
=============================================================================
