------------------------------ MODULE Desktop ------------------------------
(***************************************************************************)
(* Windows and the shell (wm/window.rs, wm/shell.rs, wm/widgets.rs,        *)
(* apps/mod.rs) and the part of input_loop that hands them keys and mouse  *)
(* news (main.rs).                                                         *)
(*                                                                         *)
(* The window table is the stacking order.  A screen point is <<x, row>>   *)
(* with row "title" (the title bars of all windows), "body" or "dock": y   *)
(* and h are treated by the code as x and w are, and are left out.  The    *)
(* last three columns of a title bar are its buttons.  The applications    *)
(* are numbered as in the registry; what a key or a click makes them do is *)
(* reduced to which other application it opens, if any.                    *)
(***************************************************************************)
EXTENDS Integers, Sequences, FiniteSets

CONSTANTS
    MAX_WINDOWS, MAX_DOCK_BUTTONS,
    SW,            \* columns of the screen
    COUNT,         \* applications in the registry
    Place,         \* [0 .. COUNT - 1 -> [x, w]]: where an application opens
    KeyOpens,      \* pairs <<a, b>>: application a can open b when given a key,
    ClickOpens,    \* ... when its window is clicked
    MaxId,         \* bound: windows created
    MaxPasses,     \* bound: passes of the loop that bring keys
    MaxPresses     \* bound: presses of the mouse button

\* The table has room for every application, and the screen for every window.
ASSUME DesktopSizes ==
    /\ MAX_WINDOWS \in Nat /\ MAX_DOCK_BUTTONS \in Nat /\ SW \in Nat
    /\ COUNT \in 0 .. MAX_WINDOWS
    /\ \A a \in 0 .. COUNT - 1 : Place[a].x \in Nat /\ Place[a].w \in 3 .. SW

VARIABLES
    d,         \* the statics: table, ids, drag, launcher, buttons
    focused,   \* input_loop's local: who gets the keys of this pass
    keys,      \* bound: keys that are still waiting in this pass
    left,      \* bounds: key passes and presses left
    by         \* history: the application the last key or click opened

vars == <<d, focused, keys, left, by>>

Apps == 0 .. COUNT - 1
NoApp == COUNT
Slots == 1 .. MAX_WINDOWS
NO_DRAG == 0
Empty == [id |-> 0, state |-> "Free", x |-> 0, w |-> 0, maximized |-> FALSE,
          rst_x |-> 0, rst_w |-> 0]
Points == (0 .. SW - 1) \X {"title", "body", "dock"}

Lower(a, b) == IF a < b THEN a ELSE b
Largest(S) == CHOOSE i \in S : \A j \in S : j <= i

(***************************************************************************)
(* window.rs                                                               *)
(***************************************************************************)
Open(tab) == {i \in Slots : tab[i].state # "Free"}
Visible(tab) == {i \in Slots : tab[i].state = "Normal"}

\* 0 when there is none.
index_of(tab, id) ==
    IF \E i \in Open(tab) : tab[i].id = id
    THEN CHOOSE i \in Open(tab) : tab[i].id = id ELSE 0

topmost(tab) == IF Visible(tab) = {} THEN 0 ELSE Largest(Visible(tab))

topmost_id(tab) == IF Visible(tab) = {} THEN 0 ELSE tab[topmost(tab)].id

at(tab, p) ==
    LET hit == {i \in Visible(tab) : p[1] \in tab[i].x .. tab[i].x + tab[i].w - 1}
    IN IF hit = {} THEN 0 ELSE Largest(hit)

bring_to_front_swap(tab, idx) ==    \* mutant: exchanged with the last slot
    [tab EXCEPT ![idx] = tab[MAX_WINDOWS], ![MAX_WINDOWS] = tab[idx]]

bring_to_front(tab, idx) ==
    [i \in Slots |->
        IF i < idx THEN tab[i] ELSE IF i < MAX_WINDOWS THEN tab[i + 1] ELSE tab[idx]]

focus(tab, id) ==
    IF index_of(tab, id) = 0 THEN tab ELSE bring_to_front(tab, index_of(tab, id))

\* The id is taken even when the table is full; 0 then.
create(s, x, w) ==
    LET id == s.next
        free == {i \in Slots : s.tab[i].state = "Free"}
        slot == CHOOSE i \in free : \A j \in free : i <= j
        win == [Empty EXCEPT !.id = id, !.state = "Normal", !.w = w,
                             !.x = IF SW > w THEN Lower(x, SW - w) ELSE 0]
    IN IF free = {} THEN <<0, [s EXCEPT !.next = id + 1]>>
       ELSE <<id, [s EXCEPT !.next = id + 1,
                            !.tab = bring_to_front([s.tab EXCEPT ![slot] = win], slot)]>>

move_to(tab, idx, x) ==
    IF tab[idx].maximized THEN tab
    ELSE [tab EXCEPT ![idx].x = IF x < 0 THEN 0 ELSE Lower(x, SW - tab[idx].w)]

minimize(tab, idx) == [tab EXCEPT ![idx].state = "Minimized"]

restore(tab, idx) == bring_to_front([tab EXCEPT ![idx].state = "Normal"], idx)

toggle_maximize(tab, idx) ==
    LET w == tab[idx]
    IN [tab EXCEPT ![idx] =
        IF w.maximized
        THEN [w EXCEPT !.x = w.rst_x, !.w = w.rst_w, !.maximized = FALSE]
        ELSE [w EXCEPT !.rst_x = w.x, !.rst_w = w.w, !.x = 0, !.w = SW, !.maximized = TRUE]]

close(tab, idx) == [tab EXCEPT ![idx] = Empty]

\* Index 0 is the right-most: Close, Maximize, Minimize.
button_at(w, p) ==
    CASE p[2] = "title" /\ p[1] = w.x + w.w - 1 -> "Close"
      [] p[2] = "title" /\ p[1] = w.x + w.w - 2 -> "Maximize"
      [] p[2] = "title" /\ p[1] = w.x + w.w - 3 -> "Minimize"
      [] OTHER -> "none"

(***************************************************************************)
(* apps/mod.rs                                                             *)
(***************************************************************************)
launch_again(s, a) ==               \* mutant: a second window for the same application
    LET c == create(s, Place[a].x, Place[a].w)
    IN [c[2] EXCEPT !.win[a] = c[1]]

\* Every application's open(): raise the window, or make one.
launch(s, a) ==
    LET c == create(s, Place[a].x, Place[a].w)
    IN IF index_of(s.tab, s.win[a]) # 0 THEN [s EXCEPT !.tab = focus(s.tab, s.win[a])]
       ELSE [c[2] EXCEPT !.win[a] = c[1]]

\* The application that owns a window id: the first one that claims it.
owner(s, id) ==
    IF \E a \in Apps : s.win[a] = id
    THEN CHOOSE a \in Apps : s.win[a] = id /\ \A b \in 0 .. a - 1 : s.win[b] # id
    ELSE NoApp

opened(s, b) == IF b = NoApp THEN s ELSE launch(s, b)

(***************************************************************************)
(* shell.rs                                                                *)
(***************************************************************************)
\* The popup covers the left end of the body rows, one column per entry.
launcher_hit(p) == IF p[2] = "body" /\ p[1] < COUNT THEN p[1] ELSE NoApp

\* dock_buttons: the launcher, then the open windows in table order.
dock_buttons(tab) ==
    LET rank(i) == Cardinality({j \in Open(tab) : j <= i})
    IN [k \in 1 .. Lower(Cardinality(Open(tab)), Lower(MAX_DOCK_BUTTONS, SW) - 1) |->
            tab[CHOOSE i \in Open(tab) : rank(i) = k].id]

on_dock_click(s, p) ==
    LET btns == dock_buttons(s.tab)
        idx == index_of(s.tab, btns[p[1]])
    IN CASE p[1] = 0 -> [s EXCEPT !.menu = ~@]
         [] p[1] \in DOMAIN btns ->
              [s EXCEPT !.tab =
                  CASE s.tab[idx].state = "Minimized" -> restore(s.tab, idx)
                    [] s.tab[idx].state = "Normal" /\ idx = topmost(s.tab) -> minimize(s.tab, idx)
                    [] OTHER -> bring_to_front(s.tab, idx)]
         [] OTHER -> s

press_button(s, idx, btn) ==
    [s EXCEPT !.tab = CASE btn = "Close" -> close(s.tab, idx)
                        [] btn = "Minimize" -> minimize(s.tab, idx)
                        [] btn = "Maximize" -> toggle_maximize(s.tab, idx)]

\* A press on a window: its buttons act only when it has the focus.
press_window(s, idx, p, b) ==
    LET w == s.tab[idx]
        grabbed == IF p[2] = "title" THEN [s EXCEPT !.drag = w.id, !.dx = p[1] - w.x] ELSE s
        raised == [grabbed EXCEPT !.tab = focus(s.tab, w.id)]
    IN IF idx = topmost(s.tab) /\ button_at(w, p) # "none"
       THEN press_button(s, idx, button_at(w, p))
       ELSE IF p[2] = "title" THEN raised ELSE opened(raised, b)

\* b: what the application under the pointer opens in answer to the click.
on_press(s, p, b) ==
    CASE s.menu -> [opened(s, launcher_hit(p)) EXCEPT !.menu = FALSE]
      [] ~s.menu /\ p[2] = "dock" -> on_dock_click(s, p)
      [] ~s.menu /\ p[2] # "dock" /\ at(s.tab, p) # 0 -> press_window(s, at(s.tab, p), p, b)
      [] OTHER -> s

dragged(s, p) ==
    LET idx == index_of(s.tab, s.drag)
    IN IF s.drag = NO_DRAG \/ idx = 0 THEN s
       ELSE [s EXCEPT !.tab = move_to(s.tab, idx, p[1] - s.dx)]

\* The press and release edges of the left button, then the drag.
on_mouse(s, p, down, b) ==
    LET s1 == [s EXCEPT !.prev = down]
        s2 == IF down /\ ~s.prev THEN on_press(s1, p, b) ELSE s1
        s3 == IF s.prev /\ ~down THEN [s2 EXCEPT !.drag = NO_DRAG] ELSE s2
    IN dragged(s3, p)

(***************************************************************************)
(* The loop: the focus is read, the waiting keys are handed out, then the  *)
(* mouse.  focused = MaxId + 1 between two passes.                         *)
(***************************************************************************)
Idle == MaxId + 1
\* Bound: no step creates a window past MaxId.
Bounded == d'.next <= MaxId + 1

StartPass(n) ==
    /\ focused = Idle /\ left.passes > 0
    /\ focused' = topmost_id(d.tab)
    /\ keys' = n
    /\ left' = [left EXCEPT !.passes = @ - 1]
    /\ UNCHANGED <<d, by>>

handle_key(b) ==
    /\ focused # Idle /\ keys > 0
    /\ LET a == owner(d, focused)
       IN /\ b # NoApp => <<a, b>> \in KeyOpens
          /\ d' = opened(d, b) /\ Bounded
          /\ by' = b
    /\ keys' = keys - 1
    /\ UNCHANGED <<focused, left>>

KeysDone ==
    /\ focused # Idle /\ keys = 0
    /\ focused' = Idle
    /\ UNCHANGED <<d, keys, left, by>>

MouseNews(p, down, b) ==
    /\ focused = Idle
    /\ b # NoApp =>
        /\ down /\ ~d.prev /\ ~d.menu /\ p[2] = "body" /\ at(d.tab, p) # 0
        /\ <<owner(d, d.tab[at(d.tab, p)].id), b>> \in ClickOpens
    /\ d' = on_mouse(d, p, down, b) /\ Bounded
    /\ by' = b
    /\ IF down /\ ~d.prev
       THEN left.presses > 0 /\ left' = [left EXCEPT !.presses = @ - 1]
       ELSE left' = left
    /\ UNCHANGED <<focused, keys>>

Init ==
    /\ d = [tab |-> [i \in Slots |-> Empty], next |-> 1, win |-> [a \in Apps |-> 0],
            drag |-> NO_DRAG, dx |-> 0, menu |-> FALSE, prev |-> FALSE]
    /\ focused = Idle /\ keys = 0 /\ left = [passes |-> MaxPasses, presses |-> MaxPresses]
    /\ by = NoApp

Next ==
    \/ \E n \in 1 .. 2 : StartPass(n)
    \/ \E b \in Apps \cup {NoApp} : handle_key(b)
    \/ KeysDone
    \/ \E p \in Points, down \in BOOLEAN, b \in Apps \cup {NoApp} : MouseNews(p, down, b)

Spec == Init /\ [][Next]_vars

(***************************************************************************)
(* Properties.                                                             *)
(***************************************************************************)
\* A free slot is empty, and no two windows share an id.
TypeOK ==
    /\ \A i \in Slots : d.tab[i].state = "Free" <=> d.tab[i].id = 0
    /\ \A i \in Open(d.tab), j \in Open(d.tab) : d.tab[i].id = d.tab[j].id => i = j
    /\ \A i \in Open(d.tab) : d.tab[i].id < d.next

\* The dock and the launcher never lose a window: every open window belongs
\* to exactly one application, which raises it instead of making another.
OwnedOnce == \A i \in Open(d.tab) : Cardinality({a \in Apps : d.win[a] = d.tab[i].id}) = 1

\* A window follows the pointer only while the button that grabbed it is down
\* (on_mouse), however many windows were raised, hidden or closed meanwhile.
DragHeld == d.drag # NO_DRAG => d.prev

\* Dragging, maximising and going back keep every window whole on the screen,
\* and the geometry it would go back to as well (move_to, toggle_maximize).
OnScreen ==
    \A i \in Open(d.tab) :
        LET w == d.tab[i]
        IN w.x >= 0 /\ w.x + w.w <= SW /\ (w.maximized => w.rst_x + w.rst_w <= SW)

\* The window table stays sound: each window has one owner, is whole on the
\* screen and follows the pointer only while it is held.
WindowsKept == TypeOK /\ OwnedOnce /\ DragHeld /\ OnScreen

Pos(tab, id) == CHOOSE i \in Slots : tab[i].id = id
Ids(tab) == {tab[i].id : i \in Open(tab)}

\* bring_to_front: "the relative order of every other window is preserved".
\* When two windows change places, the lower one has become the highest but
\* for a window its own application opened in answer to the click.
OrderKept ==
    [][d'.tab # d.tab => \A u, v \in Ids(d.tab) \cap Ids(d'.tab) :
          Pos(d.tab, u) < Pos(d.tab, v) /\ Pos(d'.tab, v) < Pos(d'.tab, u)
          => \A o \in Ids(d'.tab) \ {u} :
                \/ Pos(d'.tab, o) < Pos(d'.tab, u)
                \/ by' # NoApp /\ o = d'.win[by']]_vars

\* on_press: "a stray click on an inactive window's close box doesn't destroy
\* it": only the window with the focus is closed, maximised or, by its button,
\* hidden.
OnlyFocusedActs ==
    [][d'.tab # d.tab => \A id \in Ids(d.tab) :
          (\/ id \notin Ids(d'.tab)
           \/ d.tab[Pos(d.tab, id)].maximized # d'.tab[Pos(d'.tab, id)].maximized
           \/ d.tab[Pos(d.tab, id)].state = "Normal" /\ d'.tab[Pos(d'.tab, id)].state = "Minimized")
          => id = topmost_id(d.tab)]_vars

\* What a click or key may do to the other windows: raise one, and no more.
ClicksKeepTheRest == OrderKept /\ OnlyFocusedActs
=============================================================================
