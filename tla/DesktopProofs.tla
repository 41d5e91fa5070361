--------------------------- MODULE DesktopProofs ---------------------------
(***************************************************************************)
(* The window table, for any number of slots, applications, windows, keys  *)
(* and clicks, any screen that is as wide as the windows, and whatever the *)
(* applications open in answer to a key or a click.                        *)
(*                                                                         *)
(* Sound(s) is the inductive invariant: WindowsKept needs beside itself    *)
(* that no two applications hold the same id, that no id is handed out     *)
(* before its turn, and that the geometry a maximised window goes back to  *)
(* starts on the screen.  The two action properties follow from how each   *)
(* operation turns one table T into another U: which windows it keeps      *)
(* (Kept), and where it puts them (Lifted: a slot goes to the top and the  *)
(* ones above it move down; a click can do that twice).                    *)
(***************************************************************************)
EXTENDS Desktop, FiniteSetTheorems, WellFoundedInduction, TLAPS

Window ==
    [id : Nat, state : {"Free", "Normal", "Minimized"}, x : Int, w : Int,
     maximized : BOOLEAN, rst_x : Int, rst_w : Int]

State ==
    [tab : [Slots -> Window], next : Nat \ {0}, win : [Apps -> Nat],
     drag : Nat, dx : Int, menu : BOOLEAN, prev : BOOLEAN]

\* An open window lies on the screen, and so does what it goes back to.
Fits(w) ==
    w.state # "Free" =>
        /\ w.x >= 0 /\ w.w >= 0 /\ w.x + w.w <= SW
        /\ w.maximized => w.rst_x >= 0 /\ w.rst_w >= 0 /\ w.rst_x + w.rst_w <= SW

Tabled(tab) ==
    /\ tab \in [Slots -> Window]
    /\ \A i \in Slots : tab[i].state = "Free" <=> tab[i].id = 0
    /\ \A i, j \in Slots : tab[i].id = tab[j].id => i = j \/ tab[i].id = 0
    /\ \A i \in Slots : Fits(tab[i])

\* Every window has an application, and an id that is not handed out again.
Belongs(tab, next, win) ==
    /\ \A i \in Slots : tab[i].id < next
    /\ \A i \in Slots : tab[i].id # 0 => \E a \in Apps : win[a] = tab[i].id
    /\ \A a \in Apps : win[a] < next
    /\ \A a, b \in Apps : win[a] = win[b] => a = b \/ win[a] = 0

Sound(s) == s \in State /\ Tabled(s.tab) /\ Belongs(s.tab, s.next, s.win)

\* Every window of T but the one in slot t is in U, as large and as visible.
Kept(T, U, t) ==
    \A i \in Slots : T[i].id # 0 /\ i # t =>
        \E k \in Slots :
            /\ U[k].id = T[i].id
            /\ U[k].maximized <=> T[i].maximized
            /\ T[i].state = "Normal" => U[k].state = "Normal"

\* Where slot i is once slot k has gone to the top; k = 0: nothing moves.
Up(k, i) == IF k = 0 \/ i < k THEN i ELSE IF i = k THEN MAX_WINDOWS ELSE i - 1

\* U is T with slot k at the top, but for windows that closed; a slot k that
\* was free holds a window that T does not have.
Lifted(T, U, k) ==
    /\ k \in 0 .. MAX_WINDOWS
    /\ \A i \in Slots : i # k => U[Up(k, i)].id \in {T[i].id, 0}
    /\ k # 0 => \/ T[k].id = U[MAX_WINDOWS].id
                \/ \A i \in Slots : T[i].id # U[MAX_WINDOWS].id

\* Two windows change places only for the lower one to become the highest,
\* but for o.
Ordered(T, U, o) ==
    \A i, j, k, l \in Slots :
        /\ T[i].id # 0 /\ T[j].id # 0
        /\ T[i].id = U[k].id /\ T[j].id = U[l].id
        /\ i < j /\ l < k
        => \A m \in Slots : U[m].id # 0 => m <= k \/ (o # 0 /\ U[m].id = o)

-----------------------------------------------------------------------------
(* The slots. *)

LEMMA LargestIs ==
    ASSUME NEW S \in SUBSET Slots, S # {}
    PROVE  Largest(S) \in S /\ \A j \in S : j <= Largest(S)
<1> DEFINE B == {MAX_WINDOWS - i : i \in S}
<1>0. MAX_WINDOWS \in Nat /\ S \subseteq 1 .. MAX_WINDOWS
  BY DesktopSizes DEF Slots
<1>1. B \subseteq Nat /\ B # {}
  BY <1>0
<1>2. IsWellFoundedOn(OpToRel(<, Nat), Nat)
  BY Zenon, NatLessThanWellFounded
<1>3. PICK x \in B : \A y \in B : ~ (<<y, x>> \in OpToRel(<, Nat))
  BY Zenon, <1>1, <1>2, WFMin
<1> HIDE DEF B
<1>4. \A y \in B : x <= y
  <2> SUFFICES ASSUME NEW y \in B PROVE x <= y
    OBVIOUS
  <2>0. x \in Nat /\ y \in Nat
    BY <1>1
  <2>1. ~ (y < x)
    BY Zenon, <1>3, <2>0 DEF OpToRel
  <2> QED
    BY <2>0, <2>1
<1> USE DEF B
<1>5. PICK i \in S : x = MAX_WINDOWS - i
  OBVIOUS
<1>6. \A j \in S : j <= i
  BY SMTT(30), <1>0, <1>4, <1>5
<1> QED
  BY Zenon, <1>6 DEF Largest

LEMMA SmallestIs ==
    ASSUME NEW S \in SUBSET Slots, S # {}
    PROVE  \E i \in S : \A j \in S : i <= j
<1>1. S \subseteq Nat
  BY DesktopSizes DEF Slots
<1>2. IsWellFoundedOn(OpToRel(<, Nat), Nat)
  BY Zenon, NatLessThanWellFounded
<1>3. PICK x \in S : \A y \in S : ~ (<<y, x>> \in OpToRel(<, Nat))
  BY Zenon, <1>1, <1>2, WFMin
<1>4. \A y \in S : x <= y
  <2> SUFFICES ASSUME NEW y \in S PROVE x <= y
    OBVIOUS
  <2>1. ~ (y < x)
    BY Zenon, <1>1, <1>3 DEF OpToRel
  <2> QED
    BY <1>1, <2>1
<1> QED
  BY <1>4

LEMMA UpIs ==
    ASSUME NEW k \in 0 .. MAX_WINDOWS
    PROVE  /\ \A i \in Slots : Up(k, i) \in Slots
           /\ \A i, j \in Slots : Up(k, i) = Up(k, j) => i = j
           /\ \A j \in Slots : \E i \in Slots : j = Up(k, i)
<1>1. \A i \in Slots : Up(k, i) \in Slots
  BY DesktopSizes DEF Slots, Up
<1>2. \A i, j \in Slots : Up(k, i) = Up(k, j) => i = j
  BY DesktopSizes DEF Slots, Up
<1>3. ASSUME NEW j \in Slots PROVE \E i \in Slots : j = Up(k, i)
  <2>1. CASE k = 0 \/ j < k
    BY <2>1 DEF Up
  <2>2. CASE k # 0 /\ j >= k /\ j = MAX_WINDOWS
    <3>1. k \in Slots /\ j = Up(k, k)
      BY <2>2, DesktopSizes DEF Up, Slots
    <3> QED
      BY <3>1
  <2>3. CASE k # 0 /\ j >= k /\ j # MAX_WINDOWS
    <3>1. j + 1 \in Slots /\ j = Up(k, j + 1)
      BY <2>3, DesktopSizes DEF Up, Slots
    <3> QED
      BY <3>1
  <2> QED
    BY <2>1, <2>2, <2>3, DesktopSizes DEF Slots
<1> QED
  BY <1>1, <1>2, <1>3

LEMMA BringIs ==
    ASSUME NEW T \in [Slots -> Window], NEW k \in Slots
    PROVE  /\ bring_to_front(T, k) \in [Slots -> Window]
           /\ \A i \in Slots : bring_to_front(T, k)[Up(k, i)] = T[i]
<1>1. bring_to_front(T, k) \in [Slots -> Window]
  BY DesktopSizes DEF bring_to_front, Slots
<1>2. ASSUME NEW i \in Slots PROVE bring_to_front(T, k)[Up(k, i)] = T[i]
  <2>1. Up(k, i) \in Slots
    BY UpIs, DesktopSizes DEF Slots
  <2>2. bring_to_front(T, k)[Up(k, i)] =
          IF Up(k, i) < k THEN T[Up(k, i)]
          ELSE IF Up(k, i) < MAX_WINDOWS THEN T[Up(k, i) + 1] ELSE T[k]
    BY <2>1 DEF bring_to_front
  <2>3. k # 0
    BY DesktopSizes DEF Slots
  <2>4. CASE i < k
    BY <2>2, <2>3, <2>4 DEF Up
  <2>5. CASE i = k
    BY <2>2, <2>3, <2>5, DesktopSizes DEF Up, Slots
  <2>6. CASE i > k
    <3>1. Up(k, i) = i - 1
      BY <2>6, <2>3, DesktopSizes DEF Up, Slots
    <3>2. ~(i - 1 < k) /\ i - 1 < MAX_WINDOWS /\ i - 1 + 1 = i
      BY <2>6, DesktopSizes DEF Slots
    <3> QED
      BY <2>2, <3>1, <3>2
  <2> QED
    BY <2>4, <2>5, <2>6, DesktopSizes DEF Slots
<1> QED
  BY <1>1, <1>2

-----------------------------------------------------------------------------
(* What the operations on the table keep. *)

LEMMA BringKeeps ==
    ASSUME NEW T, Tabled(T), NEW k \in Slots, NEW U, U = bring_to_front(T, k)
    PROVE  /\ Tabled(U)
           /\ Kept(T, U, 0)
           /\ Lifted(T, U, k)
           /\ U[MAX_WINDOWS] = T[k]
           /\ \A next, win : Belongs(T, next, win) => Belongs(U, next, win)
<1>1. T \in [Slots -> Window] /\ k \in 0 .. MAX_WINDOWS /\ k # 0
  BY DesktopSizes DEF Tabled, Slots
<1>2. U \in [Slots -> Window] /\ \A i \in Slots : U[Up(k, i)] = T[i]
  BY <1>1, BringIs
<1>3. /\ \A i \in Slots : Up(k, i) \in Slots
      /\ \A i, j \in Slots : Up(k, i) = Up(k, j) => i = j
      /\ \A j \in Slots : \E i \in Slots : j = Up(k, i)
  BY <1>1, UpIs
<1>4. \A j \in Slots : \E i \in Slots : j = Up(k, i) /\ U[j] = T[i]
  BY <1>2, <1>3
<1>5. Tabled(U)
  <2>1. \A j \in Slots : U[j].state = "Free" <=> U[j].id = 0
    BY <1>4 DEF Tabled
  <2>2. \A i, j \in Slots : U[i].id = U[j].id => i = j \/ U[i].id = 0
    BY <1>4 DEF Tabled
  <2>3. \A j \in Slots : Fits(U[j])
    BY <1>4 DEF Tabled
  <2> QED
    BY <1>2, <2>1, <2>2, <2>3 DEF Tabled
<1>6. Kept(T, U, 0)
  BY <1>2, <1>3 DEF Kept
<1>7. U[MAX_WINDOWS] = T[k]
  BY <1>1, <1>2 DEF Up
<1>8. Lifted(T, U, k)
  BY <1>1, <1>2, <1>7 DEF Lifted
<1>9. ASSUME NEW next, NEW win, Belongs(T, next, win)
      PROVE  Belongs(U, next, win)
  BY <1>9, <1>4 DEF Belongs
<1> QED
  BY <1>5, <1>6, <1>7, <1>8, <1>9

\* One window changes, without a new id.
LEMMA SlotKeeps ==
    ASSUME NEW T, Tabled(T), NEW k \in Slots, NEW w \in Window,
           w.state = "Free" <=> w.id = 0, w.id \in {T[k].id, 0}, Fits(w),
           NEW U, U = [T EXCEPT ![k] = w]
    PROVE  /\ Tabled(U)
           /\ Kept(T, U, k)
           /\ Lifted(T, U, 0)
           /\ \A next, win : next > 0 /\ Belongs(T, next, win) => Belongs(U, next, win)
           /\ /\ w.id = T[k].id
              /\ w.maximized <=> T[k].maximized
              /\ T[k].state = "Normal" => w.state = "Normal"
              => Kept(T, U, 0)
<1>1. T \in [Slots -> Window]
  BY DEF Tabled
<1>2. U \in [Slots -> Window] /\ \A i \in Slots : U[i] = IF i = k THEN w ELSE T[i]
  BY <1>1
<1>3. Tabled(U)
  <2>1. \A j \in Slots : U[j].state = "Free" <=> U[j].id = 0
    BY <1>2 DEF Tabled
  <2>2. \A i, j \in Slots : U[i].id = U[j].id => i = j \/ U[i].id = 0
    BY <1>2 DEF Tabled
  <2>3. \A j \in Slots : Fits(U[j])
    BY <1>2 DEF Tabled
  <2> QED
    BY <1>2, <2>1, <2>2, <2>3 DEF Tabled
<1>4. Kept(T, U, k)
  BY <1>2 DEF Kept
<1>5. Lifted(T, U, 0)
  BY <1>2, DesktopSizes DEF Lifted, Up
<1>6. ASSUME NEW next, NEW win, next > 0, Belongs(T, next, win)
      PROVE  Belongs(U, next, win)
  BY <1>6, <1>2 DEF Belongs
<1>7. ASSUME w.id = T[k].id, w.maximized <=> T[k].maximized,
             T[k].state = "Normal" => w.state = "Normal"
      PROVE  Kept(T, U, 0)
  BY <1>7, <1>2 DEF Kept
<1> QED
  BY Zenon, <1>3, <1>4, <1>5, <1>6, <1>7

-----------------------------------------------------------------------------
(* Where a window is after one lift, and after two. *)

LEMMA LiftedTo ==
    ASSUME NEW T, Tabled(T), NEW U, NEW k, Lifted(T, U, k),
           NEW i \in Slots, NEW j \in Slots, T[i].id # 0, U[j].id = T[i].id
    PROVE  j = Up(k, i)
<1>1. k \in 0 .. MAX_WINDOWS
  BY DEF Lifted
<1>2. PICK h \in Slots : j = Up(k, h)
  BY <1>1, UpIs
<1>3. CASE h # k
  BY <1>2, <1>3 DEF Lifted, Tabled
<1>4. CASE h = k
  <2>1. k # 0 /\ j = MAX_WINDOWS
    BY <1>2, <1>4, DesktopSizes DEF Up, Slots
  <2>2. T[k].id = T[i].id
    BY <2>1 DEF Lifted
  <2> QED
    BY <1>2, <1>4, <2>2 DEF Tabled
<1> QED
  BY <1>3, <1>4

LEMMA LiftOrders ==
    ASSUME NEW T, Tabled(T), NEW U, NEW k, Lifted(T, U, k)
    PROVE  Ordered(T, U, 0)
<1> SUFFICES ASSUME NEW i \in Slots, NEW j \in Slots, NEW g \in Slots, NEW h \in Slots,
                    T[i].id # 0, T[j].id # 0,
                    T[i].id = U[g].id, T[j].id = U[h].id, i < j, h < g
             PROVE  \A m \in Slots : m <= g
  BY DEF Ordered
<1>1. g = Up(k, i) /\ h = Up(k, j)
  BY LiftedTo
<1>2. k \in 0 .. MAX_WINDOWS
  BY DEF Lifted
<1> QED
  BY <1>1, <1>2, DesktopSizes DEF Up, Slots

LEMMA LiftsOrder ==
    ASSUME NEW T, Tabled(T), NEW V, Tabled(V), NEW U, NEW k, NEW l, NEW o,
           Lifted(T, V, k), Kept(T, V, 0), Lifted(V, U, l),
           l # 0 => U[MAX_WINDOWS].id = o /\ o # 0
    PROVE  Ordered(T, U, o)
<1> SUFFICES ASSUME NEW i \in Slots, NEW j \in Slots, NEW g \in Slots, NEW h \in Slots,
                    T[i].id # 0, T[j].id # 0,
                    T[i].id = U[g].id, T[j].id = U[h].id, i < j, h < g,
                    NEW m \in Slots, U[m].id # 0
             PROVE  m <= g \/ (o # 0 /\ U[m].id = o)
  BY Zenon DEF Ordered
<1>1. k \in 0 .. MAX_WINDOWS /\ l \in 0 .. MAX_WINDOWS
  BY Zenon DEF Lifted
<1>2. PICK e \in Slots : V[e].id = T[i].id
  BY DesktopSizes DEF Kept, Slots
<1>3. PICK f \in Slots : V[f].id = T[j].id
  BY DesktopSizes DEF Kept, Slots
<1>4. e = Up(k, i) /\ f = Up(k, j)
  BY <1>2, <1>3, LiftedTo
<1>5. g = Up(l, e) /\ h = Up(l, f)
  BY <1>2, <1>3, LiftedTo
<1>6. CASE m <= g
  BY <1>6
<1>7. CASE m > g
  <2>1. l # 0 /\ m = MAX_WINDOWS
    BY <1>1, <1>4, <1>5, <1>7, DesktopSizes DEF Up, Slots
  <2> QED
    BY <2>1
<1> QED
  BY <1>6, <1>7, DesktopSizes DEF Slots

-----------------------------------------------------------------------------
(* Finding a window. *)

LEMMA IndexIs ==
    ASSUME NEW T, Tabled(T), NEW id
    PROVE  /\ index_of(T, id) = 0 \/ index_of(T, id) \in Slots
           /\ index_of(T, id) # 0 => /\ T[index_of(T, id)].id = id
                                     /\ T[index_of(T, id)].state # "Free"
                                     /\ id # 0
           /\ \A i \in Slots : T[i].id = id /\ id # 0 => index_of(T, id) = i
<1>1. CASE \E i \in Open(T) : T[i].id = id
  <2> DEFINE k == CHOOSE i \in Open(T) : T[i].id = id
  <2>1. index_of(T, id) = k
    BY <1>1 DEF index_of
  <2>2. k \in Open(T) /\ T[k].id = id
    BY <1>1
  <2> HIDE DEF k
  <2>3. k \in Slots /\ T[k].state # "Free" /\ id # 0
    BY <2>2 DEF Open, Tabled
  <2> QED
    BY <2>1, <2>2, <2>3 DEF Tabled
<1>2. CASE ~ \E i \in Open(T) : T[i].id = id
  BY <1>2 DEF index_of, Open, Tabled
<1> QED
  BY <1>1, <1>2

LEMMA TopmostIs ==
    ASSUME NEW T, Visible(T) # {}
    PROVE  topmost(T) \in Slots /\ T[topmost(T)].state = "Normal"
<1>1. Visible(T) \subseteq Slots
  BY DEF Visible
<1>2. topmost(T) \in Visible(T)
  BY <1>1, LargestIs DEF topmost
<1> QED
  BY <1>2 DEF Visible

LEMMA AtIs ==
    ASSUME NEW T, NEW p, at(T, p) # 0
    PROVE  at(T, p) \in Slots /\ T[at(T, p)].state = "Normal"
<1> DEFINE hit == {i \in Visible(T) : p[1] \in T[i].x .. T[i].x + T[i].w - 1}
<1>1. hit \subseteq Slots /\ hit \subseteq Visible(T)
  BY DEF Visible
<1>2. hit # {} /\ at(T, p) = Largest(hit)
  BY DEF at
<1> HIDE DEF hit
<1>3. at(T, p) \in hit
  BY <1>1, <1>2, LargestIs
<1> QED
  BY <1>1, <1>3 DEF Visible

LEMMA SameTable ==
    ASSUME NEW T
    PROVE  Kept(T, T, 0) /\ Lifted(T, T, 0)
<1>1. Kept(T, T, 0)
  BY DEF Kept
<1>2. Lifted(T, T, 0)
  BY DesktopSizes DEF Lifted, Up
<1> QED
  BY <1>1, <1>2

LEMMA FocusKeeps ==
    ASSUME NEW T, Tabled(T), NEW id, NEW U, U = focus(T, id)
    PROVE  /\ Tabled(U)
           /\ Kept(T, U, 0)
           /\ \E k : Lifted(T, U, k) /\ (k # 0 => U[MAX_WINDOWS].id = id /\ id # 0)
           /\ \A next, win : Belongs(T, next, win) => Belongs(U, next, win)
<1> DEFINE k == index_of(T, id)
<1>1. CASE k = 0
  <2>1. U = T
    BY <1>1 DEF focus
  <2> QED
    BY <2>1, SameTable
<1>2. CASE k # 0
  <2>1. U = bring_to_front(T, k)
    BY <1>2 DEF focus
  <2>2. k \in Slots /\ T[k].id = id /\ id # 0
    BY <1>2, IndexIs
  <2> HIDE DEF k
  <2>3. /\ Tabled(U) /\ Kept(T, U, 0) /\ Lifted(T, U, k) /\ U[MAX_WINDOWS] = T[k]
        /\ \A next, win : Belongs(T, next, win) => Belongs(U, next, win)
    BY <2>1, <2>2, BringKeeps
  <2> QED
    BY <2>2, <2>3
<1> QED
  BY Zenon, <1>1, <1>2

-----------------------------------------------------------------------------
(* The state record. *)

Elsewhere(s, t) ==
    t.drag = s.drag /\ t.dx = s.dx /\ (t.menu <=> s.menu) /\ (t.prev <=> s.prev)

LEMMA TabSet ==
    ASSUME NEW s \in State, NEW U \in [Slots -> Window], NEW t, t = [s EXCEPT !.tab = U]
    PROVE  /\ t \in State /\ t.tab = U /\ t.next = s.next /\ t.win = s.win
           /\ Elsewhere(s, t)
BY DEF State, Elsewhere

\* A table that keeps the ids of s.
LEMMA SoundTab ==
    ASSUME NEW s, Sound(s), NEW U, Tabled(U), Belongs(U, s.next, s.win),
           NEW t, t = [s EXCEPT !.tab = U]
    PROVE  Sound(t) /\ t.tab = U /\ t.win = s.win /\ t.next = s.next /\ Elsewhere(s, t)
<1>1. s \in State /\ U \in [Slots -> Window]
  BY DEF Sound, Tabled
<1>2. t \in State /\ t.tab = U /\ t.next = s.next /\ t.win = s.win /\ Elsewhere(s, t)
  BY <1>1, TabSet
<1> QED
  BY <1>2 DEF Sound

-----------------------------------------------------------------------------
(* A new window, and an application's open(). *)

LEMMA KeptTwice ==
    ASSUME NEW T, NEW V, NEW U, NEW t, Kept(T, V, t), Kept(V, U, 0), \A i \in Slots : i # 0
    PROVE  Kept(T, U, t)
BY DEF Kept

LEMMA NewWindow ==
    ASSUME NEW T, Tabled(T), NEW slot \in Slots, T[slot].state = "Free",
           NEW next \in Nat \ {0}, \A i \in Slots : T[i].id < next,
           NEW w \in Window, w.id = next, w.state = "Normal", Fits(w),
           NEW U, U = bring_to_front([T EXCEPT ![slot] = w], slot)
    PROVE  /\ Tabled(U) /\ Kept(T, U, 0)
           /\ Lifted(T, U, slot) /\ U[MAX_WINDOWS].id = next
           /\ \A j \in Slots : U[j].id = next \/ \E i \in Slots \ {slot} : U[j].id = T[i].id
<1> DEFINE V == [T EXCEPT ![slot] = w]
<1>0. T \in [Slots -> Window] /\ T[slot].id = 0 /\ \A i \in Slots : i # 0
  BY DesktopSizes DEF Tabled, Slots
<1>1. V \in [Slots -> Window] /\ \A i \in Slots : V[i] = IF i = slot THEN w ELSE T[i]
  BY <1>0
<1>2. U = bring_to_front(V, slot)
  OBVIOUS
<1> HIDE DEF V
<1>3. Tabled(V)
  <2>1. \A j \in Slots : V[j].state = "Free" <=> V[j].id = 0
    BY <1>1 DEF Tabled
  <2>2. \A i, j \in Slots : V[i].id = V[j].id => i = j \/ V[i].id = 0
    BY <1>1 DEF Tabled
  <2>3. \A j \in Slots : Fits(V[j])
    BY <1>1 DEF Tabled
  <2> QED
    BY <1>1, <2>1, <2>2, <2>3 DEF Tabled
<1>4. Kept(T, V, 0)
  BY <1>0, <1>1 DEF Kept
<1>5. Tabled(U) /\ Kept(V, U, 0) /\ Lifted(V, U, slot) /\ U[MAX_WINDOWS] = V[slot]
  BY <1>2, <1>3, BringKeeps
<1>6. Kept(T, U, 0)
  BY <1>0, <1>4, <1>5, KeptTwice
<1>7. U[MAX_WINDOWS].id = next
  BY <1>1, <1>5
<1>8. Lifted(T, U, slot)
  <2>1. \A i \in Slots : T[i].id # U[MAX_WINDOWS].id
    BY <1>0, <1>7 DEF Window
  <2> QED
    BY Zenon, <1>1, <1>5, <2>1 DEF Lifted
<1>9. ASSUME NEW j \in Slots
      PROVE  U[j].id = next \/ \E i \in Slots \ {slot} : U[j].id = T[i].id
  <2>0. slot \in 0 .. MAX_WINDOWS
    BY DesktopSizes DEF Slots
  <2>1. PICK i \in Slots : j = Up(slot, i)
    BY <2>0, UpIs
  <2>2. U[j] = V[i]
    BY <1>1, <1>2, <2>1, BringIs
  <2> QED
    BY Zenon, <1>1, <2>2
<1> QED
  BY Zenon, <1>5, <1>6, <1>7, <1>8, <1>9

\* t is s after application o's window, if o # 0, was put on top.
Launched(s, t, o) ==
    /\ Sound(t) /\ Elsewhere(s, t)
    /\ Kept(s.tab, t.tab, 0)
    /\ \E k : /\ Lifted(s.tab, t.tab, k)
              /\ k # 0 => t.tab[MAX_WINDOWS].id = o /\ o # 0

LEMMA WinSet ==
    ASSUME NEW s \in State, NEW f \in [Apps -> Nat], NEW t, t = [s EXCEPT !.win = f]
    PROVE  t \in State /\ t.tab = s.tab /\ t.next = s.next /\ t.win = f /\ Elsewhere(s, t)
BY DEF State, Elsewhere

LEMMA EmptyIs == Empty \in Window /\ Empty.id = 0 /\ Empty.state = "Free" /\ ~ Empty.maximized
BY DEF Empty, Window

LEMMA ElsewhereTwice ==
    ASSUME NEW s, NEW q, NEW t, Elsewhere(s, q), Elsewhere(q, t)
    PROVE  Elsewhere(s, t)
BY DEF Elsewhere

LEMMA CreateIs ==
    ASSUME NEW s, Sound(s), NEW x \in Nat, NEW w \in 3 .. SW, NEW a \in Apps,
           index_of(s.tab, s.win[a]) = 0,
           NEW t, t = [create(s, x, w)[2] EXCEPT !.win[a] = create(s, x, w)[1]]
    PROVE  Launched(s, t, t.win[a])
<1> DEFINE free == {i \in Slots : s.tab[i].state = "Free"}
           slot == CHOOSE i \in free : \A j \in free : i <= j
           new == [Empty EXCEPT !.id = s.next, !.state = "Normal", !.w = w,
                             !.x = IF SW > w THEN Lower(x, SW - w) ELSE 0]
           U == bring_to_front([s.tab EXCEPT ![slot] = new], slot)
<1>0. /\ s \in State /\ Tabled(s.tab) /\ Belongs(s.tab, s.next, s.win)
      /\ s.next \in Nat \ {0} /\ s.win \in [Apps -> Nat] /\ s.tab \in [Slots -> Window]
  BY DEF Sound, State
<1>1. \A i \in Slots : s.tab[i].id # 0 => s.tab[i].id # s.win[a]
  BY <1>0, IndexIs DEF Slots
<1>2. CASE free = {}
  <2>1. create(s, x, w) = <<0, [s EXCEPT !.next = s.next + 1]>>
    BY <1>2 DEF create
  <2>2. PICK q : q = [s EXCEPT !.next = s.next + 1]
    BY Zenon
  <2>a. create(s, x, w)[1] = 0 /\ create(s, x, w)[2] = q
    BY <2>1, <2>2
  <2>b. PICK f : f = [s.win EXCEPT ![a] = 0]
    BY Zenon
  <2>c. /\ q \in State /\ q.tab = s.tab /\ q.next = s.next + 1 /\ q.win = s.win
        /\ Elsewhere(s, q)
    BY <1>0, <2>2 DEF State, Elsewhere
  <2>d. t = [q EXCEPT !.win = f] /\ f \in [Apps -> Nat]
    BY <1>0, <2>a, <2>b, <2>c
  <2>e. t \in State /\ t.tab = q.tab /\ t.next = q.next /\ t.win = f /\ Elsewhere(q, t)
    BY Zenon, <2>c, <2>d, WinSet
  <2>3. /\ t \in State /\ t.tab = s.tab /\ t.next = s.next + 1
        /\ t.win = [s.win EXCEPT ![a] = 0] /\ Elsewhere(s, t)
    BY <2>b, <2>c, <2>e, ElsewhereTwice
  <2>4. Belongs(t.tab, t.next, t.win)
    BY SMTT(30), <1>0, <1>1, <2>3 DEF Belongs, Window
  <2>5. Kept(s.tab, t.tab, 0) /\ Lifted(s.tab, t.tab, 0)
    BY <2>3, SameTable
  <2> QED
    BY Zenon, <1>0, <2>3, <2>4, <2>5 DEF Sound, Launched
<1>3. CASE free # {}
  <2>1. create(s, x, w) = <<s.next, [s EXCEPT !.next = s.next + 1, !.tab = U]>>
    BY Zenon, <1>3 DEF create
  <2>2. PICK q : q = [s EXCEPT !.next = s.next + 1, !.tab = U]
    BY Zenon
  <2>a. create(s, x, w)[1] = s.next /\ create(s, x, w)[2] = q
    BY SMTT(30), <2>1, <2>2
  <2>b. PICK f : f = [s.win EXCEPT ![a] = s.next]
    BY Zenon
  <2>3. slot \in free
    BY Zenon, <1>3, SmallestIs
  <2>4. slot \in Slots /\ s.tab[slot].state = "Free"
    BY Zenon, <2>3
  <2>5. new \in Window /\ new.id = s.next /\ new.state = "Normal" /\ Fits(new)
    <3>1. PICK y : y = IF SW > w THEN Lower(x, SW - w) ELSE 0
      OBVIOUS
    <3>2. y \in Nat /\ y + w <= SW /\ w \in Nat
      BY <3>1, DesktopSizes DEF Lower
    <3>3. new = [Empty EXCEPT !.id = s.next, !.state = "Normal", !.w = w, !.x = y]
      BY <3>1
    <3> HIDE DEF new
    <3>a. PICK e : e = Empty
      OBVIOUS
    <3>b. PICK n \in Nat : n = s.next
      BY <1>0
    <3>c. e \in Window /\ ~ e.maximized /\ y \in Int /\ w \in Int
      BY <3>2, <3>a, EmptyIs
    <3>d. new = [e EXCEPT !.id = n, !.state = "Normal", !.w = w, !.x = y]
      BY <3>3, <3>a, <3>b
    <3>e. new \in Window /\ new.id = n /\ new.state = "Normal" /\ new.x = y /\ new.w = w
      BY Zenon, <3>c, <3>d DEF Window
    <3>f. ~ new.maximized
      BY <3>c, <3>d DEF Window
    <3>4. /\ new \in Window /\ new.id = s.next /\ new.state = "Normal" /\ new.x = y /\ new.w = w
          /\ ~ new.maximized
      BY <3>b, <3>e, <3>f
    <3>6. Fits(new)
      BY <3>2, <3>4, DesktopSizes DEF Fits
    <3> QED
      BY <3>4, <3>6
  <2> HIDE DEF slot, new, free
  <2>6. \A i \in Slots : s.tab[i].id < s.next
    BY <1>0 DEF Belongs
  <2>7. /\ Tabled(U) /\ Kept(s.tab, U, 0)
        /\ Lifted(s.tab, U, slot) /\ U[MAX_WINDOWS].id = s.next
        /\ \A j \in Slots : U[j].id = s.next \/ \E i \in Slots \ {slot} : U[j].id = s.tab[i].id
    BY SMTT(30), <1>0, <2>4, <2>5, <2>6, NewWindow
  <2> HIDE DEF U
  <2>8. U \in [Slots -> Window]
    BY <2>7 DEF Tabled
  <2>9. /\ t \in State /\ t.tab = U /\ t.next = s.next + 1
        /\ t.win = [s.win EXCEPT ![a] = s.next] /\ Elsewhere(s, t)
    <3>0. PICK n : n = s.next + 1
      OBVIOUS
    <3>1. n \in Nat \ {0} /\ q = [s EXCEPT !.next = n, !.tab = U]
      BY <1>0, <2>2, <3>0
    <3>2. q \in State /\ q.tab = U /\ q.next = n /\ q.win = s.win /\ Elsewhere(s, q)
      BY Zenon, <1>0, <2>8, <3>1 DEF State, Elsewhere
    <3>3. t = [q EXCEPT !.win = f] /\ f \in [Apps -> Nat]
      BY <1>0, <2>a, <2>b, <3>2
    <3>4. t \in State /\ t.tab = q.tab /\ t.next = q.next /\ t.win = f /\ Elsewhere(q, t)
      BY Zenon, <3>2, <3>3, WinSet
    <3> QED
      BY Zenon, <2>b, <3>0, <3>2, <3>4, ElsewhereTwice
  <2>10. Belongs(t.tab, t.next, t.win)
    <3>1. \A j \in Slots : U[j].id < s.next + 1
      BY <1>0, <2>6, <2>7 DEF Window
    <3>2. ASSUME NEW j \in Slots, U[j].id # 0 PROVE \E b \in Apps : t.win[b] = U[j].id
      <4>1. CASE U[j].id = s.next
        BY <1>0, <2>9, <4>1
      <4>2. CASE U[j].id # s.next
        <5>1. PICK i \in Slots : U[j].id = s.tab[i].id
          BY <2>7, <4>2
        <5>2. PICK b \in Apps : s.win[b] = s.tab[i].id
          BY <1>0, <3>2, <5>1 DEF Belongs
        <5>3. b # a
          BY <1>1, <3>2, <5>1, <5>2
        <5> QED
          BY Zenon, <1>0, <2>9, <5>1, <5>2, <5>3
      <4> QED
        BY <4>1, <4>2
    <3>3. \A b \in Apps : t.win[b] < s.next + 1
      BY <1>0, <2>9 DEF Belongs
    <3>4. \A b, c \in Apps : t.win[b] = t.win[c] => b = c \/ t.win[b] = 0
      BY <1>0, <2>9 DEF Belongs
    <3> QED
      BY Zenon, <2>9, <3>1, <3>2, <3>3, <3>4 DEF Belongs
  <2>11. t.win[a] = s.next /\ s.next # 0
    BY Zenon, <1>0, <2>9
  <2> QED
    BY Zenon, <2>7, <2>9, <2>10, <2>11 DEF Sound, Launched
<1> QED
  BY Zenon, <1>2, <1>3

LEMMA LaunchIs ==
    ASSUME NEW s, Sound(s), NEW a \in Apps, NEW t, t = launch(s, a)
    PROVE  Launched(s, t, t.win[a])
<1>1. CASE index_of(s.tab, s.win[a]) = 0
  <2>1. Place[a].x \in Nat /\ Place[a].w \in 3 .. SW
    BY DesktopSizes DEF Apps
  <2>2. t = [create(s, Place[a].x, Place[a].w)[2] EXCEPT
               !.win[a] = create(s, Place[a].x, Place[a].w)[1]]
    BY Zenon, <1>1 DEF launch
  <2> QED
    BY Zenon, <1>1, <2>1, <2>2, CreateIs
<1>2. CASE index_of(s.tab, s.win[a]) # 0
  <2> DEFINE U == focus(s.tab, s.win[a])
  <2>1. t = [s EXCEPT !.tab = U]
    BY <1>2 DEF launch
  <2>2. Tabled(s.tab) /\ Belongs(s.tab, s.next, s.win)
    BY DEF Sound
  <2>3. /\ Tabled(U) /\ Kept(s.tab, U, 0)
        /\ \E k : Lifted(s.tab, U, k) /\ (k # 0 => U[MAX_WINDOWS].id = s.win[a] /\ s.win[a] # 0)
        /\ Belongs(U, s.next, s.win)
    BY <2>2, FocusKeeps
  <2> HIDE DEF U
  <2>4. Sound(t) /\ t.tab = U /\ t.win = s.win /\ Elsewhere(s, t)
    BY <2>1, <2>3, SoundTab
  <2> QED
    BY <2>3, <2>4 DEF Launched
<1> QED
  BY <1>1, <1>2

LEMMA OpenedIs ==
    ASSUME NEW s, Sound(s), NEW b \in Apps \cup {NoApp}, NEW t, t = opened(s, b)
    PROVE  Launched(s, t, IF b = NoApp THEN 0 ELSE t.win[b])
<1>1. CASE b = NoApp
  <2>1. t = s
    BY <1>1 DEF opened
  <2>2. Kept(s.tab, t.tab, 0) /\ Lifted(s.tab, t.tab, 0) /\ Elsewhere(s, t)
    BY <2>1, SameTable DEF Elsewhere
  <2> QED
    BY <2>1, <2>2 DEF Launched
<1>2. CASE b # NoApp
  <2>1. b \in Apps /\ t = launch(s, b)
    BY <1>2 DEF opened
  <2> QED
    BY <1>2, <2>1, LaunchIs
<1> QED
  BY <1>1, <1>2

-----------------------------------------------------------------------------
(* What the buttons and the drag do to one window. *)

\* U is T with one window changed: what all four have in common.
Touched(T, U, k) ==
    /\ Tabled(U) /\ Kept(T, U, k) /\ Lifted(T, U, 0)
    /\ \A next, win : next > 0 /\ Belongs(T, next, win) => Belongs(U, next, win)

LEMMA StateSet ==
    ASSUME NEW T, Tabled(T), NEW k \in Slots, T[k].state # "Free",
           NEW c \in {"Normal", "Minimized"}, NEW U, U = [T EXCEPT ![k].state = c]
    PROVE  /\ Touched(T, U, k)
           /\ \A i \in Slots : U[i].id = T[i].id
           /\ c = "Normal" => Kept(T, U, 0)
<1>1. T \in [Slots -> Window] /\ T[k] \in Window /\ Fits(T[k]) /\ T[k].id # 0
  BY DEF Tabled
<1>2. PICK w : w = [T[k] EXCEPT !.state = c]
  BY Zenon
<1>3. U = [T EXCEPT ![k] = w]
  BY <1>2
<1>4. w \in Window /\ w.state = c /\ w.id = T[k].id /\ (w.maximized <=> T[k].maximized)
  BY <1>1, <1>2 DEF Window
<1>5. w.x = T[k].x /\ w.w = T[k].w /\ w.rst_x = T[k].rst_x /\ w.rst_w = T[k].rst_w
  BY <1>1, <1>2 DEF Window
<1>6. Fits(w)
  BY <1>1, <1>4, <1>5 DEF Fits
<1>7. /\ Tabled(U) /\ Kept(T, U, k) /\ Lifted(T, U, 0)
      /\ \A next, win : next > 0 /\ Belongs(T, next, win) => Belongs(U, next, win)
      /\ c = "Normal" => Kept(T, U, 0)
  BY Zenon, <1>1, <1>3, <1>4, <1>6, SlotKeeps
<1>8. \A i \in Slots : U[i].id = T[i].id
  BY <1>1, <1>3, <1>4
<1> QED
  BY Zenon, <1>7, <1>8 DEF Touched

LEMMA MoveIs ==
    ASSUME NEW T, Tabled(T), NEW k \in Slots, T[k].state # "Free", NEW x \in Int,
           NEW U, U = move_to(T, k, x)
    PROVE  /\ Touched(T, U, k)
           /\ Kept(T, U, 0)
           /\ \A i \in Slots : U[i].id = T[i].id
<1>1. T \in [Slots -> Window] /\ T[k] \in Window /\ Fits(T[k]) /\ T[k].id # 0
  BY DEF Tabled
<1>2. CASE T[k].maximized
  <2>1. U = T
    BY <1>2 DEF move_to
  <2>2. Kept(T, U, k) /\ Kept(T, U, 0) /\ Lifted(T, U, 0)
    BY Zenon, <2>1, SameTable DEF Kept
  <2> QED
    BY <2>1, <2>2 DEF Touched
<1>3. CASE ~ T[k].maximized
  <2>0. PICK y : y = IF x < 0 THEN 0 ELSE Lower(x, SW - T[k].w)
    OBVIOUS
  <2>1. T[k].x \in Int /\ T[k].w \in Int /\ T[k].x >= 0 /\ T[k].w >= 0 /\ T[k].x + T[k].w <= SW
    BY <1>1 DEF Fits, Window
  <2>2. y \in Int /\ y >= 0 /\ y + T[k].w <= SW
    BY <2>0, <2>1, DesktopSizes DEF Lower
  <2>3. PICK w : w = [T[k] EXCEPT !.x = y]
    BY Zenon
  <2>4. U = [T EXCEPT ![k] = w]
    BY <1>3, <2>0, <2>3 DEF move_to
  <2>5. w \in Window /\ w.state = T[k].state /\ w.id = T[k].id /\ w.x = y /\ w.w = T[k].w
    BY <1>1, <2>2, <2>3 DEF Window
  <2>6. w.maximized <=> T[k].maximized
    BY <1>1, <2>3 DEF Window
  <2>7. Fits(w)
    BY Zenon, <1>3, <2>1, <2>2, <2>5, <2>6 DEF Fits
  <2>8. /\ Tabled(U) /\ Kept(T, U, k) /\ Lifted(T, U, 0) /\ Kept(T, U, 0)
        /\ \A next, win : next > 0 /\ Belongs(T, next, win) => Belongs(U, next, win)
    BY Zenon, <1>1, <2>4, <2>5, <2>6, <2>7, SlotKeeps
  <2>9. \A i \in Slots : U[i].id = T[i].id
    BY <1>1, <2>4, <2>5
  <2> QED
    BY Zenon, <2>8, <2>9 DEF Touched
<1> QED
  BY <1>2, <1>3

LEMMA CloseIs ==
    ASSUME NEW T, Tabled(T), NEW k \in Slots, NEW U, U = close(T, k)
    PROVE  Touched(T, U, k)
<1>1. U = [T EXCEPT ![k] = Empty]
  BY DEF close
<1>2. Fits(Empty)
  BY EmptyIs DEF Fits
<1>3. /\ Tabled(U) /\ Kept(T, U, k) /\ Lifted(T, U, 0)
      /\ \A next, win : next > 0 /\ Belongs(T, next, win) => Belongs(U, next, win)
  BY Zenon, <1>1, <1>2, EmptyIs, SlotKeeps
<1> QED
  BY <1>3 DEF Touched

LEMMA ToggleIs ==
    ASSUME NEW T, Tabled(T), NEW k \in Slots, T[k].state # "Free",
           NEW U, U = toggle_maximize(T, k)
    PROVE  Touched(T, U, k)
<1>1. T \in [Slots -> Window] /\ T[k] \in Window /\ Fits(T[k]) /\ T[k].id # 0
  BY DEF Tabled
<1>2. PICK o : o = T[k]
  OBVIOUS
<1>3. /\ o \in Window /\ o.state # "Free" /\ o.id # 0
      /\ o.x \in Int /\ o.w \in Int /\ o.rst_x \in Int /\ o.rst_w \in Int
      /\ o.x >= 0 /\ o.w >= 0 /\ o.x + o.w <= SW
      /\ o.maximized => o.rst_x >= 0 /\ o.rst_w >= 0 /\ o.rst_x + o.rst_w <= SW
  BY <1>1, <1>2 DEF Fits, Window
<1>4. PICK w : w = IF o.maximized
                   THEN [o EXCEPT !.x = o.rst_x, !.w = o.rst_w, !.maximized = FALSE]
                   ELSE [o EXCEPT !.rst_x = o.x, !.rst_w = o.w, !.x = 0, !.w = SW,
                                  !.maximized = TRUE]
  OBVIOUS
<1>5. U = [T EXCEPT ![k] = w]
  BY <1>2, <1>4 DEF toggle_maximize
<1>6. w \in Window /\ w.state = o.state /\ w.id = o.id /\ Fits(w)
  <2>1. CASE o.maximized
    <3>1. w = [o EXCEPT !.x = o.rst_x, !.w = o.rst_w, !.maximized = FALSE]
      BY <1>4, <2>1
    <3>2. w \in Window /\ w.state = o.state /\ w.id = o.id /\ w.x = o.rst_x /\ w.w = o.rst_w
      BY Zenon, <1>3, <3>1 DEF Window
    <3>3. ~ w.maximized
      BY <1>3, <3>1 DEF Window
    <3> QED
      BY <1>3, <2>1, <3>2, <3>3 DEF Fits
  <2>2. CASE ~ o.maximized
    <3>1. w = [o EXCEPT !.rst_x = o.x, !.rst_w = o.w, !.x = 0, !.w = SW, !.maximized = TRUE]
      BY <1>4, <2>2
    <3>2. SW \in Nat
      BY DesktopSizes
    <3>3. w.state = o.state /\ w.id = o.id /\ w.x = 0 /\ w.w = SW
      BY <1>3, <3>1 DEF Window
    <3>4. w.rst_x = o.x /\ w.rst_w = o.w
      BY <1>3, <3>1 DEF Window
    <3>5. w \in Window
      <4>1. PICK a, b, c, z : a = o.x /\ b = o.w /\ c = SW /\ z = 0
        OBVIOUS
      <4>2. a \in Int /\ b \in Int /\ c \in Int /\ z \in Int
        BY <1>3, <3>2, <4>1
      <4>3. w = [o EXCEPT !.rst_x = a, !.rst_w = b, !.x = z, !.w = c, !.maximized = TRUE]
        BY <3>1, <4>1
      <4>4. o \in Window
        BY <1>3
      <4> QED
        BY Zenon, <4>2, <4>3, <4>4 DEF Window
    <3> QED
      BY <1>3, <3>2, <3>3, <3>4, <3>5 DEF Fits
  <2> QED
    BY <2>1, <2>2
<1>7. /\ Tabled(U) /\ Kept(T, U, k) /\ Lifted(T, U, 0)
      /\ \A next, win : next > 0 /\ Belongs(T, next, win) => Belongs(U, next, win)
  BY Zenon, <1>2, <1>3, <1>5, <1>6, SlotKeeps
<1> QED
  BY <1>7 DEF Touched

-----------------------------------------------------------------------------
(* The dock. *)

Below(T, i) == {j \in Open(T) : j <= i}

LEMMA BelowIs ==
    ASSUME NEW T, NEW i \in Nat
    PROVE  /\ IsFiniteSet(Below(T, i)) /\ Cardinality(Below(T, i)) \in Nat
           /\ i = 0 => Cardinality(Below(T, i)) = 0
           /\ i > 0 => Cardinality(Below(T, i)) =
                         Cardinality(Below(T, i - 1)) + (IF i \in Open(T) THEN 1 ELSE 0)
<1>1. ASSUME NEW n \in Int PROVE IsFiniteSet(Below(T, n))
  <2>1. IsFiniteSet(1 .. MAX_WINDOWS)
    BY FS_Interval, DesktopSizes
  <2>2. Below(T, n) \subseteq 1 .. MAX_WINDOWS
    BY DEF Below, Open, Slots
  <2> QED
    BY Zenon, <2>1, <2>2, FS_Subset
<1>2. IsFiniteSet(Below(T, i)) /\ Cardinality(Below(T, i)) \in Nat
  BY <1>1, FS_CardinalityType
<1>3. CASE i = 0
  <2>1. Below(T, i) = {}
    BY <1>3, DesktopSizes DEF Below, Open, Slots
  <2> QED
    BY <1>2, <1>3, <2>1, FS_EmptySet
<1>4. CASE i > 0 /\ i \in Open(T)
  <2>1. IsFiniteSet(Below(T, i - 1)) /\ i \notin Below(T, i - 1)
    BY <1>1 DEF Below
  <2>2. Below(T, i) = Below(T, i - 1) \cup {i}
    BY <1>4, DesktopSizes DEF Below, Open, Slots
  <2>3. Cardinality(Below(T, i)) = Cardinality(Below(T, i - 1)) + 1
    BY <2>1, <2>2, FS_AddElement
  <2> QED
    BY <1>2, <1>4, <2>3
<1>5. CASE i > 0 /\ i \notin Open(T)
  <2>1. Below(T, i) = Below(T, i - 1)
    BY <1>5, DesktopSizes DEF Below, Open, Slots
  <2> QED
    BY <1>2, <1>5, <2>1
<1> QED
  BY <1>3, <1>4, <1>5

LEMMA RankIs ==
    ASSUME NEW T, NEW k \in 1 .. Cardinality(Open(T))
    PROVE  \E i \in Open(T) : Cardinality(Below(T, i)) = k
<1> DEFINE S == {i \in Slots : Cardinality(Below(T, i)) >= k}
<1>0. MAX_WINDOWS \in Nat /\ Slots = 1 .. MAX_WINDOWS
  BY DesktopSizes DEF Slots
<1>1. Below(T, MAX_WINDOWS) = Open(T)
  BY <1>0 DEF Below, Open
<1>2. Cardinality(Open(T)) \in Nat
  BY <1>0, <1>1, BelowIs
<1>3. Cardinality(Below(T, 0)) = 0
  BY BelowIs
<1>4. MAX_WINDOWS # 0
  BY <1>1, <1>2, <1>3
<1>5. S # {} /\ S \subseteq Slots
  BY <1>0, <1>1, <1>2, <1>4
<1>6. PICK i \in S : \A j \in S : i <= j
  BY Zenon, <1>5, SmallestIs
<1>7. i \in Nat /\ i > 0 /\ i - 1 \in Nat
  BY <1>0
<1>8. Cardinality(Below(T, i - 1)) \in Nat
  BY <1>7, BelowIs
<1>9. ~ (Cardinality(Below(T, i - 1)) >= k)
  <2>1. CASE i - 1 = 0
    BY <1>3, <2>1
  <2>2. CASE i - 1 # 0
    <3>1. i - 1 \in Slots /\ ~ (i <= i - 1)
      BY <1>0, <1>7, <2>2
    <3> QED
      BY <1>6, <3>1
  <2> QED
    BY <2>1, <2>2
<1>10. Cardinality(Below(T, i)) =
         Cardinality(Below(T, i - 1)) + (IF i \in Open(T) THEN 1 ELSE 0)
  BY <1>7, BelowIs
<1>11. Cardinality(Below(T, i)) >= k
  OBVIOUS
<1>12. i \in Open(T) /\ Cardinality(Below(T, i)) = k
  BY <1>8, <1>9, <1>10, <1>11
<1> QED
  BY <1>12

LEMMA DockIs ==
    ASSUME NEW T, Tabled(T), NEW k \in DOMAIN dock_buttons(T)
    PROVE  /\ index_of(T, dock_buttons(T)[k]) \in Slots
           /\ T[index_of(T, dock_buttons(T)[k])].state # "Free"
<1> DEFINE n == Lower(Cardinality(Open(T)), Lower(MAX_DOCK_BUTTONS, SW) - 1)
           f == [h \in 1 .. n |-> T[CHOOSE i \in Open(T) : Cardinality(Below(T, i)) = h].id]
<1>1. dock_buttons(T) = f
  BY DEF dock_buttons, Below
<1>2. MAX_WINDOWS \in Nat /\ Below(T, MAX_WINDOWS) = Open(T)
  BY DesktopSizes DEF Below, Open, Slots
<1>3. Cardinality(Open(T)) \in Nat
  BY <1>2, BelowIs
<1>4. k \in 1 .. n
  BY <1>1
<1>5. k \in 1 .. Cardinality(Open(T))
  BY <1>3, <1>4, DesktopSizes DEF Lower
<1>6. \E i \in Open(T) : Cardinality(Below(T, i)) = k
  BY <1>5, RankIs
<1>7. PICK i \in Open(T) : f[k] = T[i].id
  BY Zenon, <1>4, <1>6
<1>8. i \in Slots /\ T[i].state # "Free" /\ T[i].id # 0
  BY <1>7 DEF Open, Tabled
<1>9. index_of(T, T[i].id) = i
  BY <1>8, IndexIs
<1> QED
  BY Zenon, <1>1, <1>7, <1>8, <1>9

-----------------------------------------------------------------------------
(* A press of the button. *)

\* The window application b has put on top, if any.
Top(t, b) == IF b = NoApp THEN 0 ELSE t.win[b]

\* t is s after a press: only the window with the focus may be closed, hidden
\* or resized, and nothing but o comes to lie over a window that rose.
Pressed(s, t, o) ==
    /\ Sound(t)
    /\ t.prev <=> s.prev
    /\ Kept(s.tab, t.tab, topmost(s.tab))
    /\ Ordered(s.tab, t.tab, o)

LEMMA SlotsNotZero == \A i \in Slots : i # 0
BY DesktopSizes DEF Slots

LEMMA Weaker ==
    ASSUME NEW T, NEW U, NEW k, NEW o
    PROVE  (Kept(T, U, 0) => Kept(T, U, k)) /\ (Ordered(T, U, 0) => Ordered(T, U, o))
<1>1. Kept(T, U, 0) => Kept(T, U, k)
  BY SlotsNotZero DEF Kept
<1>2. Ordered(T, U, 0) => Ordered(T, U, o)
  BY Zenon DEF Ordered
<1> QED
  BY <1>1, <1>2

\* A press that changes the table and nothing else.
LEMMA PressTable ==
    ASSUME NEW s, Sound(s), NEW U, Tabled(U), Belongs(U, s.next, s.win),
           Kept(s.tab, U, topmost(s.tab)), NEW k, Lifted(s.tab, U, k),
           NEW t, t = [s EXCEPT !.tab = U], NEW o
    PROVE  Pressed(s, t, o)
<1>1. Sound(t) /\ t.tab = U /\ Elsewhere(s, t)
  BY SoundTab
<1>2. Ordered(s.tab, U, 0)
  BY LiftOrders DEF Sound
<1>3. Ordered(s.tab, U, o)
  BY <1>2, Weaker
<1> QED
  BY <1>1, <1>3 DEF Pressed, Elsewhere

LEMMA MenuSet ==
    ASSUME NEW s, Sound(s), NEW m \in BOOLEAN, NEW t, t = [s EXCEPT !.menu = m]
    PROVE  Sound(t) /\ t.tab = s.tab /\ t.win = s.win /\ (t.prev <=> s.prev) /\ t.drag = s.drag
<1>1. s \in State
  BY DEF Sound
<1>2. /\ t \in State /\ t.tab = s.tab /\ t.win = s.win /\ t.next = s.next /\ (t.prev <=> s.prev)
      /\ t.drag = s.drag
  BY <1>1 DEF State
<1> QED
  BY <1>2 DEF Sound

LEMMA NextPositive ==
    ASSUME NEW s, Sound(s)
    PROVE  s.next > 0 /\ Tabled(s.tab) /\ Belongs(s.tab, s.next, s.win)
<1>1. s.next \in Nat \ {0}
  BY DEF Sound, State
<1> QED
  BY <1>1 DEF Sound

LEMMA DockPress ==
    ASSUME NEW s, Sound(s), NEW p, NEW o, NEW t, t = on_dock_click(s, p)
    PROVE  Pressed(s, t, o)
<1> DEFINE T == s.tab
           idx == index_of(T, dock_buttons(T)[p[1]])
<1>0. s.next > 0 /\ Tabled(T) /\ Belongs(T, s.next, s.win)
  BY NextPositive
<1>1. CASE p[1] = 0
  <2>1. t = [s EXCEPT !.menu = ~ s.menu]
    <3>1. 0 \notin DOMAIN dock_buttons(T)
      BY DEF dock_buttons
    <3> QED
      BY <1>1, <3>1 DEF on_dock_click
  <2>2. Sound(t) /\ t.tab = s.tab /\ (t.prev <=> s.prev)
    BY Zenon, <2>1, MenuSet
  <2>3. Kept(s.tab, t.tab, 0) /\ Lifted(s.tab, t.tab, 0)
    BY <2>2, SameTable
  <2>4. Ordered(s.tab, t.tab, 0)
    BY <1>0, <2>3, LiftOrders
  <2> QED
    BY <2>2, <2>3, <2>4, Weaker DEF Pressed
<1>2. CASE p[1] # 0 /\ p[1] \in DOMAIN dock_buttons(T)
  <2>1. idx \in Slots /\ T[idx].state # "Free"
    BY Zenon, <1>0, <1>2, DockIs
  <2>2. CASE T[idx].state = "Minimized"
    <3>1. t = [s EXCEPT !.tab = restore(T, idx)]
      BY <1>2, <2>2 DEF on_dock_click
    <3>0. PICK c \in {"Normal", "Minimized"} : c = "Normal"
      OBVIOUS
    <3>2. PICK V : V = [T EXCEPT ![idx].state = c]
      BY Zenon
    <3>3. PICK U : U = bring_to_front(V, idx)
      OBVIOUS
    <3>4. t = [s EXCEPT !.tab = U]
      BY Zenon, <3>0, <3>1, <3>2, <3>3 DEF restore
    <3> HIDE DEF T, idx
    <3>a. Touched(T, V, idx)
      BY Zenon, <1>0, <2>1, <3>0, <3>2, StateSet
    <3>b. Kept(T, V, 0)
      BY Zenon, <1>0, <2>1, <3>0, <3>2, StateSet
    <3>c. \A i \in Slots : V[i].id = T[i].id
      BY <1>0, <2>1, <3>0, <3>2, StateSet
    <3>5. Touched(T, V, idx) /\ Kept(T, V, 0) /\ \A i \in Slots : V[i].id = T[i].id
      BY <3>a, <3>b, <3>c
    <3>6. Tabled(V) /\ Belongs(V, s.next, s.win)
      BY <1>0, <3>5 DEF Touched
    <3>7. Tabled(U) /\ Kept(V, U, 0) /\ Lifted(V, U, idx) /\ Belongs(U, s.next, s.win)
      BY Zenon, <2>1, <3>3, <3>6, BringKeeps
    <3>8. Lifted(T, U, idx)
      BY Zenon, <2>1, <3>5, <3>7 DEF Lifted
    <3>9. Kept(T, U, 0)
      BY <3>5, <3>7, KeptTwice, SlotsNotZero
    <3>10. Kept(T, U, topmost(T))
      BY <3>9, Weaker
    <3> QED
      BY <3>4, <3>7, <3>8, <3>10, PressTable DEF T
  <2>3. CASE T[idx].state = "Normal" /\ idx = topmost(T)
    <3>1. t = [s EXCEPT !.tab = minimize(T, idx)]
      BY <1>2, <2>3 DEF on_dock_click
    <3>2. PICK U : U = [T EXCEPT ![idx].state = "Minimized"]
      BY Zenon
    <3>3. t = [s EXCEPT !.tab = U]
      BY Zenon, <3>1, <3>2 DEF minimize
    <3> HIDE DEF T, idx
    <3>4. Touched(T, U, idx)
      BY Zenon, <1>0, <2>1, <3>2, StateSet
    <3>5. Tabled(U) /\ Kept(T, U, topmost(T)) /\ Lifted(T, U, 0) /\ Belongs(U, s.next, s.win)
      BY Zenon, <1>0, <2>3, <3>4 DEF Touched
    <3> QED
      BY <3>3, <3>5, PressTable DEF T
  <2>4. CASE T[idx].state = "Normal" /\ idx # topmost(T)
    <3>1. PICK U : U = bring_to_front(T, idx)
      BY Zenon
    <3>2. t = [s EXCEPT !.tab = U]
      BY <1>2, <2>4, <3>1 DEF on_dock_click
    <3> HIDE DEF T, idx
    <3>3. Tabled(U) /\ Kept(T, U, 0) /\ Lifted(T, U, idx) /\ Belongs(U, s.next, s.win)
      BY Zenon, <1>0, <2>1, <3>1, BringKeeps
    <3>4. Kept(T, U, topmost(T))
      BY <3>3, Weaker
    <3> QED
      BY <3>2, <3>3, <3>4, PressTable DEF T
  <2>5. T[idx].state \in {"Free", "Normal", "Minimized"}
    BY Zenon, <1>0, <2>1 DEF Tabled, Window
  <2> QED
    BY Zenon, <2>1, <2>2, <2>3, <2>4, <2>5
<1>3. CASE p[1] # 0 /\ p[1] \notin DOMAIN dock_buttons(T)
  <2>1. t = s
    BY <1>3 DEF on_dock_click
  <2>2. Kept(s.tab, t.tab, 0) /\ Lifted(s.tab, t.tab, 0)
    BY <2>1, SameTable
  <2>3. Ordered(s.tab, t.tab, 0)
    BY <1>0, <2>2, LiftOrders
  <2> QED
    BY <2>1, <2>2, <2>3, Weaker DEF Pressed
<1> QED
  BY <1>1, <1>2, <1>3

LEMMA ButtonPress ==
    ASSUME NEW s, Sound(s), NEW k \in Slots, s.tab[k].state = "Normal", k = topmost(s.tab),
           NEW btn \in {"Close", "Maximize", "Minimize"},
           NEW o, NEW t, t = press_button(s, k, btn)
    PROVE  Pressed(s, t, o)
<1> DEFINE T == s.tab
<1>0. s.next > 0 /\ Tabled(T) /\ Belongs(T, s.next, s.win)
  BY Zenon, NextPositive
<1>1. PICK U : U = CASE btn = "Close" -> close(T, k)
                     [] btn = "Minimize" -> minimize(T, k)
                     [] btn = "Maximize" -> toggle_maximize(T, k)
  OBVIOUS
<1>2. t = [s EXCEPT !.tab = U]
  BY <1>1 DEF press_button
<1>3. T[k].state # "Free"
  OBVIOUS
<1> HIDE DEF T
<1>4. Touched(T, U, k)
  <2>1. CASE btn = "Close"
    BY <1>0, <1>1, <2>1, CloseIs
  <2>2. CASE btn = "Minimize"
    <3>1. U = [T EXCEPT ![k].state = "Minimized"]
      BY <1>1, <2>2 DEF minimize
    <3> QED
      BY Zenon, <1>0, <1>3, <3>1, StateSet
  <2>3. CASE btn = "Maximize"
    BY <1>0, <1>1, <1>3, <2>3, ToggleIs
  <2> QED
    BY Zenon, <2>1, <2>2, <2>3
<1>5. Tabled(U) /\ Kept(T, U, topmost(T)) /\ Lifted(T, U, 0) /\ Belongs(U, s.next, s.win)
  BY Zenon, <1>0, <1>4 DEF Touched, T
<1> QED
  BY <1>2, <1>5, PressTable DEF T

LEMMA WindowPress ==
    ASSUME NEW s, Sound(s), NEW k \in Slots, s.tab[k].state = "Normal", NEW p \in Points,
           NEW b \in Apps \cup {NoApp}, NEW t, t = press_window(s, k, p, b)
    PROVE  Pressed(s, t, Top(t, b))
<1> DEFINE w == s.tab[k]
           btn == button_at(w, p)
           grabbed == IF p[2] = "title" THEN [s EXCEPT !.drag = w.id, !.dx = p[1] - w.x] ELSE s
           V == focus(s.tab, w.id)
           raised == [grabbed EXCEPT !.tab = V]
<1>0. Tabled(s.tab) /\ w \in Window /\ p[1] \in Int
  <2>1. p[1] \in 0 .. SW - 1
    BY DEF Points
  <2> QED
    BY <2>1, DesktopSizes DEF Sound, Tabled
<1>1. CASE k = topmost(s.tab) /\ btn # "none"
  <2>1. t = press_button(s, k, btn)
    BY <1>1 DEF press_window
  <2>2. btn \in {"Close", "Maximize", "Minimize"}
    BY Zenon, <1>1 DEF button_at
  <2> QED
    BY Zenon, <1>1, <2>1, <2>2, ButtonPress
<1>2. CASE ~ (k = topmost(s.tab) /\ btn # "none")
  <2>1. t = IF p[2] = "title" THEN raised ELSE opened(raised, b)
    BY <1>2 DEF press_window
  <2>2. /\ Sound(grabbed) /\ grabbed.tab = s.tab /\ grabbed.win = s.win
        /\ grabbed.next = s.next /\ (grabbed.prev <=> s.prev)
    <3>1. CASE p[2] = "title"
      <4>1. PICK id \in Nat : id = w.id
        BY Zenon, <1>0 DEF Window
      <4>2. PICK x \in Int : x = p[1] - w.x
        BY <1>0 DEF Window
      <4>3. grabbed = [s EXCEPT !.drag = id, !.dx = x]
        BY <3>1, <4>1, <4>2
      <4> HIDE DEF grabbed, w
      <4>4. s \in State /\ id \in Nat /\ x \in Int
        BY Zenon, <4>1, <4>2 DEF Sound
      <4>5. /\ grabbed \in State /\ grabbed.tab = s.tab /\ grabbed.win = s.win
            /\ grabbed.next = s.next /\ (grabbed.prev <=> s.prev)
        BY Zenon, <4>3, <4>4 DEF State
      <4> QED
        BY Zenon, <4>5 DEF Sound
    <3>2. CASE p[2] # "title"
      BY <3>2
    <3> QED
      BY <3>1, <3>2
  <2>3. PICK id : id = w.id
    OBVIOUS
  <2>4. V = focus(s.tab, id)
    BY Zenon, <2>3
  <2> HIDE DEF grabbed, V
  <2>5. Belongs(s.tab, s.next, s.win)
    BY Zenon DEF Sound
  <2>6. /\ Tabled(V) /\ Kept(s.tab, V, 0) /\ Belongs(V, s.next, s.win)
        /\ \E l : Lifted(s.tab, V, l) /\ (l # 0 => V[MAX_WINDOWS].id = id /\ id # 0)
    BY SMTT(30), <1>0, <2>4, <2>5, FocusKeeps
  <2>7. PICK l : Lifted(s.tab, V, l)
    BY Zenon, <2>6
  <2>8. /\ Sound(raised) /\ raised.tab = V /\ raised.win = s.win /\ (raised.prev <=> s.prev)
    <3>1. PICK g : g = grabbed
      OBVIOUS
    <3>2. PICK r : r = raised
      BY Zenon
    <3>3. Sound(g) /\ Belongs(V, g.next, g.win) /\ r = [g EXCEPT !.tab = V]
      BY <2>2, <2>6, <3>1, <3>2
    <3>4. Sound(r) /\ r.tab = V /\ r.win = g.win /\ Elsewhere(g, r)
      BY <2>6, <3>3, SoundTab
    <3> QED
      BY <2>2, <3>1, <3>2, <3>4 DEF Elsewhere
  <2> HIDE DEF raised
  <2>9. CASE p[2] = "title"
    <3>1. t = raised
      BY Zenon, <2>1, <2>9
    <3>2. Ordered(s.tab, V, 0)
      BY Zenon, <1>0, <2>7, LiftOrders
    <3> QED
      BY Zenon, <2>6, <2>8, <3>1, <3>2, Weaker DEF Pressed
  <2>10. CASE p[2] # "title"
    <3>1. t = opened(raised, b)
      BY Zenon, <2>1, <2>10
    <3>2. Launched(raised, t, Top(t, b))
      BY Zenon, <2>8, <3>1, OpenedIs DEF Top
    <3>3. PICK o : o = Top(t, b)
      BY Zenon
    <3>4. PICK h : Lifted(V, t.tab, h) /\ (h # 0 => t.tab[MAX_WINDOWS].id = o /\ o # 0)
      BY Zenon, <2>8, <3>2, <3>3 DEF Launched
    <3>5. Sound(t) /\ Kept(V, t.tab, 0) /\ (t.prev <=> s.prev)
      BY Zenon, <2>8, <3>2 DEF Launched, Elsewhere
    <3>6. Ordered(s.tab, t.tab, o)
      BY Zenon, <1>0, <2>6, <2>7, <3>4, LiftsOrder
    <3>7. Kept(s.tab, t.tab, 0)
      BY Zenon, <2>6, <3>5, KeptTwice, SlotsNotZero
    <3>8. Kept(s.tab, t.tab, topmost(s.tab))
      BY Zenon, <3>7, Weaker
    <3> QED
      BY Zenon, <3>3, <3>5, <3>6, <3>8 DEF Pressed
  <2> QED
    BY Zenon, <2>9, <2>10
<1> QED
  BY Zenon, <1>1, <1>2

LEMMA PressIs ==
    ASSUME NEW s, Sound(s), NEW p \in Points, NEW b \in Apps \cup {NoApp},
           NEW t, t = on_press(s, p, b)
    PROVE  Pressed(s, t, Top(t, b))
<1>0. Tabled(s.tab)
  BY DEF Sound
<1>1. CASE s.menu
  <2>1. PICK q : q = opened(s, launcher_hit(p))
    OBVIOUS
  <2>2. t = [q EXCEPT !.menu = FALSE]
    BY <1>1, <2>1 DEF on_press
  <2>3. launcher_hit(p) \in Apps \cup {NoApp}
    <3>1. p[1] \in 0 .. SW - 1
      BY DEF Points
    <3> QED
      BY <3>1, DesktopSizes DEF launcher_hit, Apps, NoApp
  <2>4. PICK o : Launched(s, q, o)
    BY Zenon, <2>1, <2>3, OpenedIs
  <2>5. PICK k : Lifted(s.tab, q.tab, k)
    BY Zenon, <2>4 DEF Launched
  <2>6. Sound(q) /\ Kept(s.tab, q.tab, 0) /\ (q.prev <=> s.prev)
    BY Zenon, <2>4 DEF Launched, Elsewhere
  <2>7. Sound(t) /\ t.tab = q.tab /\ (t.prev <=> q.prev)
    BY Zenon, <2>2, <2>6, MenuSet
  <2>8. Ordered(s.tab, t.tab, 0)
    BY Zenon, <1>0, <2>5, <2>7, LiftOrders
  <2> QED
    BY Zenon, <2>6, <2>7, <2>8, Weaker DEF Pressed
<1>2. CASE ~ s.menu /\ p[2] = "dock"
  <2>1. t = on_dock_click(s, p)
    BY <1>2 DEF on_press
  <2> QED
    BY Zenon, <2>1, DockPress
<1>3. CASE ~ s.menu /\ p[2] # "dock" /\ at(s.tab, p) # 0
  <2>1. PICK k : k = at(s.tab, p)
    OBVIOUS
  <2>2. t = press_window(s, k, p, b)
    BY <1>3, <2>1 DEF on_press
  <2>3. k \in Slots /\ s.tab[k].state = "Normal"
    BY Zenon, <1>3, <2>1, AtIs
  <2> QED
    BY Zenon, <2>2, <2>3, WindowPress
<1>4. CASE ~ s.menu /\ p[2] # "dock" /\ at(s.tab, p) = 0
  <2>1. t = s
    BY <1>4 DEF on_press
  <2>2. Kept(s.tab, t.tab, 0) /\ Lifted(s.tab, t.tab, 0)
    BY <2>1, SameTable
  <2>3. Ordered(s.tab, t.tab, 0)
    BY <1>0, <2>2, LiftOrders
  <2> QED
    BY Zenon, <2>1, <2>2, <2>3, Weaker DEF Pressed
<1> QED
  BY Zenon, <1>1, <1>2, <1>3, <1>4

-----------------------------------------------------------------------------
(* The drag and the loop. *)

LEMMA DragIs ==
    ASSUME NEW s, Sound(s), NEW p \in Points, NEW t, t = dragged(s, p)
    PROVE  /\ Sound(t) /\ Kept(s.tab, t.tab, 0)
           /\ \A i \in Slots : t.tab[i].id = s.tab[i].id
           /\ t.win = s.win /\ t.drag = s.drag /\ (t.prev <=> s.prev)
<1>1. PICK k : k = index_of(s.tab, s.drag)
  OBVIOUS
<1>2. CASE s.drag = NO_DRAG \/ k = 0
  <2>1. t = s
    BY <1>1, <1>2 DEF dragged
  <2> QED
    BY <2>1, SameTable
<1>3. CASE ~ (s.drag = NO_DRAG \/ k = 0)
  <2>1. PICK x : x = p[1] - s.dx
    OBVIOUS
  <2>2. PICK U : U = move_to(s.tab, k, x)
    OBVIOUS
  <2>3. t = [s EXCEPT !.tab = U]
    BY <1>1, <1>3, <2>1, <2>2 DEF dragged
  <2>4. s.next > 0 /\ Tabled(s.tab) /\ Belongs(s.tab, s.next, s.win)
    BY NextPositive
  <2>5. k \in Slots /\ s.tab[k].state # "Free"
    BY Zenon, <1>1, <1>3, <2>4, IndexIs
  <2>6. x \in Int
    <3>1. p[1] \in 0 .. SW - 1
      BY Zenon DEF Points
    <3>2. s.dx \in Int
      BY DEF Sound, State
    <3> QED
      BY <2>1, <3>1, <3>2
  <2>7. Touched(s.tab, U, k) /\ Kept(s.tab, U, 0) /\ \A i \in Slots : U[i].id = s.tab[i].id
    BY SMTT(30), <2>2, <2>4, <2>5, <2>6, MoveIs
  <2>8. Tabled(U) /\ Belongs(U, s.next, s.win)
    BY <2>4, <2>7 DEF Touched
  <2>9. Sound(t) /\ t.tab = U /\ t.win = s.win /\ Elsewhere(s, t)
    BY <2>3, <2>8, SoundTab
  <2> QED
    BY Zenon, <2>7, <2>9 DEF Elsewhere
<1> QED
  BY Zenon, <1>2, <1>3

LEMMA PrevSet ==
    ASSUME NEW s, Sound(s), NEW m \in BOOLEAN, NEW t, t = [s EXCEPT !.prev = m]
    PROVE  Sound(t) /\ t.tab = s.tab /\ t.win = s.win /\ (t.prev <=> m) /\ t.drag = s.drag
<1>1. s \in State
  BY DEF Sound
<1>2. /\ t \in State /\ t.tab = s.tab /\ t.win = s.win /\ t.next = s.next /\ (t.prev <=> m)
      /\ t.drag = s.drag
  BY <1>1 DEF State
<1> QED
  BY <1>2 DEF Sound

LEMMA ReleaseSet ==
    ASSUME NEW s, Sound(s), NEW t, t = [s EXCEPT !.drag = NO_DRAG]
    PROVE  Sound(t) /\ t.tab = s.tab /\ t.win = s.win /\ (t.prev <=> s.prev) /\ t.drag = NO_DRAG
<1>0. PICK n \in Nat : n = NO_DRAG
  BY DEF NO_DRAG
<1>1. s \in State /\ n \in Nat /\ t = [s EXCEPT !.drag = n]
  BY <1>0 DEF Sound
<1>2. /\ t \in State /\ t.tab = s.tab /\ t.win = s.win /\ t.next = s.next /\ (t.prev <=> s.prev)
      /\ t.drag = n
  BY <1>1 DEF State
<1> QED
  BY <1>0, <1>2 DEF Sound

\* t is s after news of the mouse.
LEMMA MouseIs ==
    ASSUME NEW s, Sound(s), s.drag # NO_DRAG => s.prev, NEW p \in Points,
           NEW down \in BOOLEAN, NEW b \in Apps \cup {NoApp}, NEW t, t = on_mouse(s, p, down, b)
    PROVE  /\ Sound(t) /\ (t.drag # NO_DRAG => t.prev)
           /\ Kept(s.tab, t.tab, topmost(s.tab))
           /\ Ordered(s.tab, t.tab, Top(t, b))
<1>1. PICK s1 : s1 = [s EXCEPT !.prev = down]
  BY Zenon
<1>2. PICK s2 : s2 = IF down /\ ~ s.prev THEN on_press(s1, p, b) ELSE s1
  OBVIOUS
<1>3. PICK s3 : s3 = IF s.prev /\ ~ down THEN [s2 EXCEPT !.drag = NO_DRAG] ELSE s2
  BY Zenon
<1>4. t = dragged(s3, p)
  BY <1>1, <1>2, <1>3 DEF on_mouse
<1>5. Sound(s1) /\ s1.tab = s.tab /\ s1.win = s.win /\ (s1.prev <=> down) /\ s1.drag = s.drag
  BY <1>1, PrevSet
<1>6. Pressed(s1, s2, Top(s2, b)) /\ (~ (down /\ ~ s.prev) => s2 = s1)
  <2>1. CASE down /\ ~ s.prev
    <3>1. s2 = on_press(s1, p, b)
      BY <1>2, <2>1
    <3> QED
      BY <1>5, <2>1, <3>1, PressIs
  <2>2. CASE ~ (down /\ ~ s.prev)
    <3>1. s2 = s1
      BY <1>2, <2>2
    <3>2. Kept(s1.tab, s2.tab, 0) /\ Lifted(s1.tab, s2.tab, 0)
      BY Zenon, <3>1, SameTable
    <3>3. Ordered(s1.tab, s2.tab, 0)
      BY Zenon, <1>5, <3>2, LiftOrders DEF Sound
    <3> QED
      BY Zenon, <1>5, <3>1, <3>2, <3>3, Weaker DEF Pressed
  <2> QED
    BY <2>1, <2>2
<1>7. /\ Sound(s2) /\ (s2.prev <=> down) /\ Kept(s.tab, s2.tab, topmost(s.tab))
      /\ Ordered(s.tab, s2.tab, Top(s2, b))
  BY Zenon, <1>5, <1>6 DEF Pressed
<1>8. /\ Sound(s3) /\ s3.tab = s2.tab /\ s3.win = s2.win /\ (s3.prev <=> down)
      /\ s.prev /\ ~ down => s3.drag = NO_DRAG
      /\ ~ (s.prev /\ ~ down) => s3 = s2
  <2>1. CASE s.prev /\ ~ down
    <3>1. s3 = [s2 EXCEPT !.drag = NO_DRAG]
      BY <1>3, <2>1
    <3> QED
      BY <1>7, <2>1, <3>1, ReleaseSet
  <2>2. CASE ~ (s.prev /\ ~ down)
    BY <1>3, <1>7, <2>2
  <2> QED
    BY Zenon, <2>1, <2>2
<1>9. s3.drag # NO_DRAG => s3.prev
  BY Zenon, <1>5, <1>6, <1>8
<1>10. /\ Sound(t) /\ Kept(s3.tab, t.tab, 0)
       /\ \A i \in Slots : t.tab[i].id = s3.tab[i].id
       /\ t.win = s3.win /\ t.drag = s3.drag /\ (t.prev <=> s3.prev)
  BY Zenon, <1>4, <1>8, DragIs
<1>11. Kept(s2.tab, t.tab, 0)
  BY Zenon, <1>8, <1>10
<1>12. Kept(s.tab, t.tab, topmost(s.tab))
  BY Zenon, <1>7, <1>11, KeptTwice, SlotsNotZero
<1>13. Top(t, b) = Top(s2, b)
  BY Zenon, <1>8, <1>10 DEF Top
<1>14. \A i \in Slots : t.tab[i].id = s2.tab[i].id
  BY Zenon, <1>8, <1>10
<1>15. Ordered(s.tab, t.tab, Top(t, b))
  BY SMTT(30), <1>7, <1>13, <1>14 DEF Ordered
<1> QED
  BY Zenon, <1>9, <1>10, <1>12, <1>15

-----------------------------------------------------------------------------
(* The specification. *)

Inv == Sound(d) /\ DragHeld

\* What a step does to the table.
Steps ==
    \/ d' = d
    \/ /\ Kept(d.tab, d'.tab, topmost(d.tab))
       /\ Ordered(d.tab, d'.tab, Top(d', by'))

LEMMA Start == Init => Inv
<1> SUFFICES ASSUME Init PROVE Inv
  OBVIOUS
<1>0. PICK T, f, n, z : T = [i \in Slots |-> Empty] /\ f = [a \in Apps |-> 0] /\ n = 1 /\ z = 0
  BY Zenon
<1>1. /\ T \in [Slots -> Window] /\ f \in [Apps -> Nat] /\ n \in Nat \ {0} /\ z \in Nat
      /\ z \in Int
  BY <1>0, EmptyIs
<1>2. d = [tab |-> T, next |-> n, win |-> f, drag |-> z, dx |-> z, menu |-> FALSE, prev |-> FALSE]
  BY Zenon, <1>0 DEF Init, NO_DRAG
<1>3. d \in State /\ d.tab = T /\ d.next = n /\ d.win = f /\ d.drag = z
  BY Zenon, <1>1, <1>2 DEF State
<1>4. Tabled(T)
  BY Zenon, <1>0, <1>1, EmptyIs DEF Tabled, Fits
<1>5. Belongs(T, n, f)
  BY <1>0, EmptyIs DEF Belongs
<1> QED
  BY Zenon, <1>0, <1>3, <1>4, <1>5 DEF Inv, Sound, DragHeld, NO_DRAG

LEMMA Preserved == Inv /\ [Next]_vars => Inv' /\ Steps
<1> SUFFICES ASSUME Inv, [Next]_vars PROVE Inv' /\ Steps
  OBVIOUS
<1>0. Sound(d) /\ (d.drag # NO_DRAG => d.prev)
  BY DEF Inv, DragHeld
<1>1. ASSUME d' = d PROVE Inv' /\ Steps
  BY <1>1 DEF Inv, DragHeld, Steps
<1>2. ASSUME NEW n \in 1 .. 2, StartPass(n) PROVE Inv' /\ Steps
  BY <1>1, <1>2 DEF StartPass
<1>3. ASSUME NEW b \in Apps \cup {NoApp}, handle_key(b) PROVE Inv' /\ Steps
  <2>1. PICK t : t = d'
    OBVIOUS
  <2>2. t = opened(d, b) /\ by' = b
    BY <1>3, <2>1 DEF handle_key
  <2>3. PICK o : Launched(d, t, o)
    BY Zenon, <1>0, <2>2, OpenedIs
  <2>4. PICK k : Lifted(d.tab, t.tab, k)
    BY Zenon, <2>3 DEF Launched
  <2>5. Sound(t) /\ Kept(d.tab, t.tab, 0) /\ t.drag = d.drag /\ (t.prev <=> d.prev)
    BY Zenon, <2>3 DEF Launched, Elsewhere
  <2>6. Ordered(d.tab, t.tab, 0)
    BY <1>0, <2>4, LiftOrders DEF Sound
  <2>7. Kept(d.tab, t.tab, topmost(d.tab)) /\ Ordered(d.tab, t.tab, Top(t, b))
    BY Zenon, <2>5, <2>6, Weaker
  <2>8. Steps
    BY <2>1, <2>2, <2>7 DEF Steps
  <2>9. Inv'
    BY <1>0, <2>1, <2>5 DEF Inv, DragHeld
  <2> QED
    BY <2>8, <2>9
<1>4. ASSUME KeysDone PROVE Inv' /\ Steps
  BY <1>1, <1>4 DEF KeysDone
<1>5. ASSUME NEW p \in Points, NEW down \in BOOLEAN, NEW b \in Apps \cup {NoApp},
             MouseNews(p, down, b)
      PROVE  Inv' /\ Steps
  <2>1. PICK t : t = d'
    OBVIOUS
  <2>2. t = on_mouse(d, p, down, b) /\ by' = b
    BY <1>5, <2>1 DEF MouseNews
  <2>3. /\ Sound(t) /\ (t.drag # NO_DRAG => t.prev)
        /\ Kept(d.tab, t.tab, topmost(d.tab))
        /\ Ordered(d.tab, t.tab, Top(t, b))
    BY Zenon, <1>0, <2>2, MouseIs
  <2>4. Steps
    BY <2>1, <2>2, <2>3 DEF Steps
  <2>5. Inv'
    BY <2>1, <2>3 DEF Inv, DragHeld
  <2> QED
    BY <2>4, <2>5
<1>6. CASE UNCHANGED vars
  BY <1>1, <1>6 DEF vars
<1> QED
  BY Zenon, <1>2, <1>3, <1>4, <1>5, <1>6 DEF Next

LEMMA InvKept == Inv => WindowsKept
<1> SUFFICES ASSUME Inv PROVE WindowsKept
  OBVIOUS
<1>0. Tabled(d.tab) /\ Belongs(d.tab, d.next, d.win)
  BY DEF Inv, Sound
<1>1. TypeOK
  BY Zenon, <1>0 DEF TypeOK, Tabled, Belongs, Open
<1>2. OwnedOnce
  <2> SUFFICES ASSUME NEW i \in Open(d.tab)
               PROVE  Cardinality({a \in Apps : d.win[a] = d.tab[i].id}) = 1
    BY Zenon DEF OwnedOnce
  <2>1. i \in Slots /\ d.tab[i].id # 0
    BY Zenon, <1>0 DEF Open, Tabled
  <2>2. PICK a \in Apps : d.win[a] = d.tab[i].id
    BY Zenon, <1>0, <2>1 DEF Belongs
  <2>3. {c \in Apps : d.win[c] = d.tab[i].id} = {a}
    BY Zenon, <1>0, <2>1, <2>2 DEF Belongs
  <2> QED
    BY Zenon, <2>3, FS_Singleton
<1>3. OnScreen
  <2> SUFFICES ASSUME NEW i \in Open(d.tab)
               PROVE  LET w == d.tab[i]
                      IN w.x >= 0 /\ w.x + w.w <= SW /\ (w.maximized => w.rst_x + w.rst_w <= SW)
    BY Zenon DEF OnScreen
  <2> QED
    BY Zenon, <1>0 DEF Open, Tabled, Fits
<1> QED
  BY <1>1, <1>2, <1>3 DEF Inv, WindowsKept

LEMMA PosIs ==
    ASSUME NEW T, Tabled(T), NEW id \in Ids(T)
    PROVE  /\ Pos(T, id) \in Slots /\ T[Pos(T, id)].id = id /\ id # 0
           /\ \A k \in Slots : T[k].id = id => k = Pos(T, id)
<1>1. PICK i \in Slots : T[i].id = id /\ T[i].state # "Free"
  BY DEF Ids, Open
<1>2. Pos(T, id) \in Slots /\ T[Pos(T, id)].id = id
  BY <1>1 DEF Pos
<1>3. id # 0
  BY <1>1 DEF Tabled
<1> QED
  BY Zenon, <1>2, <1>3 DEF Tabled

LEMMA StepOrder ==
    ASSUME Inv, Inv', Steps, d'.tab # d.tab
    PROVE  \A u, v \in Ids(d.tab) \cap Ids(d'.tab) :
              Pos(d.tab, u) < Pos(d.tab, v) /\ Pos(d'.tab, v) < Pos(d'.tab, u)
              => \A o \in Ids(d'.tab) \ {u} :
                    \/ Pos(d'.tab, o) < Pos(d'.tab, u)
                    \/ by' # NoApp /\ o = d'.win[by']
<1>1. PICK T, U, c : T = d.tab /\ U = d'.tab /\ c = Top(d', by')
  OBVIOUS
<1>2. Tabled(T) /\ Tabled(U)
  BY <1>1 DEF Inv, Sound
<1>3. Ordered(T, U, c)
  BY <1>1 DEF Steps
<1>4. c # 0 => by' # NoApp /\ c = d'.win[by']
  BY Zenon, <1>1 DEF Top
<1>5. ASSUME NEW u \in Ids(T) \cap Ids(U), NEW v \in Ids(T) \cap Ids(U),
             Pos(T, u) < Pos(T, v), Pos(U, v) < Pos(U, u), NEW o \in Ids(U) \ {u}
      PROVE  Pos(U, o) < Pos(U, u) \/ (c # 0 /\ o = c)
  <2>1. PICK i, j, k, l, m : /\ i = Pos(T, u) /\ j = Pos(T, v) /\ k = Pos(U, u)
                             /\ l = Pos(U, v) /\ m = Pos(U, o)
    BY Zenon
  <2>2. i \in Slots /\ j \in Slots /\ T[i].id = u /\ T[j].id = v /\ u # 0 /\ v # 0
    BY Zenon, <1>2, <2>1, PosIs
  <2>3. k \in Slots /\ l \in Slots /\ U[k].id = u /\ U[l].id = v
    BY Zenon, <1>2, <2>1, PosIs
  <2>4. m \in Slots /\ U[m].id = o /\ o # 0
    BY Zenon, <1>2, <2>1, PosIs
  <2>5. i < j /\ l < k
    BY Zenon, <1>5, <2>1
  <2>6. m <= k \/ (c # 0 /\ U[m].id = c)
    BY <1>3, <2>2, <2>3, <2>4, <2>5 DEF Ordered
  <2>7. m # k
    BY Zenon, <2>3, <2>4
  <2>8. m \in Int /\ k \in Int
    BY <2>3, <2>4, DesktopSizes DEF Slots
  <2> QED
    BY <2>1, <2>4, <2>6, <2>7, <2>8
<1> QED
  BY Zenon, <1>1, <1>4, <1>5

LEMMA StepFocus ==
    ASSUME Inv, Inv', Steps, d'.tab # d.tab, NEW id \in Ids(d.tab),
           \/ id \notin Ids(d'.tab)
           \/ d.tab[Pos(d.tab, id)].maximized # d'.tab[Pos(d'.tab, id)].maximized
           \/ d.tab[Pos(d.tab, id)].state = "Normal" /\ d'.tab[Pos(d'.tab, id)].state = "Minimized"
    PROVE  id = topmost_id(d.tab)
<1> SUFFICES ASSUME id # topmost_id(d.tab) PROVE FALSE
  BY Zenon
<1>1. PICK T, U, i : T = d.tab /\ U = d'.tab /\ i = Pos(T, id)
  BY Zenon
<1>2. Tabled(T) /\ Tabled(U)
  BY Zenon, <1>1 DEF Inv, Sound
<1>3. Kept(T, U, topmost(T))
  BY Zenon, <1>1 DEF Steps
<1>4. i \in Slots /\ T[i].id = id /\ id # 0
  BY Zenon, <1>1, <1>2, PosIs
<1>5. i # topmost(T)
  BY Zenon, <1>1, <1>4, SlotsNotZero DEF topmost_id, topmost
<1>6. PICK k \in Slots : /\ U[k].id = T[i].id
                         /\ U[k].maximized <=> T[i].maximized
                         /\ T[i].state = "Normal" => U[k].state = "Normal"
  BY Zenon, <1>3, <1>4, <1>5 DEF Kept
<1>7. id \in Ids(U)
  BY Zenon, <1>2, <1>4, <1>6 DEF Ids, Open, Tabled
<1>8. k = Pos(U, id)
  BY Zenon, <1>2, <1>4, <1>6, <1>7, PosIs
<1>9. U[k].maximized \in BOOLEAN /\ T[i].maximized \in BOOLEAN
  BY Zenon, <1>2, <1>4 DEF Tabled, Window
<1>10. U[k].maximized = T[i].maximized
  BY Zenon, <1>6, <1>9
<1> QED
  BY Zenon, <1>1, <1>6, <1>7, <1>8, <1>10

\* Whatever is opened, raised, dragged, maximised, hidden or closed, and in
\* whatever order, each window has exactly one owner, is whole on the screen
\* and follows the pointer only while the button is held (window.rs, shell.rs,
\* apps/mod.rs): for every size of the table, the registry and the screen.
THEOREM WindowsAreKept == Spec => []WindowsKept
<1>1. Init => Inv
  BY Start
<1>2. Inv /\ [Next]_vars => Inv'
  BY Preserved
<1>3. Inv => WindowsKept
  BY InvKept
<1> QED
  BY <1>1, <1>2, <1>3, PTL DEF Spec

\* No key or click does more to the other windows than raise one of them: two
\* windows change places only for the lower one to become the highest, but for
\* a window its application opens (bring_to_front), and only the window with
\* the focus is closed, resized or hidden (on_press, on_dock_click).
THEOREM ClicksSpareTheRest == Spec => ClicksKeepTheRest
<1>1. Init => Inv
  BY Start
<1>2. Inv /\ [Next]_vars => Inv' /\ Steps
  BY Preserved
<1>3. Inv /\ Inv' /\ Steps =>
        [d'.tab # d.tab => \A u, v \in Ids(d.tab) \cap Ids(d'.tab) :
          Pos(d.tab, u) < Pos(d.tab, v) /\ Pos(d'.tab, v) < Pos(d'.tab, u)
          => \A o \in Ids(d'.tab) \ {u} :
                \/ Pos(d'.tab, o) < Pos(d'.tab, u)
                \/ by' # NoApp /\ o = d'.win[by']]_vars
  BY Zenon, StepOrder
<1>4. Inv /\ Inv' /\ Steps =>
        [d'.tab # d.tab => \A id \in Ids(d.tab) :
          (\/ id \notin Ids(d'.tab)
           \/ d.tab[Pos(d.tab, id)].maximized # d'.tab[Pos(d'.tab, id)].maximized
           \/ d.tab[Pos(d.tab, id)].state = "Normal" /\ d'.tab[Pos(d'.tab, id)].state = "Minimized")
          => id = topmost_id(d.tab)]_vars
  BY Zenon, StepFocus
<1> QED
  BY <1>1, <1>2, <1>3, <1>4, PTL DEF Spec, ClicksKeepTheRest, OrderKept, OnlyFocusedActs
=============================================================================
