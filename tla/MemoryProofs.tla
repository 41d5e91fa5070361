---------------------------- MODULE MemoryProofs ----------------------------
(***************************************************************************)
(* No frame is handed out twice, and what the scans of the bitmap and of   *)
(* the process table return is true of them, for every size of the tables, *)
(* every memory map and every order of calls.                              *)
(***************************************************************************)
EXTENDS Memory, WellFoundedInduction, FiniteSetTheorems, TLAPS

\* A set of naturals that is not empty has a least member, which is what the
\* loops of alloc and alloc_contig stop at.
LEMMA LeastFound ==
    ASSUME NEW S \in SUBSET Nat, S # {}
    PROVE  Min(S) \in S /\ \A y \in S : Min(S) <= y
<1>1. IsWellFoundedOn(OpToRel(<, Nat), Nat)
  BY Zenon, NatLessThanWellFounded
<1>2. \E x \in S : \A y \in S : ~ (<<y, x>> \in OpToRel(<, Nat))
  BY Zenon, <1>1, WFMin
<1>3. \E x \in S : \A y \in S : x <= y
  <2>1. PICK x \in S : \A y \in S : ~ (<<y, x>> \in OpToRel(<, Nat))
    BY Zenon, <1>2
  <2>2. ASSUME NEW y \in S PROVE x <= y
    <3>1. x \in Nat /\ y \in Nat
      OBVIOUS
    <3>2. ~ (<<y, x>> \in OpToRel(<, Nat))
      BY Zenon, <2>1
    <3>3. y < x => <<y, x>> \in {ss \in Nat \X Nat : ss[1] < ss[2]}
      BY <3>1
    <3>4. ~ (y < x)
      BY <3>2, <3>3, Zenon DEF OpToRel
    <3> QED
      BY <3>1, <3>4
  <2> QED
    BY <2>2
<1> QED
  BY Zenon, <1>3 DEF Min

(***************************************************************************)
(* What alloc and alloc_contig return                                      *)
(***************************************************************************)
GrantOK(a, got) ==
    /\ got.at \in Nat /\ got.n \in Nat
    /\ Of(got) \subseteq FreeFrames(a)
    /\ got.fa.bitmap = a.bitmap \cup Of(got)
    /\ got.fa.hint \in Nat

\* alloc_contig marks a run of frames that were free and returns its start;
\* when it fails it marks nothing.
LEMMA ContigGrants ==
    ASSUME NEW B, NEW u, NEW w, NEW h \in Nat, NEW n \in Nat, NEW a,
           a = [bitmap |-> B, usable |-> u, used |-> w, hint |-> h]
    PROVE  GrantOK(a, alloc_contig(a, n))
<1> DEFINE S == Runs(a, n)
           s == Min(S)
<1>1. CASE n = 0 \/ S = {}
  <2>1. alloc_contig(a, n) = [fa |-> a, at |-> 0, n |-> 0]
    BY <1>1 DEF alloc_contig
  <2>2. Of([fa |-> a, at |-> 0, n |-> 0]) = {}
    BY DEF Of
  <2> QED
    BY <2>1, <2>2 DEF GrantOK
<1>2. CASE ~ (n = 0 \/ S = {})
  <2>1. S \in SUBSET Nat
    BY MemorySizes DEF Runs, Frames
  <2>2. s \in S
    BY <1>2, <2>1, LeastFound
  <2>3. s \in Nat /\ s + n <= MAX_FRAMES /\ s .. s + n - 1 \subseteq FreeFrames(a)
    BY <2>1, <2>2 DEF Runs
  <2> DEFINE got == [fa |-> [a EXCEPT !.bitmap = @ \cup s .. s + n - 1, !.used = @ + n,
                                      !.hint = (s + n) % MAX_FRAMES],
                     at |-> s, n |-> n]
  <2>4. alloc_contig(a, n) = got
    BY <1>2 DEF alloc_contig
  <2>5. got.at = s /\ got.n = n /\ got.fa.bitmap = B \cup s .. s + n - 1
        /\ got.fa.hint = (s + n) % MAX_FRAMES
    BY Zenon
  <2>6. (s + n) % MAX_FRAMES \in Nat
    BY <2>3, MemorySizes
  <2>7. Of(got) = s .. s + n - 1
    BY <2>5 DEF Of
  <2> QED
    BY Zenon, <2>3, <2>4, <2>5, <2>6, <2>7 DEF GrantOK
<1> QED
  BY <1>1, <1>2

\* alloc marks one frame that was free and returns it; when it fails it marks
\* nothing.
LEMMA AllocGrants ==
    ASSUME NEW B, NEW u, NEW w, NEW h \in Nat, NEW a,
           a = [bitmap |-> B, usable |-> u, used |-> w, hint |-> h]
    PROVE  GrantOK(a, alloc(a)) /\ (alloc(a).at # 0 => alloc(a).n = 1)
<1> DEFINE I == {i \in Frames : (a.hint + i) % MAX_FRAMES \in FreeFrames(a)}
           f == (a.hint + Min(I)) % MAX_FRAMES
<1>1. CASE I = {}
  <2>1. alloc(a) = [fa |-> a, at |-> 0, n |-> 0]
    BY <1>1 DEF alloc
  <2>2. Of([fa |-> a, at |-> 0, n |-> 0]) = {}
    BY DEF Of
  <2> QED
    BY <2>1, <2>2 DEF GrantOK
<1>2. CASE I # {}
  <2>1. I \in SUBSET Nat
    BY MemorySizes DEF Frames
  <2>2. Min(I) \in I
    BY <1>2, <2>1, LeastFound
  <2>3. f \in FreeFrames(a)
    BY Zenon, <2>2
  <2>4. f \in Nat
    BY <2>3, MemorySizes DEF FreeFrames, Frames
  <2> DEFINE got == [fa |-> [a EXCEPT !.bitmap = @ \cup {f}, !.used = @ + 1,
                                      !.hint = (f + 1) % MAX_FRAMES],
                     at |-> f, n |-> 1]
  <2>5. alloc(a) = got
    BY <1>2 DEF alloc
  <2> HIDE DEF f
  <2>6. got.at = f /\ got.n = 1 /\ got.fa.bitmap = B \cup {f}
        /\ got.fa.hint = (f + 1) % MAX_FRAMES
    BY Zenon
  <2>7. (f + 1) % MAX_FRAMES \in Nat
    BY <2>4, MemorySizes
  <2>8. Of(got) = {f}
    BY <2>4, <2>6 DEF Of
  <2>9. a.bitmap = B
    OBVIOUS
  <2> HIDE DEF got
  <2>10. GrantOK(a, got)
    BY <2>3, <2>4, <2>6, <2>7, <2>8, <2>9 DEF GrantOK
  <2> QED
    BY <2>5, <2>6, <2>10
<1> QED
  BY <1>1, <1>2

(***************************************************************************)
(* The inductive invariant.  HeldOnce alone is not inductive: that a free  *)
(* frame is usable and not the kernel's follows from what the bitmap is    *)
(* made of, and free needs that a page is one frame and not a lost one.    *)
(***************************************************************************)
Base(map) == (Frames \ Usable(map)) \cup (Kernel \cap Frames)

AllocatorOK(a) ==
    \E B, u, w : \E h \in Nat : a = [bitmap |-> B, usable |-> u, used |-> w, hint |-> h]

BlocksOK ==
    \A b \in held : b.at \in Nat /\ b.n \in Nat /\ (b.by = "page" => b.n = 1)

LeftOK ==
    left \in [threads : Int, rings : 0 .. Len(RING_PAGES), ticks : Int, calls : Int]

IInv ==
    /\ AllocatorOK(fa)
    /\ BlocksOK
    /\ HeldOnce
    /\ \A b \in held : Of(b) \cap lost = {}
    /\ lost \subseteq fa.bitmap
    /\ lost # {} => 0 \in lost
    /\ fa.bitmap \subseteq Frames
    /\ ~ Booted => held = {} /\ lost = {}
    /\ Booted => fa.bitmap = Base(mm) \cup HeldBy(held) \cup lost
    /\ LeftOK

\* What IInv says of the bitmap, the blocks that are held and the lost frames.
TakenOK(map, B, H, L) ==
    /\ \A b \in H : b.at \in Nat /\ b.n \in Nat /\ (b.by = "page" => b.n = 1)
    /\ \A b \in H : Of(b) \subseteq (Usable(map) \ Kernel) \cap B
    /\ \A b, c \in H : b # c => Of(b) \cap Of(c) = {}
    /\ \A b \in H : Of(b) \cap L = {}
    /\ L \subseteq B
    /\ L # {} => 0 \in L
    /\ B \subseteq Frames
    /\ B = Base(map) \cup HeldBy(H) \cup L

\* A caller who takes what an allocator returned gets frames that nobody has.
LEMMA TakeKeeps ==
    ASSUME IInv, Booted, NEW got, NEW by, NEW id,
           GrantOK(fa, got), by = "page" => got.at = 0 \/ got.n = 1,
           NEW H, H = held \cup Given(got, by, id),
           NEW L, L = lost \cup Missed(got)
    PROVE  TakenOK(mm, got.fa.bitmap, H, L)
<1> DEFINE New == Of(got)
           new == Block(id, by, got.at, got.n)
<1>1. /\ New \subseteq Frames /\ New \cap fa.bitmap = {}
      /\ New \subseteq Usable(mm) \ Kernel
      /\ got.fa.bitmap = fa.bitmap \cup New
  <2>1. New \subseteq FreeFrames(fa) /\ got.fa.bitmap = fa.bitmap \cup New
    BY DEF GrantOK
  <2>2. Base(mm) \subseteq fa.bitmap
    BY DEF IInv
  <2> QED
    BY <2>1, <2>2 DEF FreeFrames, Base
<1>2. CASE got.at = 0
  <2>1. H = held
    BY <1>2 DEF Given
  <2>2. Missed(got) = New
    BY <1>2 DEF Missed, Of, GrantOK
  <2>3. L = lost \cup New
    BY <2>2
  <2> HIDE DEF New
  <2>4. \A b \in H : b.at \in Nat /\ b.n \in Nat /\ (b.by = "page" => b.n = 1)
    BY <2>1 DEF IInv, BlocksOK
  <2>5. \A b \in H : Of(b) \subseteq (Usable(mm) \ Kernel) \cap got.fa.bitmap
    BY <1>1, <2>1 DEF IInv, HeldOnce
  <2>6. \A b, c \in H : b # c => Of(b) \cap Of(c) = {}
    BY <2>1 DEF IInv, HeldOnce
  <2>7. \A b \in H : Of(b) \cap L = {}
    BY <1>1, <2>1, <2>3 DEF IInv, HeldOnce
  <2>8. L \subseteq got.fa.bitmap /\ got.fa.bitmap \subseteq Frames
    BY <1>1, <2>3 DEF IInv
  <2>9. fa.bitmap = Base(mm) \cup HeldBy(held) \cup lost
    BY DEF IInv
  <2>10. got.fa.bitmap = Base(mm) \cup HeldBy(held) \cup L
    BY <1>1, <2>3, <2>9, Zenon
  <2>11. HeldBy(held) = HeldBy(H)
    BY <2>1
  <2>12. got.fa.bitmap = Base(mm) \cup HeldBy(H) \cup L
    BY <2>10, <2>11, Zenon
  <2>13. L # {} => 0 \in L
    BY <1>2, <2>2, <2>3 DEF IInv, Missed, GrantOK
  <2> QED
    BY <2>4, <2>5, <2>6, <2>7, <2>8, <2>12, <2>13, Zenon DEF TakenOK
<1>3. CASE got.at # 0
  <2>1. H = held \cup {new}
    BY <1>3 DEF Given
  <2>2. L = lost
    BY <1>3 DEF Missed
  <2>3. new.at = got.at /\ new.n = got.n /\ new.by = by
    BY DEF Block
  <2>4. Of(new) = New
    BY <2>3 DEF Of
  <2>5. new.at \in Nat /\ new.n \in Nat /\ (new.by = "page" => new.n = 1)
    BY <1>3, <2>3 DEF GrantOK
  <2>6. HeldBy(H) = HeldBy(held) \cup New
    BY <2>1, <2>4 DEF HeldBy
  <2>7. \A b \in held : Of(b) \cap New = {}
    BY <1>1 DEF IInv, HeldOnce
  <2> HIDE DEF new, New
  <2>8. \A b, c \in H : b # c => Of(b) \cap Of(c) = {}
    BY <2>1, <2>4, <2>7 DEF IInv, HeldOnce
  <2>9. \A b \in H : Of(b) \subseteq (Usable(mm) \ Kernel) \cap got.fa.bitmap
    BY <1>1, <2>1, <2>4 DEF IInv, HeldOnce
  <2>10. \A b \in H : Of(b) \cap L = {}
    BY <1>1, <2>1, <2>2, <2>4 DEF IInv
  <2>11. L \subseteq got.fa.bitmap /\ got.fa.bitmap \subseteq Frames
    BY <1>1, <2>2 DEF IInv
  <2>13. fa.bitmap = Base(mm) \cup HeldBy(held) \cup lost
    BY DEF IInv
  <2>14. got.fa.bitmap = Base(mm) \cup (HeldBy(held) \cup New) \cup L
    BY <1>1, <2>2, <2>13, Zenon
  <2>12. \A b \in H : b.at \in Nat /\ b.n \in Nat /\ (b.by = "page" => b.n = 1)
    BY <2>1, <2>5 DEF IInv, BlocksOK
  <2>15. got.fa.bitmap = Base(mm) \cup HeldBy(H) \cup L
    BY <2>6, <2>14, Zenon
  <2>16. L # {} => 0 \in L
    BY <2>2 DEF IInv
  <2> QED
    BY <2>8, <2>9, <2>10, <2>11, <2>12, <2>15, <2>16, Zenon DEF TakenOK
<1> QED
  BY <1>2, <1>3

\* An action that takes a block from alloc or alloc_contig keeps IInv.
LEMMA Taking ==
    ASSUME IInv, Booted, NEW got, NEW by, GrantOK(fa, got),
           by = "page" => got.at = 0 \/ got.n = 1,
           AllocatorOK(got.fa),
           Take(got, by), mm' = mm, Booted', LeftOK'
    PROVE  IInv'
<1>1. fa' = got.fa /\ held' = held \cup Given(got, by, NextId) /\ lost' = lost \cup Missed(got)
  BY DEF Take
<1>2. TakenOK(mm, got.fa.bitmap, held', lost')
  <2>1. PICK H, L, id : H = held' /\ L = lost' /\ id = NextId
    OBVIOUS
  <2>2. H = held \cup Given(got, by, id)
    BY <1>1, <2>1
  <2>3. L = lost \cup Missed(got)
    BY <1>1, <2>1
  <2>4. TakenOK(mm, got.fa.bitmap, H, L)
    BY Zenon, <2>2, <2>3, TakeKeeps
  <2> QED
    BY <2>1, <2>4
<1>3. AllocatorOK(fa)'
  BY Zenon, <1>1 DEF AllocatorOK
<1> QED
  BY Zenon, <1>1, <1>2, <1>3 DEF IInv, BlocksOK, HeldOnce, TakenOK

\* What alloc_contig and alloc return is an allocator again.
LEMMA ContigReturns ==
    ASSUME NEW a, AllocatorOK(a), NEW n \in Nat
    PROVE  GrantOK(a, alloc_contig(a, n)) /\ AllocatorOK(alloc_contig(a, n).fa)
<1>1. PICK B, u, w : \E h \in Nat : a = [bitmap |-> B, usable |-> u, used |-> w, hint |-> h]
  BY Zenon DEF AllocatorOK
<1>2. PICK h \in Nat : a = [bitmap |-> B, usable |-> u, used |-> w, hint |-> h]
  BY <1>1
<1>3. GrantOK(a, alloc_contig(a, n))
  BY <1>2, ContigGrants
<1>4. AllocatorOK(alloc_contig(a, n).fa)
  <2> DEFINE s == Min(Runs(a, n))
  <2>1. CASE n = 0 \/ Runs(a, n) = {}
    BY Zenon, <1>2, <2>1 DEF alloc_contig, AllocatorOK
  <2>2. CASE ~ (n = 0 \/ Runs(a, n) = {})
    <3>1. alloc_contig(a, n).fa = [a EXCEPT !.bitmap = @ \cup s .. s + n - 1, !.used = @ + n,
                                              !.hint = (s + n) % MAX_FRAMES]
      BY <2>2 DEF alloc_contig
    <3>2. alloc_contig(a, n).fa =
            [bitmap |-> B \cup s .. s + n - 1, usable |-> u, used |-> w + n,
             hint |-> (s + n) % MAX_FRAMES]
      BY Zenon, <1>2, <3>1
    <3>3. (s + n) % MAX_FRAMES \in Nat
      BY <1>3, <3>2 DEF GrantOK
    <3> QED
      BY Zenon, <3>2, <3>3 DEF AllocatorOK
  <2> QED
    BY <2>1, <2>2
<1> QED
  BY <1>3, <1>4

\* The same of alloc.
LEMMA AllocReturns ==
    ASSUME NEW a, AllocatorOK(a)
    PROVE  /\ GrantOK(a, alloc(a)) /\ AllocatorOK(alloc(a).fa)
           /\ alloc(a).at = 0 \/ alloc(a).n = 1
<1>1. PICK B, u, w : \E h \in Nat : a = [bitmap |-> B, usable |-> u, used |-> w, hint |-> h]
  BY Zenon DEF AllocatorOK
<1>2. PICK h \in Nat : a = [bitmap |-> B, usable |-> u, used |-> w, hint |-> h]
  BY <1>1
<1>3. GrantOK(a, alloc(a)) /\ (alloc(a).at # 0 => alloc(a).n = 1)
  BY Zenon, <1>2, AllocGrants
<1>4. AllocatorOK(alloc(a).fa)
  <2> DEFINE I == {i \in Frames : (a.hint + i) % MAX_FRAMES \in FreeFrames(a)}
             f == (a.hint + Min(I)) % MAX_FRAMES
  <2>1. CASE I = {}
    BY Zenon, <1>2, <2>1 DEF alloc, AllocatorOK
  <2>2. CASE I # {}
    <3>1. alloc(a).fa = [a EXCEPT !.bitmap = @ \cup {f}, !.used = @ + 1,
                                  !.hint = (f + 1) % MAX_FRAMES]
      BY <2>2 DEF alloc
    <3> HIDE DEF f
    <3>2. alloc(a).fa = [bitmap |-> B \cup {f}, usable |-> u, used |-> w + 1,
                         hint |-> (f + 1) % MAX_FRAMES]
      BY Zenon, <1>2, <3>1
    <3>3. (f + 1) % MAX_FRAMES \in Nat
      BY <1>3, <3>2 DEF GrantOK
    <3> QED
      BY Zenon, <3>2, <3>3 DEF AllocatorOK
  <2> QED
    BY <2>1, <2>2
<1> QED
  BY <1>3, <1>4

\* The heap is the first block that is taken from the bitmap init_frames made.
LEMMA FirstTaken ==
    ASSUME NEW map, NEW a, a.bitmap = Base(map), NEW got, GrantOK(a, got), NEW by, by # "page"
    PROVE  TakenOK(map, got.fa.bitmap, Given(got, by, 1), Missed(got))
<1> DEFINE New == Of(got)
           new == Block(1, by, got.at, got.n)
<1>1. New \subseteq FreeFrames(a) /\ got.fa.bitmap = a.bitmap \cup New
  BY DEF GrantOK
<1>2. New \subseteq Frames /\ New \subseteq Usable(map) \ Kernel
  BY <1>1 DEF FreeFrames, Base
<1>3. Base(map) \subseteq Frames
  BY DEF Base
<1>4. CASE got.at = 0
  <2>1. Given(got, by, 1) = {} /\ Missed(got) = New
    BY <1>4 DEF Given, Missed, Of, GrantOK
  <2>2. HeldBy({}) = {}
    BY DEF HeldBy
  <2>3. New # {} => 0 \in New
    BY <1>4 DEF Of, GrantOK
  <2> HIDE DEF New
  <2> QED
    BY Zenon, <1>1, <1>2, <1>3, <2>1, <2>2, <2>3 DEF TakenOK
<1>5. CASE got.at # 0
  <2>1. Given(got, by, 1) = {new} /\ Missed(got) = {}
    BY <1>5 DEF Given, Missed
  <2>2. new.at = got.at /\ new.n = got.n /\ new.by = by
    BY DEF Block
  <2>3. Of(new) = New
    BY <2>2 DEF Of
  <2>4. new.at \in Nat /\ new.n \in Nat /\ new.by # "page"
    BY <2>2 DEF GrantOK
  <2>5. HeldBy({new}) = New
    BY <2>3 DEF HeldBy
  <2> HIDE DEF new, New
  <2> QED
    BY Zenon, <1>1, <1>2, <1>3, <2>1, <2>3, <2>4, <2>5 DEF TakenOK
<1> QED
  BY <1>4, <1>5

\* Giving one page back takes it from the bitmap and from nobody else.
LEMMA FreeKeeps ==
    ASSUME IInv, Booted, NEW b \in held, b.by = "page"
    PROVE  /\ AllocatorOK(free(fa, b.at))
           /\ TakenOK(mm, free(fa, b.at).bitmap, held \ {b}, lost)
<1> DEFINE B == fa.bitmap
           H == held \ {b}
<1>1. b.at \in Nat /\ Of(b) = {b.at}
  BY DEF IInv, BlocksOK, Of
<1>2. b.at \in B
  BY <1>1 DEF IInv, HeldOnce
<1>3. PICK C, u, w : \E h \in Nat : fa = [bitmap |-> C, usable |-> u, used |-> w, hint |-> h]
  BY Zenon DEF IInv, AllocatorOK
<1>4. PICK h \in Nat : fa = [bitmap |-> C, usable |-> u, used |-> w, hint |-> h]
  BY <1>3
<1>5. free(fa, b.at) = [fa EXCEPT !.bitmap = @ \ {b.at}, !.used = @ - 1,
                                  !.hint = IF b.at < @ THEN b.at ELSE @]
  BY <1>2 DEF free
<1>6. free(fa, b.at) = [bitmap |-> C \ {b.at}, usable |-> u, used |-> w - 1,
                        hint |-> IF b.at < h THEN b.at ELSE h]
  BY Zenon, <1>4, <1>5
<1>7. (IF b.at < h THEN b.at ELSE h) \in Nat
  BY <1>1
<1>8. AllocatorOK(free(fa, b.at))
  BY Zenon, <1>6, <1>7 DEF AllocatorOK
<1>9. free(fa, b.at).bitmap = B \ Of(b)
  BY <1>1, <1>4, <1>6
<1>10. /\ \A c \in H : Of(c) \cap Of(b) = {}
       /\ Of(b) \cap lost = {} /\ Of(b) \cap Base(mm) = {}
  BY DEF IInv, HeldOnce, Base
<1>11. HeldBy(H) = HeldBy(held) \ Of(b)
  <2>1. HeldBy(held) = HeldBy(H) \cup Of(b)
    BY DEF HeldBy
  <2>2. HeldBy(H) \cap Of(b) = {}
    BY <1>10 DEF HeldBy
  <2> QED
    BY <2>1, <2>2
<1>12. B = Base(mm) \cup HeldBy(held) \cup lost
  BY DEF IInv
<1>13. B \ Of(b) = Base(mm) \cup HeldBy(H) \cup lost
  BY Zenon, <1>10, <1>11, <1>12
<1>14. /\ \A c \in H : c.at \in Nat /\ c.n \in Nat /\ (c.by = "page" => c.n = 1)
       /\ \A c \in H : Of(c) \subseteq (Usable(mm) \ Kernel) \cap (B \ Of(b))
       /\ \A c, d \in H : c # d => Of(c) \cap Of(d) = {}
       /\ \A c \in H : Of(c) \cap lost = {}
       /\ lost \subseteq B \ Of(b)
       /\ lost # {} => 0 \in lost
       /\ B \ Of(b) \subseteq Frames
  BY Zenon, <1>10 DEF IInv, BlocksOK, HeldOnce
<1> HIDE DEF B, H
<1>15. TakenOK(mm, B \ Of(b), H, lost)
  BY <1>13, <1>14, Zenon DEF TakenOK
<1> QED
  BY <1>8, <1>9, <1>15 DEF H

\* The first states satisfy the invariant.
LEMMA Starts ==
    Init => IInv
<1> SUFFICES ASSUME Init PROVE IInv
  OBVIOUS
<1>1. AllocatorOK(fa) /\ fa.bitmap = {}
  BY Zenon DEF Init, AllocatorOK
<1>2. held = {} /\ lost = {} /\ ~ Booted
  BY DEF Init, Booted
<1>3. Len(RING_PAGES) \in Nat
  BY MemorySizes
<1>4. LeftOK
  BY <1>3, MemorySizes DEF Init, LeftOK
<1> QED
  BY Zenon, <1>1, <1>2, <1>4 DEF IInv, BlocksOK, HeldOnce

\* Every step of rust_main and every call afterwards keeps the invariant.
LEMMA Steps ==
    IInv /\ [Next]_vars => IInv'
<1> SUFFICES ASSUME IInv, [Next]_vars PROVE IInv'
  OBVIOUS
<1>0. AllocatorOK(fa) /\ LeftOK
  BY DEF IInv
<1>1. ASSUME NEW b \in BootInfos, mem_init(b) PROVE IInv'
  <2>1. PICK map : map = parse_into(b)
    OBVIOUS
  <2>2. PICK a : a = init_frames(map)
    OBVIOUS
  <2>3. a.bitmap = Base(map) /\ AllocatorOK(a)
    BY Zenon, <2>2 DEF init_frames, Base, AllocatorOK
  <2>4. PICK got : got = alloc_contig(a, HEAP_PAGES)
    OBVIOUS
  <2>5. GrantOK(a, got) /\ AllocatorOK(got.fa)
    BY Zenon, <2>3, <2>4, ContigReturns, MemorySizes
  <2>6. /\ fa' = got.fa /\ held' = Given(got, "heap", 1) /\ lost' = Missed(got)
        /\ mm' = map /\ Booted' /\ left' = left
    BY <1>1, <2>1, <2>2, <2>4 DEF mem_init, Booted
  <2>7. TakenOK(map, got.fa.bitmap, Given(got, "heap", 1), Missed(got))
    BY Zenon, <2>3, <2>5, FirstTaken
  <2>8. TakenOK(mm', fa'.bitmap, held', lost')
    BY <2>6, <2>7
  <2>9. AllocatorOK(fa)' /\ LeftOK'
    BY Zenon, <1>0, <2>5, <2>6 DEF AllocatorOK, LeftOK
  <2> QED
    BY Zenon, <2>6, <2>8, <2>9 DEF IInv, BlocksOK, HeldOnce, TakenOK
<1>2. ASSUME NEW n \in Nat, NEW by, by # "page", Booted, Take(alloc_contig(fa, n), by),
             mm' = mm, Booted', LeftOK'
      PROVE  IInv'
  <2>1. PICK got : got = alloc_contig(fa, n)
    OBVIOUS
  <2>2. GrantOK(fa, got) /\ AllocatorOK(got.fa)
    BY <1>0, <2>1, ContigReturns
  <2>3. Take(got, by)
    BY <1>2, <2>1
  <2> QED
    BY <1>2, <2>2, <2>3, Taking
<1>3. ASSUME UNCHANGED <<mm, fa, held, lost>>, Booted, Booted', LeftOK' PROVE IInv'
  <2>1. AllocatorOK(fa)'
    BY Zenon, <1>0, <1>3 DEF AllocatorOK
  <2> QED
    BY Zenon, <1>3, <2>1 DEF IInv, BlocksOK, HeldOnce
<1>4. ASSUME NEW p \in ScreenPages, init_backbuffer(p) PROVE IInv'
  <2>1. Booted /\ Booted' /\ mm' = mm /\ left' = left /\ Take(alloc_contig(fa, p), "screen")
    BY <1>4 DEF init_backbuffer, Booted
  <2>2. LeftOK'
    BY <1>0, <2>1 DEF LeftOK
  <2> QED
    BY <1>2, <2>1, <2>2, MemorySizes
<1>5. CASE create_idle
  BY <1>0, <1>3, <1>5 DEF create_idle, Booted, LeftOK
<1>6. CASE Spawn
  <2>1. Booted /\ Booted' /\ mm' = mm /\ spawn
    BY <1>6 DEF Spawn, Booted
  <2>2. LeftOK'
    BY <1>0, <1>6 DEF Spawn, LeftOK
  <2>3. UNCHANGED <<fa, held, lost>> \/ Take(alloc_contig(fa, STACK_PAGES), "stack")
    BY <2>1, Zenon DEF spawn
  <2> QED
    BY <1>2, <1>3, <2>1, <2>2, <2>3, MemorySizes
<1>7. CASE enable
  BY <1>0, <1>3, <1>7 DEF enable, Booted, LeftOK
<1>8. CASE Tick
  <2>1. LeftOK'
    BY <1>0, <1>8 DEF Tick, LeftOK
  <2> QED
    BY <1>3, <1>8, <2>1 DEF Tick, Booted
<1>9. CASE rings_init
  <2>1. Booted /\ Booted' /\ mm' = mm
    BY <1>9 DEF rings_init, Booted
  <2>5. Len(RING_PAGES) \in Nat
    BY MemorySizes
  <2>6. left.rings \in 0 .. Len(RING_PAGES) /\ left.rings > 0
    BY <1>0, <1>9 DEF rings_init, LeftOK
  <2>2. left.rings \in 1 .. Len(RING_PAGES) /\ Len(RING_PAGES) \in Nat
    BY <2>5, <2>6
  <2>3. RING_PAGES[Len(RING_PAGES) + 1 - left.rings] \in Nat
    BY <2>2, MemorySizes
  <2>4. LeftOK'
    BY <1>0, <1>9, <2>2 DEF rings_init, LeftOK
  <2> QED
    BY <1>2, <1>9, <2>1, <2>3, <2>4 DEF rings_init
<1>10. ASSUME NEW s, s # "memory", NEW t, t # "memory", NEW n, NextStage(s, t, n) PROVE IInv'
  BY <1>0, <1>3, <1>10 DEF NextStage, Booted, LeftOK
<1>11. ASSUME Called PROVE Booted /\ Booted' /\ mm' = mm /\ LeftOK'
  <2>1. LeftOK'
    BY <1>0, <1>11 DEF Called, LeftOK
  <2> QED
    BY <1>11, <2>1 DEF Called, Booted
<1>12. ASSUME NEW p \in ImagePages, run_image(p) PROVE IInv'
  BY <1>2, <1>11, <1>12, MemorySizes DEF run_image
<1>13. CASE TakeFrame
  <2>1. PICK got : got = alloc(fa)
    OBVIOUS
  <2>2. GrantOK(fa, got) /\ AllocatorOK(got.fa) /\ (got.at = 0 \/ got.n = 1)
    BY <1>0, <2>1, AllocReturns
  <2>3. Called /\ Take(got, "page")
    BY <1>13, <2>1 DEF TakeFrame
  <2> QED
    BY <1>11, <2>2, <2>3, Taking
<1>14. ASSUME NEW b \in held, FreeFrame(b) PROVE IInv'
  <2>1. /\ Called /\ b.by = "page" /\ fa' = free(fa, b.at)
        /\ held' = held \ {b} /\ lost' = lost
    BY <1>14 DEF FreeFrame
  <2>2. /\ AllocatorOK(free(fa, b.at))
        /\ TakenOK(mm, free(fa, b.at).bitmap, held \ {b}, lost)
    BY <1>11, <2>1, FreeKeeps
  <2>3. TakenOK(mm', fa'.bitmap, held', lost')
    BY <1>11, <2>1, <2>2
  <2>4. AllocatorOK(fa)'
    BY Zenon, <2>1, <2>2 DEF AllocatorOK
  <2> QED
    BY Zenon, <1>11, <2>1, <2>3, <2>4 DEF IInv, BlocksOK, HeldOnce, TakenOK
<1>15. ASSUME NEW nr \in 0 .. 5, Syscall(nr) PROVE IInv'
  BY <1>3, <1>11, <1>15 DEF Syscall
<1>16. CASE UNCHANGED vars
  <2>1. AllocatorOK(fa)' /\ LeftOK' /\ (Booted' <=> Booted)
    BY Zenon, <1>0, <1>16 DEF AllocatorOK, LeftOK, Booted, vars
  <2> QED
    BY Zenon, <1>16, <2>1 DEF IInv, BlocksOK, HeldOnce, vars
<1> QED
  BY Zenon, <1>1, <1>4, <1>5, <1>6, <1>7, <1>8, <1>9, <1>10, <1>12, <1>13, <1>14, <1>15, <1>16 DEF Next

\* For every bitmap, memory map, block size and order of calls, no frame is
\* handed to two callers, and none is handed out that the firmware or the
\* kernel's image and stack occupy (frame_alloc.rs).
THEOREM FramesHeldOnce ==
    Spec => []HeldOnce
<1>1. IInv => HeldOnce
  BY DEF IInv
<1> QED
  BY Starts, Steps, <1>1, PTL DEF Spec

\* No sequence of calls leaves a frame marked used that is neither the
\* firmware's, nor the kernel's, nor held by the caller it was given to, except
\* those of a block at frame 0, whose address reads as a failure.
THEOREM NoFrameLeaks ==
    Spec => []NothingLeaks
<1>1. IInv => NothingLeaks
  <2> SUFFICES ASSUME IInv, Booted PROVE NothingLeaks
    BY DEF NothingLeaks
  <2>1. fa.bitmap = Base(mm) \cup HeldBy(held) \cup lost
    BY DEF IInv
  <2>2. fa.bitmap = (Frames \ Usable(mm)) \cup (Kernel \cap Frames)
                    \cup HeldBy(held) \cup lost
    BY <2>1 DEF Base
  <2>3. lost # {} => 0 \in lost
    BY DEF IInv
  <2> QED
    BY <2>2, <2>3, Zenon DEF NothingLeaks
<1> QED
  BY Starts, Steps, <1>1, PTL DEF Spec

\* Every frame has at most one owner, and one that is nobody's can be given
\* again: the two results above, as the property that is model-checked.
THEOREM FramesAreKept ==
    Spec => []FramesKept
<1>1. HeldOnce /\ NothingLeaks => FramesKept
  BY DEF FramesKept
<1> QED
  BY <1>1, FramesHeldOnce, NoFrameLeaks, PTL

(***************************************************************************)
(* The scan of alloc_contig                                                *)
(***************************************************************************)
\* l free frames end at frame i, and no more.
IsRun(B, i, l) ==
    /\ l \in 0 .. i + 1
    /\ \A f \in i - l + 1 .. i : f \notin B
    /\ l = i + 1 \/ i - l \in B

RunStep(B, run) ==
    run = [i \in -1 .. MAX_FRAMES - 1 |->
              IF i = -1 \/ i \in B THEN 0 ELSE run[i - 1] + 1]

\* The loop of alloc_contig as a choice of its run lengths.
LEMMA ScanDef ==
    ASSUME NEW a, NEW n
    PROVE  LET run == CHOOSE run : RunStep(a.bitmap, run)
               ends == {i \in Frames : run[i] = n}
           IN scan(a, n) = IF ends = {} THEN -1 ELSE Min(ends) - n + 1
BY DEF scan, RunStep

\* A frame ends one run of free frames.
LEMMA RunUnique ==
    ASSUME NEW B, NEW i \in Int, NEW l, NEW m, IsRun(B, i, l), IsRun(B, i, m)
    PROVE  l = m
<1>1. l \in Int /\ m \in Int /\ l <= i + 1 /\ m <= i + 1
  BY DEF IsRun
<1>2. ASSUME NEW x \in Int, NEW y \in Int, x < y, IsRun(B, i, x), IsRun(B, i, y) PROVE FALSE
  <2>1. i - x \in i - y + 1 .. i /\ x # i + 1
    BY <1>2 DEF IsRun
  <2> QED
    BY <1>2, <2>1 DEF IsRun
<1> QED
  BY <1>1, <1>2

\* A free frame makes the run that ends before it one longer.
LEMMA RunGrows ==
    ASSUME NEW B, NEW i \in Nat, NEW l, IsRun(B, i - 1, l)
    PROVE  IsRun(B, i, IF i \in B THEN 0 ELSE l + 1)
<1>1. l \in Int /\ l >= 0 /\ l <= i
  BY DEF IsRun
<1>2. CASE i \in B
  <2>1. IsRun(B, i, 0)
    BY <1>2 DEF IsRun
  <2> QED
    BY <1>2, <2>1
<1>3. CASE i \notin B
  <2>1. l + 1 \in 0 .. i + 1
    BY <1>1
  <2>2. ASSUME NEW f \in i - (l + 1) + 1 .. i PROVE f \notin B
    <3>1. f = i \/ f \in i - 1 - l + 1 .. i - 1
      BY <1>1, <2>2
    <3> QED
      BY <1>3, <3>1 DEF IsRun
  <2>3. l + 1 = i + 1 \/ i - (l + 1) \in B
    <3>1. l = i - 1 + 1 \/ i - 1 - l \in B
      BY DEF IsRun
    <3>2. i - 1 - l = i - (l + 1)
      BY <1>1
    <3> QED
      BY <1>1, <3>1, <3>2
  <2>4. IsRun(B, i, l + 1)
    BY <2>1, <2>2, <2>3 DEF IsRun
  <2> QED
    BY <1>3, <2>4
<1> QED
  BY <1>2, <1>3

\* Every frame ends a run, perhaps an empty one.
LEMMA RunExists ==
    ASSUME NEW B
    PROVE  \A i \in Nat : \E l : IsRun(B, i - 1, l)
<1> DEFINE S == {i \in Nat : ~ \E l : IsRun(B, i - 1, l)}
<1> SUFFICES ASSUME S # {} PROVE FALSE
  BY Zenon
<1>1. Min(S) \in S /\ \A y \in S : Min(S) <= y
  BY Zenon, LeastFound
<1>2. PICK m \in S : \A y \in S : m <= y
  BY Zenon, <1>1
<1>3. CASE m = 0
  <2>1. IsRun(B, -1, 0)
    BY DEF IsRun
  <2>2. m - 1 = -1
    BY <1>3
  <2> QED
    BY <2>1, <2>2
<1>4. CASE m # 0
  <2>1. m - 1 \in Nat /\ ~ (m <= m - 1)
    BY <1>4
  <2>2. m - 1 \notin S
    BY <1>2, <2>1
  <2>3. PICK l : IsRun(B, m - 1 - 1, l)
    BY <2>1, <2>2
  <2>4. \E k : IsRun(B, m - 1, k)
    BY <2>1, <2>3, RunGrows
  <2> QED
    BY <2>4
<1> QED
  BY <1>3, <1>4

\* The counter of the loop is the length of the run that ends at its frame.
LEMMA RunsCounted ==
    ASSUME NEW B, NEW run, run = CHOOSE f : RunStep(B, f)
    PROVE  \A i \in Frames : IsRun(B, i, run[i])
<1>0. MAX_FRAMES \in Nat /\ Frames = 0 .. MAX_FRAMES - 1
  BY MemorySizes DEF Frames
<1> DEFINE D == -1 .. MAX_FRAMES - 1
           g == [i \in D |-> CHOOSE l : IsRun(B, i, l)]
<1>1. ASSUME NEW i \in D PROVE IsRun(B, i, g[i])
  <2>1. i + 1 \in Nat /\ i + 1 - 1 = i
    BY <1>0
  <2>2. \E l : IsRun(B, i, l)
    BY <2>1, RunExists
  <2> QED
    BY <2>2
<1>2. RunStep(B, g)
  <2>1. ASSUME NEW i \in D PROVE g[i] = IF i = -1 \/ i \in B THEN 0 ELSE g[i - 1] + 1
    <3>1. CASE i = -1
      <4>1. IsRun(B, i, 0)
        BY <3>1 DEF IsRun
      <4> HIDE DEF g
      <4>2. g[i] = 0
        BY <1>1, <4>1, RunUnique
      <4> QED
        BY <3>1, <4>2
    <3>2. CASE i # -1
      <4>1. i \in Nat /\ i - 1 \in D
        BY <1>0, <3>2
      <4> HIDE DEF g
      <4>2. IsRun(B, i - 1, g[i - 1])
        BY <1>1, <4>1
      <4>3. IsRun(B, i, IF i \in B THEN 0 ELSE g[i - 1] + 1)
        BY <4>1, <4>2, RunGrows
      <4>4. IsRun(B, i, g[i])
        BY <1>1
      <4>5. g[i] = IF i \in B THEN 0 ELSE g[i - 1] + 1
        BY <4>1, <4>3, <4>4, RunUnique
      <4> QED
        BY <3>2, <4>5
    <3> QED
      BY <3>1, <3>2
  <2>2. g = [i \in D |-> g[i]]
    OBVIOUS
  <2> HIDE DEF g
  <2> QED
    BY Zenon, <2>1, <2>2 DEF RunStep
<1> HIDE DEF g
<1>3. RunStep(B, run)
  BY <1>2
<1>4. \A i \in D : run[i] = IF i = -1 \/ i \in B THEN 0 ELSE run[i - 1] + 1
  BY Zenon, <1>3 DEF RunStep
<1> DEFINE S == {i \in Nat : i - 1 \in D /\ ~ IsRun(B, i - 1, run[i - 1])}
<1>5. S = {}
  <2> SUFFICES ASSUME S # {} PROVE FALSE
    BY Zenon
  <2>1. Min(S) \in S /\ \A y \in S : Min(S) <= y
    BY Zenon, LeastFound
  <2>2. PICK m \in S : \A y \in S : m <= y
    BY Zenon, <2>1
  <2>3. CASE m = 0
    <3>1. m - 1 = -1 /\ -1 \in D
      BY <1>0, <2>3
    <3>2. run[-1] = 0
      BY <1>4, <3>1
    <3>3. IsRun(B, -1, 0)
      BY DEF IsRun
    <3> QED
      BY <3>1, <3>2, <3>3
  <2>4. CASE m # 0
    <3>1. PICK i \in Nat : i = m - 1
      BY <2>4
    <3>2. i - 1 \in D /\ i \in D /\ ~ (m <= i) /\ i # -1
      BY <1>0, <2>2, <3>1
    <3>3. i \notin S
      BY <2>2, <3>2
    <3>4. IsRun(B, i - 1, run[i - 1])
      BY <3>2, <3>3
    <3>5. IsRun(B, i, IF i \in B THEN 0 ELSE run[i - 1] + 1)
      BY <3>4, RunGrows
    <3>6. run[i] = IF i \in B THEN 0 ELSE run[i - 1] + 1
      BY <1>4, <3>2
    <3> QED
      BY <2>2, <3>1, <3>5, <3>6
  <2> QED
    BY <2>3, <2>4
<1>6. ASSUME NEW i \in Frames PROVE IsRun(B, i, run[i])
  <2>0. PICK j : j = i + 1
    OBVIOUS
  <2>1. j \in Nat /\ j - 1 = i /\ i \in D
    BY <1>0, <2>0
  <2> HIDE DEF D
  <2>2. j \notin S
    BY <1>5, Zenon
  <2>3. IsRun(B, j - 1, run[j - 1])
    BY <2>1, <2>2
  <2> QED
    BY <2>1, <2>3
<1> QED
  BY <1>6

\* The loop of alloc_contig stops at the end of the first run of n free frames.
LEMMA ScanFindsFirst ==
    ASSUME NEW a, NEW n \in 1 .. MAX_FRAMES
    PROVE  scan(a, n) = IF Runs(a, n) = {} THEN -1 ELSE Min(Runs(a, n))
<1> DEFINE B == a.bitmap
           R == Runs(a, n)
<1>0. MAX_FRAMES \in Nat /\ Frames = 0 .. MAX_FRAMES - 1 /\ n \in Nat /\ n > 0
  BY MemorySizes DEF Frames
<1>1. PICK run : run = CHOOSE f : RunStep(B, f)
  OBVIOUS
<1> DEFINE ends == {i \in Frames : run[i] = n}
<1>2. scan(a, n) = IF ends = {} THEN -1 ELSE Min(ends) - n + 1
  BY <1>1, ScanDef
<1>3. \A i \in Frames : IsRun(B, i, run[i])
  BY <1>1, RunsCounted
<1>4. \A s \in R : s \in Frames /\ s + n <= MAX_FRAMES /\ \A f \in s .. s + n - 1 : f \notin B
  BY DEF Runs, FreeFrames
<1>5. \A s \in Frames : s + n <= MAX_FRAMES /\ (\A f \in s .. s + n - 1 : f \notin B) => s \in R
  BY <1>0 DEF Runs, FreeFrames
<1> HIDE DEF R, B
\* A run of at least n that ends at s + n - 1 has a place where it is n long.
<1>6. ASSUME NEW s \in R PROVE \E i \in ends : i <= s + n - 1
  <2>1. PICK e : e = s + n - 1
    OBVIOUS
  <2>2. PICK l : l = run[e]
    OBVIOUS
  <2>3. e \in Frames /\ s \in Frames
    BY <1>0, <1>4, <2>1
  <2>4. IsRun(B, e, l)
    BY <1>3, <2>2, <2>3
  <2>5. l \in Int /\ l >= 0 /\ l <= e + 1
    BY <2>4 DEF IsRun
  <2>6. l >= n
    <3> SUFFICES ASSUME l < n PROVE FALSE
      BY <1>0, <2>5
    <3>1. e - l \in s .. s + n - 1 /\ l # e + 1
      BY <1>0, <2>1, <2>3, <2>5
    <3>2. e - l \notin B
      BY <1>4, <3>1
    <3> QED
      BY <2>4, <3>1, <3>2 DEF IsRun
  <2>7. PICK i : i = e - l + n
    OBVIOUS
  <2>8. i \in Frames /\ i <= e
    BY <1>0, <2>3, <2>5, <2>6, <2>7
  <2>9. IsRun(B, i, n)
    <3>1. n \in 0 .. i + 1
      BY <1>0, <2>3, <2>5, <2>6, <2>7
    <3>2. ASSUME NEW f \in i - n + 1 .. i PROVE f \notin B
      <4>1. f \in e - l + 1 .. e
        BY <1>0, <2>3, <2>5, <2>6, <2>7
      <4> QED
        BY <2>4, <4>1 DEF IsRun
    <3>3. n = i + 1 \/ i - n \in B
      <4>1. i - n = e - l
        BY <1>0, <2>3, <2>5, <2>7
      <4>2. l = e + 1 \/ e - l \in B
        BY <2>4 DEF IsRun
      <4>3. l = e + 1 => n = i + 1
        BY <1>0, <2>3, <2>5, <2>7
      <4> QED
        BY <4>1, <4>2, <4>3
    <3> QED
      BY <3>1, <3>2, <3>3 DEF IsRun
  <2>10. run[i] = n
    BY <1>0, <1>3, <2>8, <2>9, RunUnique
  <2> QED
    BY <2>1, <2>8, <2>10
\* Where the run is n long, it starts n - 1 frames before.
<1>7. ASSUME NEW e \in ends PROVE e - n + 1 \in R
  <2>1. IsRun(B, e, n)
    BY <1>3
  <2>2. e - n + 1 \in Frames /\ e - n + 1 + n <= MAX_FRAMES
    BY <1>0, <2>1 DEF IsRun
  <2>3. \A f \in e - n + 1 .. e - n + 1 + n - 1 : f \notin B
    BY <1>0, <2>1 DEF IsRun
  <2> QED
    BY <1>5, <2>2, <2>3
<1>8. R \in SUBSET Nat /\ ends \in SUBSET Nat
  BY <1>0, <1>4
<1> HIDE DEF ends
<1>9. CASE R = {}
  <2>1. ends = {}
    BY <1>7, <1>9
  <2> QED
    BY <1>2, <1>9, <2>1 DEF R
<1>10. CASE R # {}
  <2>1. ends # {}
    BY <1>6, <1>10
  <2>2. PICK s : s = Min(R)
    OBVIOUS
  <2>3. PICK e : e = Min(ends)
    OBVIOUS
  <2>4. s \in R /\ \A y \in R : s <= y
    BY <1>8, <1>10, <2>2, LeastFound
  <2>5. e \in ends /\ \A y \in ends : e <= y
    BY <1>8, <2>1, <2>3, LeastFound
  <2>6. s <= e - n + 1
    BY <1>7, <2>4, <2>5
  <2>7. e <= s + n - 1
    <3>1. PICK i \in ends : i <= s + n - 1
      BY <1>6, <2>4
    <3>2. e <= i /\ i \in Nat /\ e \in Nat /\ s \in Nat
      BY <1>8, <2>4, <2>5
    <3> QED
      BY <1>0, <3>1, <3>2
  <2>8. s = e - n + 1
    <3>1. e \in Nat /\ s \in Nat
      BY <1>8, <2>4, <2>5
    <3> QED
      BY <1>0, <2>6, <2>7, <3>1
  <2> QED
    BY <1>2, <1>10, <2>1, <2>2, <2>3, <2>8 DEF R
<1> QED
  BY <1>9, <1>10

(***************************************************************************)
(* What frames_used counts                                                 *)
(***************************************************************************)
\* The usable frames of the first n regions.
Covered(map, n) == UNION {Span(map[i]) : i \in {j \in 1 .. n : is_usable(map[j].kind)}}

CountStep(map, f) ==
    f = [i \in 0 .. Len(map) |->
            IF i = 0 THEN 0
            ELSE f[i - 1] + (IF is_usable(map[i].kind) THEN Cardinality(Span(map[i])) ELSE 0)]

\* The loop of init as a choice of its partial sums.
LEMMA CountDef ==
    ASSUME NEW map
    PROVE  frames_usable(map) = (CHOOSE f : CountStep(map, f))[Len(map)]
BY DEF frames_usable, CountStep

\* What parse_into leaves is a table with usable regions that are apart.
LEMMA MapIs ==
    ASSUME NEW b \in BootInfos, NEW map, map = parse_into(b)
    PROVE  Len(map) \in Nat /\ DOMAIN map = 1 .. Len(map) /\ Apart(map)
<1>1. ASSUME NEW S, NEW q \in Seq(S), NEW r, r = pushed(q)
      PROVE  Len(r) \in Nat /\ DOMAIN r = 1 .. Len(r)
  <2>1. PICK n : n = Min({Len(q), MAX_REGIONS})
    OBVIOUS
  <2>2. {Len(q), MAX_REGIONS} \in SUBSET Nat /\ {Len(q), MAX_REGIONS} # {}
    BY MemorySizes
  <2>3. n \in Nat
    BY Zenon, <2>1, <2>2, LeastFound
  <2>4. PICK g : g = [i \in 1 .. n |->
        [start |-> q[i].start, pages |-> q[i].pages, kind |-> from_u32(q[i].type)]]
    BY Zenon
  <2>5. r = g
    BY Zenon, <1>1, <2>1, <2>4 DEF pushed
  <2>6. DOMAIN g = 1 .. n
    BY <2>4
  <2>7. g \in [1 .. n -> {g[i] : i \in 1 .. n}]
    BY Zenon, <2>4
  <2>8. Len(g) = n
    BY <2>3, <2>7
  <2> QED
    BY <2>3, <2>5, <2>6, <2>8
<1>2. b.memmap \in Seq([start : Nat, pages : Nat, type : Nat]) /\ Apart(map)
  BY MemoryMaps
<1>3. bios_fallback \in Seq({bios_fallback[1], bios_fallback[2]})
  BY DEF bios_fallback
<1>4. map = pushed(b.memmap) \/ map = pushed(bios_fallback)
  BY DEF parse_into
<1> QED
  BY <1>1, <1>2, <1>3, <1>4

\* A region spans finitely many frames of the bitmap.
LEMMA SpanFinite ==
    ASSUME NEW r
    PROVE  IsFiniteSet(Span(r)) /\ Cardinality(Span(r)) \in Nat
<1>1. IsFiniteSet(0 .. MAX_FRAMES - 1)
  BY FS_Interval, MemorySizes
<1>2. Span(r) \subseteq 0 .. MAX_FRAMES - 1
  BY DEF Span, Frames
<1> QED
  BY Zenon, <1>1, <1>2, FS_Subset, FS_CardinalityType

\* So do the first n.
LEMMA CoveredFinite ==
    ASSUME NEW map, NEW n
    PROVE  IsFiniteSet(Covered(map, n)) /\ Cardinality(Covered(map, n)) \in Nat
<1>1. IsFiniteSet(0 .. MAX_FRAMES - 1)
  BY FS_Interval, MemorySizes
<1>2. Covered(map, n) \subseteq 0 .. MAX_FRAMES - 1
  BY DEF Covered, Span, Frames
<1> QED
  BY Zenon, <1>1, <1>2, FS_Subset, FS_CardinalityType

\* A region that is usable adds its frames, all of them new.
LEMMA CoveredGrows ==
    ASSUME NEW map, Len(map) \in Nat, DOMAIN map = 1 .. Len(map), Apart(map),
           NEW i \in 1 .. Len(map)
    PROVE  Cardinality(Covered(map, i)) = Cardinality(Covered(map, i - 1)) +
             (IF is_usable(map[i].kind) THEN Cardinality(Span(map[i])) ELSE 0)
<1>0. Cardinality(Covered(map, i - 1)) \in Nat /\ IsFiniteSet(Covered(map, i - 1))
  BY CoveredFinite
<1>1. CASE ~ is_usable(map[i].kind)
  <2>1. {j \in 1 .. i : is_usable(map[j].kind)} = {j \in 1 .. i - 1 : is_usable(map[j].kind)}
    BY <1>1
  <2>2. Covered(map, i) = Covered(map, i - 1)
    BY <2>1 DEF Covered
  <2> QED
    BY <1>0, <1>1, <2>2
<1>2. CASE is_usable(map[i].kind)
  <2>1. {j \in 1 .. i : is_usable(map[j].kind)} =
          {j \in 1 .. i - 1 : is_usable(map[j].kind)} \cup {i}
    BY <1>2
  <2>2. Covered(map, i) = Covered(map, i - 1) \cup Span(map[i])
    BY <2>1 DEF Covered
  <2>3. ASSUME NEW j \in 1 .. i - 1, is_usable(map[j].kind)
        PROVE  Span(map[j]) \cap Span(map[i]) = {}
    <3>1. j \in UsableRegions(map) /\ i \in UsableRegions(map) /\ i # j
      BY <1>2, <2>3 DEF UsableRegions
    <3> QED
      BY Zenon, <3>1 DEF Apart
  <2>4. Covered(map, i - 1) \cap Span(map[i]) = {}
    BY <2>3 DEF Covered
  <2>5. IsFiniteSet(Span(map[i])) /\ Cardinality(Span(map[i])) \in Nat
    BY SpanFinite
  <2>6. PICK A, C : A = Covered(map, i - 1) /\ C = Span(map[i])
    OBVIOUS
  <2>7. IsFiniteSet(A) /\ IsFiniteSet(C) /\ A \cap C = {}
    BY <1>0, <2>4, <2>5, <2>6
  <2>8. Cardinality(A \cup C) = Cardinality(A) + Cardinality(C) - Cardinality(A \cap C)
    BY <2>7, FS_Union
  <2>9. Cardinality(A \cap C) = 0
    BY Zenon, <2>7, FS_EmptySet
  <2>10. Cardinality(Covered(map, i)) = Cardinality(A \cup C)
    BY <2>2, <2>6
  <2> QED
    BY <1>0, <1>2, <2>5, <2>6, <2>8, <2>9, <2>10
<1> QED
  BY <1>1, <1>2

\* The loop of init counts the usable frames: no two usable regions share one.
LEMMA UsableCounted ==
    ASSUME NEW map, Len(map) \in Nat, DOMAIN map = 1 .. Len(map), Apart(map)
    PROVE  frames_usable(map) = Cardinality(Usable(map))
<1> DEFINE n == Len(map)
           g == [i \in 0 .. n |-> Cardinality(Covered(map, i))]
           W(i) == IF is_usable(map[i].kind) THEN Cardinality(Span(map[i])) ELSE 0
<1>1. Cardinality(Covered(map, 0)) = 0
  <2>1. {j \in 1 .. 0 : is_usable(map[j].kind)} = {}
    OBVIOUS
  <2>2. Covered(map, 0) = {}
    BY <2>1 DEF Covered
  <2> QED
    BY <2>2, FS_EmptySet
<1>2. \A i \in 1 .. n : Cardinality(Covered(map, i)) = Cardinality(Covered(map, i - 1)) + W(i)
  BY CoveredGrows
<1> HIDE DEF W
<1>3. \A i \in 0 .. n : g[i] = Cardinality(Covered(map, i))
  OBVIOUS
<1>4. g = [i \in 0 .. n |-> g[i]]
  OBVIOUS
<1> HIDE DEF g
<1>5. \A i \in 0 .. n : g[i] = IF i = 0 THEN 0 ELSE g[i - 1] + W(i)
  <2> SUFFICES ASSUME NEW i \in 0 .. n PROVE g[i] = IF i = 0 THEN 0 ELSE g[i - 1] + W(i)
    OBVIOUS
  <2>1. CASE i = 0
    BY <1>1, <1>3, <2>1
  <2>2. CASE i # 0
    <3>1. i \in 1 .. n /\ i - 1 \in 0 .. n
      BY <2>2
    <3> QED
      BY <1>2, <1>3, <2>2, <3>1
  <2> QED
    BY <2>1, <2>2
<1>6. CountStep(map, g)
  <2>1. g = [i \in 0 .. n |-> IF i = 0 THEN 0 ELSE g[i - 1] + W(i)]
    BY Zenon, <1>4, <1>5
  <2> QED
    BY Zenon, <2>1 DEF CountStep, W
<1>7. PICK f : f = CHOOSE h : CountStep(map, h)
  OBVIOUS
<1>8. CountStep(map, f)
  BY <1>6, <1>7
<1>9. \A i \in 0 .. n : f[i] = IF i = 0 THEN 0 ELSE f[i - 1] + W(i)
  BY Zenon, <1>8 DEF CountStep, W
<1> DEFINE S == {i \in Nat : i \in 0 .. n /\ f[i] # g[i]}
<1>10. S = {}
  <2> SUFFICES ASSUME S # {} PROVE FALSE
    OBVIOUS
  <2>1. Min(S) \in S /\ \A y \in S : Min(S) <= y
    BY Zenon, LeastFound
  <2>2. PICK m \in S : \A y \in S : m <= y
    BY Zenon, <2>1
  <2>3. CASE m = 0
    BY <1>5, <1>9, <2>2, <2>3
  <2>4. CASE m # 0
    <3>1. m - 1 \in Nat /\ m - 1 \in 0 .. n /\ ~ (m <= m - 1)
      BY <2>2, <2>4
    <3>2. f[m - 1] = g[m - 1]
      BY <2>2, <3>1
    <3> QED
      BY <1>5, <1>9, <2>2, <2>4, <3>2
  <2> QED
    BY <2>3, <2>4
<1>11. f[n] = g[n]
  BY <1>10
<1>12. {j \in 1 .. n : is_usable(map[j].kind)} = UsableRegions(map)
  BY DEF UsableRegions
<1>13. Covered(map, n) = Usable(map)
  BY <1>12 DEF Covered, Usable
<1> QED
  BY <1>3, <1>7, <1>11, <1>13, CountDef

\* A set of frames is finite.
LEMMA FramesFinite ==
    ASSUME NEW B, B \subseteq Frames
    PROVE  IsFiniteSet(B) /\ Cardinality(B) \in Nat
<1>1. IsFiniteSet(0 .. MAX_FRAMES - 1)
  BY FS_Interval, MemorySizes
<1>2. B \subseteq 0 .. MAX_FRAMES - 1
  BY DEF Frames
<1> QED
  BY Zenon, <1>1, <1>2, FS_Subset, FS_CardinalityType

\* Frames of two sets that are apart are counted together.
LEMMA Together ==
    ASSUME NEW A, NEW B, A \subseteq Frames, B \subseteq Frames, A \cap B = {}
    PROVE  Cardinality(A \cup B) = Cardinality(A) + Cardinality(B)
<1>1. IsFiniteSet(A) /\ IsFiniteSet(B)
  BY FramesFinite
<1>2. Cardinality(A) \in Nat /\ Cardinality(B) \in Nat
  BY FramesFinite
<1>3. Cardinality(A \cup B) = Cardinality(A) + Cardinality(B) - Cardinality(A \cap B)
  BY <1>1, FS_Union
<1>4. Cardinality(A \cap B) = 0
  BY FS_EmptySet
<1> QED
  BY <1>2, <1>3, <1>4

\* The allocator counts its used frames but for c of them.
Counts(a, c) ==
    /\ AllocatorOK(a)
    /\ a.bitmap \subseteq Frames /\ a.used \in Int /\ a.hint \in Frames
    /\ a.used + c = Cardinality(a.bitmap)

\* init counts every used frame but the kernel's own.
LEMMA InitCounts ==
    ASSUME NEW b \in BootInfos, NEW map, map = parse_into(b)
    PROVE  Counts(init_frames(map), Cardinality(Kernel \cap Usable(map)))
<1> DEFINE U == Usable(map)
           K == Kernel \cap U
           F == Frames \ U
<1>1. frames_usable(map) = Cardinality(U)
  BY MapIs, UsableCounted
<1>2. U \subseteq Frames
  BY DEF Usable, Span
<1>3. F \subseteq Frames /\ F \cap U = {} /\ F \cup U = Frames
  BY <1>2
<1>4. K \subseteq Frames /\ F \cap K = {} /\ Base(map) = F \cup K
  BY <1>2 DEF Base
<1>5. PICK cu, cf, ck, u : /\ cu = Cardinality(U) /\ cf = Cardinality(F)
                           /\ ck = Cardinality(K) /\ u = frames_usable(map)
  OBVIOUS
<1>6. cu \in Nat
  BY <1>2, <1>5, FramesFinite
<1>7. cf \in Nat
  BY <1>3, <1>5, FramesFinite
<1>8. ck \in Nat
  BY Zenon, <1>4, <1>5, FramesFinite
<1>9. MAX_FRAMES = cf + cu
  <2>1. Cardinality(F \cup U) = Cardinality(F) + Cardinality(U)
    BY Zenon, <1>2, <1>3, Together
  <2>2. Cardinality(0 .. MAX_FRAMES - 1) = MAX_FRAMES
    BY FS_Interval, MemorySizes
  <2> QED
    BY Zenon, <1>3, <1>5, <2>1, <2>2 DEF Frames
<1>10. Cardinality(Base(map)) = cf + ck
  BY Zenon, <1>3, <1>4, <1>5, Together
<1>11. init_frames(map) = [bitmap |-> Base(map), usable |-> u, used |-> MAX_FRAMES - u, hint |-> 0]
  BY Zenon, <1>5 DEF init_frames, Base
<1>12. u = cu
  BY <1>1, <1>5
<1>13. 0 \in Frames /\ MAX_FRAMES \in Nat
  BY MemorySizes DEF Frames
<1>14. Base(map) \subseteq Frames
  BY <1>3, <1>4
<1>15. AllocatorOK(init_frames(map))
  BY Zenon, <1>11 DEF AllocatorOK
<1> QED
  BY <1>5, <1>6, <1>7, <1>8, <1>9, <1>10, <1>11, <1>12, <1>13, <1>14, <1>15 DEF Counts

\* alloc_contig counts the run it takes.
LEMMA ContigCounts ==
    ASSUME NEW a, NEW c \in Nat, Counts(a, c), NEW n \in Nat
    PROVE  Counts(alloc_contig(a, n).fa, c)
<1>1. AllocatorOK(alloc_contig(a, n).fa)
  BY Zenon, ContigReturns DEF Counts
<1>2. CASE n = 0 \/ Runs(a, n) = {}
  BY <1>2 DEF alloc_contig
<1>3. CASE ~ (n = 0 \/ Runs(a, n) = {})
  <2>1. PICK s : s = Min(Runs(a, n))
    OBVIOUS
  <2>2. Runs(a, n) \in SUBSET Nat
    BY MemorySizes DEF Runs, Frames
  <2>3. s \in Runs(a, n)
    BY <1>3, <2>1, <2>2, LeastFound
  <2>4. s \in Nat /\ s + n <= MAX_FRAMES /\ s .. s + n - 1 \subseteq FreeFrames(a)
    BY <2>2, <2>3 DEF Runs
  <2>5. PICK N : N = s .. s + n - 1
    OBVIOUS
  <2>6. N \subseteq Frames /\ a.bitmap \cap N = {}
    BY <2>4, <2>5 DEF FreeFrames
  <2>7. Cardinality(N) = n
    BY <1>3, <2>4, <2>5, FS_Interval
  <2>8. PICK h : h = (s + n) % MAX_FRAMES
    OBVIOUS
  <2>9. h \in Frames
    BY <2>4, <2>8, MemorySizes DEF Frames
  <2>10. alloc_contig(a, n).fa = [a EXCEPT !.bitmap = @ \cup N, !.used = @ + n, !.hint = h]
    BY <1>3, <2>1, <2>5, <2>8 DEF alloc_contig
  <2>11. PICK B, u, w : \E g \in Nat : a = [bitmap |-> B, usable |-> u, used |-> w, hint |-> g]
    BY Zenon DEF Counts, AllocatorOK
  <2>12. PICK g \in Nat : a = [bitmap |-> B, usable |-> u, used |-> w, hint |-> g]
    BY Zenon, <2>11
  <2>13. alloc_contig(a, n).fa = [bitmap |-> B \cup N, usable |-> u, used |-> w + n, hint |-> h]
    BY Zenon, <2>10, <2>12
  <2>14. Cardinality(B \cup N) = Cardinality(B) + n
    BY Zenon, <2>6, <2>7, <2>12, Together DEF Counts
  <2>15. w \in Int /\ w + c = Cardinality(B) /\ B \subseteq Frames
    BY Zenon, <2>12 DEF Counts
  <2> QED
    BY SMTT(30), <1>1, <2>6, <2>9, <2>13, <2>14, <2>15 DEF Counts
<1> QED
  BY <1>2, <1>3

\* alloc counts the frame it takes.
LEMMA AllocCounts ==
    ASSUME NEW a, NEW c \in Nat, Counts(a, c)
    PROVE  Counts(alloc(a).fa, c)
<1> DEFINE I == {i \in Frames : (a.hint + i) % MAX_FRAMES \in FreeFrames(a)}
<1>1. AllocatorOK(alloc(a).fa)
  BY Zenon, AllocReturns DEF Counts
<1>2. CASE I = {}
  BY <1>2 DEF alloc
<1>3. CASE I # {}
  <2>1. PICK f : f = (a.hint + Min(I)) % MAX_FRAMES
    BY Zenon
  <2>2. I \in SUBSET Nat
    BY MemorySizes DEF Frames
  <2>3. Min(I) \in I
    BY Zenon, <1>3, <2>2, LeastFound
  <2>4. f \in Frames /\ f \notin a.bitmap
    BY Zenon, <2>1, <2>3 DEF FreeFrames
  <2>5. PICK h : h = (f + 1) % MAX_FRAMES
    OBVIOUS
  <2>6. h \in Frames
    BY <2>4, <2>5, MemorySizes DEF Frames
  <2>7. alloc(a).fa = [a EXCEPT !.bitmap = @ \cup {f}, !.used = @ + 1, !.hint = h]
    BY Zenon, <1>3, <2>1, <2>5 DEF alloc
  <2>8. PICK B, u, w : \E g \in Nat : a = [bitmap |-> B, usable |-> u, used |-> w, hint |-> g]
    BY Zenon DEF Counts, AllocatorOK
  <2>9. PICK g \in Nat : a = [bitmap |-> B, usable |-> u, used |-> w, hint |-> g]
    BY Zenon, <2>8
  <2>10. alloc(a).fa = [bitmap |-> B \cup {f}, usable |-> u, used |-> w + 1, hint |-> h]
    BY Zenon, <2>7, <2>9
  <2>11. w \in Int /\ w + c = Cardinality(B) /\ B \subseteq Frames /\ f \notin B
    BY Zenon, <2>4, <2>9 DEF Counts
  <2>12. IsFiniteSet(B)
    BY <2>11, FramesFinite
  <2>13. Cardinality(B \cup {f}) = Cardinality(B) + 1
    BY Zenon, <2>11, <2>12, FS_AddElement
  <2>14. B \cup {f} \subseteq Frames
    BY Zenon, <2>4, <2>11
  <2> QED
    BY SMTT(30), <1>1, <2>6, <2>10, <2>11, <2>13, <2>14 DEF Counts
<1> QED
  BY Zenon, <1>2, <1>3

\* free counts the frame it gives back, and not one that was free.
LEMMA FreeCounts ==
    ASSUME NEW a, NEW c \in Nat, Counts(a, c), NEW f \in Frames, AllocatorOK(free(a, f))
    PROVE  Counts(free(a, f), c)
<1>1. CASE f \notin a.bitmap
  BY <1>1 DEF free
<1>2. CASE f \in a.bitmap
  <2>1. PICK B, u, w : \E g \in Nat : a = [bitmap |-> B, usable |-> u, used |-> w, hint |-> g]
    BY Zenon DEF Counts, AllocatorOK
  <2>2. PICK g \in Nat : a = [bitmap |-> B, usable |-> u, used |-> w, hint |-> g]
    BY Zenon, <2>1
  <2>3. PICK h : h = IF f < g THEN f ELSE g
    OBVIOUS
  <2>4. w \in Int /\ w + c = Cardinality(B) /\ B \subseteq Frames /\ f \in B /\ g \in Frames
    BY Zenon, <1>2, <2>2 DEF Counts
  <2>5. h \in Frames
    BY <2>3, <2>4
  <2>6. free(a, f) = [a EXCEPT !.bitmap = @ \ {f}, !.used = @ - 1, !.hint = IF f < @ THEN f ELSE @]
    BY <1>2 DEF free
  <2>7. free(a, f) = [bitmap |-> B \ {f}, usable |-> u, used |-> w - 1, hint |-> h]
    BY Zenon, <2>2, <2>3, <2>6
  <2>8. IsFiniteSet(B)
    BY Zenon, <2>4, FramesFinite
  <2>9. Cardinality(B \ {f}) = Cardinality(B) - 1
    BY Zenon, <2>4, <2>8, FS_RemoveElement
  <2>10. B \ {f} \subseteq Frames
    BY <2>4
  <2> QED
    BY <2>4, <2>5, <2>7, <2>9, <2>10 DEF Counts
<1> QED
  BY Zenon, <1>1, <1>2

(***************************************************************************)
(* The turns of the scheduler.  FairTurns alone is not inductive: that the *)
(* next process has had no more turns than the others follows from the     *)
(* order in which they get them, which Sched records.                      *)
(***************************************************************************)
Proc == [state : {"Free", "Ready", "Running"}, pid : Nat, stack : Nat, switches : Int]

ProcTable == [table : [Slots -> Proc], cur : Slots, next_pid : Nat, enabled : BOOLEAN]

\* The order of the turns: 1, 2, ... m - 1 and then the idle process 0.
Turn(s, m) == IF s = 0 THEN m ELSE s

\* The first m slots are in use; the processes up to the current one, in the
\* order of the turns, have had k turns and the others one less.
Sched(p, m, k) ==
    /\ p \in ProcTable
    /\ m \in 0 .. MAX_PROCESSES /\ k \in Int
    /\ \A s \in Slots : p.table[s].state = "Free" <=> s >= m
    /\ p.cur = 0 \/ p.cur < m
    /\ \A s \in Slots : s < m /\ s # p.cur => p.table[s].state = "Ready"
    /\ \A s \in Slots : s < m =>
          p.table[s].switches = IF Turn(s, m) <= Turn(p.cur, m) THEN k ELSE k - 1
    /\ ~ p.enabled => p.cur = 0 /\ k = 0

\* The remainder of a sum that is past the end of the table at most once.
LEMMA Wrap ==
    ASSUME NEW M \in Nat \ {0}, NEW x \in Nat, x < 2 * M
    PROVE  x % M = IF x < M THEN x ELSE x - M
<1>1. CASE x < M
  <2>1. x = M * 0 + x
    OBVIOUS
  <2> QED BY <1>1, <2>1
<1>2. CASE x >= M
  BY <1>2
<1> QED BY <1>1, <1>2

\* find_next names the slot after the current one, or the idle one at the end.
LEMMA FindNextIs ==
    ASSUME NEW p, NEW m, NEW k, Sched(p, m, k), m >= 1
    PROVE  find_next(p, p.cur) = IF p.cur + 1 < m THEN p.cur + 1 ELSE 0
<1> DEFINE M == MAX_PROCESSES
           c == p.cur
           ready == {i \in 1 .. M : p.table[(c + i) % M].state = "Ready"}
<1>0. /\ M \in Nat \ {0} /\ Slots = 0 .. M - 1 /\ m \in 1 .. M
      /\ c \in 0 .. M - 1 /\ c < m
  BY MemorySizes DEF Sched, ProcTable, Slots
<1>1. ready \in SUBSET Nat
  BY <1>0
<1>2. find_next(p, c) = IF ready = {} THEN 0 ELSE (c + Min(ready)) % M
  BY Zenon DEF find_next
<1>3. CASE c + 1 < m
  <2>1. (c + 1) % M = c + 1
    <3>1. PICK x : x = c + 1
      OBVIOUS
    <3>2. x \in Nat /\ x < 2 * M /\ x < M /\ M \in Nat \ {0}
      BY <1>0, <1>3, <3>1
    <3> QED
      BY <3>1, <3>2, Wrap
  <2>2. 1 \in ready
    BY SMTT(30), <1>0, <1>3, <2>1 DEF Sched
  <2>3. Min(ready) = 1
    BY SMTT(30), <1>1, <2>2, LeastFound
  <2> QED
    BY Zenon, <1>2, <1>3, <2>1, <2>2, <2>3
<1>4. CASE c + 1 >= m
  <2>0. c + 1 = m
    BY <1>0, <1>4
  <2>1. ASSUME NEW i \in 1 .. M, i < M - c PROVE i \notin ready
    <3>1. (c + i) % M = c + i
      <4>1. PICK x : x = c + i
        OBVIOUS
      <4>2. x \in Nat /\ x < 2 * M /\ x < M /\ M \in Nat \ {0}
        BY <1>0, <2>1, <4>1
      <4> QED
        BY Zenon, <4>1, <4>2, Wrap
    <3>2. c + i \in Slots /\ c + i >= m
      BY <1>0, <2>0, <2>1
    <3> QED
      BY Zenon, <3>1, <3>2 DEF Sched
  <2>2. CASE ready = {}
    BY <1>2, <1>4, <2>2, <1>0
  <2>3. CASE ready # {}
    <3>1. PICK j : j = Min(ready)
      BY Zenon
    <3>2. j \in ready
      BY Zenon, <1>1, <2>3, <3>1, LeastFound
    <3>3. j \in 1 .. M /\ j >= M - c
      BY SMTT(30), <1>0, <2>1, <3>2
    <3>4. c + j >= M /\ c + j < 2 * M /\ c + j \in Nat
      BY <1>0, <3>3
    <3>5. (c + j) % M = c + j - M
      <4>1. PICK x : x = c + j
        OBVIOUS
      <4>2. x \in Nat /\ x < 2 * M /\ ~ (x < M) /\ M \in Nat \ {0}
        BY <1>0, <3>4, <4>1
      <4>3. x % M = x - M
        BY Zenon, <4>2, Wrap
      <4> QED
        BY SMTT(30), <1>0, <3>3, <4>1, <4>2, <4>3
    <3>6. CASE j = M - c
      <4>1. c + j - M = 0
        BY SMTT(30), <1>0, <3>3, <3>6
      <4>2. find_next(p, c) = (c + j) % M
        BY Zenon, <1>2, <2>3, <3>1
      <4>3. ~ (c + 1 < m)
        BY <1>0, <1>4
      <4> QED
        BY Zenon, <3>5, <4>1, <4>2, <4>3
    <3>7. CASE j > M - c
      \* Then 0 is not ready, so it is the current one.
      <4>1. M - c \in 1 .. M /\ M - c \notin ready
        <5>1. M - c \in 1 .. M
          BY <1>0
        <5>2. \A y \in ready : j <= y
          BY Zenon, <1>1, <2>3, <3>1, LeastFound
        <5>3. ~ (j <= M - c)
          BY <1>0, <3>3, <3>7
        <5> QED
          BY Zenon, <5>1, <5>2, <5>3
      <4>2. (c + (M - c)) % M = 0
        BY <1>0, Wrap
      <4>3. p.table[0].state # "Ready"
        BY Zenon, <4>1, <4>2
      <4>4. c = 0
        BY <1>0, <4>3 DEF Sched
      <4> QED
        BY <1>0, <3>3, <3>7, <4>4
    <3> QED
      BY <1>0, <3>3, <3>6, <3>7
  <2> QED
    BY Zenon, <2>2, <2>3
<1> QED
  BY <1>0, <1>3, <1>4

\* A tick passes the turn on and leaves the stacks alone.
LEMMA TickIs ==
    ASSUME NEW p, NEW m, NEW k, Sched(p, m, k), m >= 1, p.enabled
    PROVE  /\ \E l : Sched(tick(p), m, l)
           /\ tick(p).enabled
           /\ \A s \in Slots : tick(p).table[s].stack = p.table[s].stack
<1> DEFINE c == p.cur
           T == p.table
<1>0. /\ MAX_PROCESSES \in Nat \ {0} /\ Slots = 0 .. MAX_PROCESSES - 1 /\ m \in 1 .. MAX_PROCESSES
      /\ c \in Slots /\ c < m /\ T \in [Slots -> Proc] /\ p \in ProcTable
  BY MemorySizes DEF Sched, ProcTable, Slots
<1>1. PICK n : n = IF c + 1 < m THEN c + 1 ELSE 0
  OBVIOUS
<1>2. find_next(p, c) = n
  BY <1>1, FindNextIs
<1>3. n \in Slots /\ n < m
  BY <1>0, <1>1
<1>4. CASE n = c
  <2>1. tick(p) = p
    BY <1>2, <1>4 DEF tick
  <2> QED
    BY <2>1
<1>5. CASE n # c
  <2>1. PICK y : y = IF T[c].state = "Running" THEN "Ready" ELSE T[c].state
    BY Zenon
  <2>2. PICK t : t = tick(p)
    OBVIOUS
  <2>3. t = [p EXCEPT !.table[c].state = y,
                      !.table[n].state = "Running", !.table[n].switches = @ + 1,
                      !.cur = n]
    BY Zenon, <1>2, <1>5, <2>1, <2>2 DEF tick
  <2>4. y = "Ready"
    BY SMTT(30), <1>0, <2>1 DEF Sched, Proc
  <2>5. t = [p EXCEPT !.table = [T EXCEPT ![c] = [T[c] EXCEPT !.state = y],
                           ![n] = [T[n] EXCEPT !.state = "Running", !.switches = T[n].switches + 1]],
                      !.cur = n]
    BY Zenon, <1>0, <1>3, <1>5, <2>3 DEF ProcTable, Proc
  <2>6. t.table = [T EXCEPT ![c] = [T[c] EXCEPT !.state = y],
                           ![n] = [T[n] EXCEPT !.state = "Running", !.switches = T[n].switches + 1]]
    BY <1>0, <2>5 DEF ProcTable
  <2>7. t \in ProcTable /\ t.cur = n /\ t.enabled
    <3>1. PICK U : U = [T EXCEPT ![c] = [T[c] EXCEPT !.state = y],
                           ![n] = [T[n] EXCEPT !.state = "Running", !.switches = T[n].switches + 1]]
      BY Zenon
    <3>2. PICK r : r = "Ready" /\ r \in {"Free", "Ready", "Running"}
      OBVIOUS
    <3>3. PICK z : z = T[n].switches + 1
      BY Zenon
    <3>4. z \in Int
      <4>1. T[n] \in Proc
        BY Zenon, <1>0, <1>3
      <4>2. T[n].switches \in Int
        BY Zenon, <4>1 DEF Proc
      <4> QED
        BY <3>3, <4>2
    <3>5. [T[c] EXCEPT !.state = y] \in Proc
      BY Zenon, <1>0, <2>4 DEF Proc
    <3>6. [T[n] EXCEPT !.state = "Running", !.switches = z] \in Proc
      BY Zenon, <1>0, <1>3, <3>4 DEF Proc
    <3>7. U \in [Slots -> Proc]
      BY Zenon, <1>0, <1>3, <3>1, <3>3, <3>5, <3>6
    <3>8. t = [p EXCEPT !.table = U, !.cur = n]
      BY <2>5, <3>1
    <3> QED
      BY Zenon, <1>0, <1>3, <3>7, <3>8 DEF ProcTable
  <2>8. /\ t.table[n].state = "Running" /\ t.table[n].switches = T[n].switches + 1
        /\ t.table[n].stack = T[n].stack
    BY SMTT(30), <1>0, <1>3, <1>5, <2>6 DEF Proc
  <2>9. /\ t.table[c].state = "Ready" /\ t.table[c].switches = T[c].switches
        /\ t.table[c].stack = T[c].stack
    <3>1. PICK o : o = T[c]
      BY Zenon
    <3>2. o \in Proc /\ t.table[c] = [o EXCEPT !.state = "Ready"]
      BY Zenon, <1>0, <1>3, <1>5, <2>4, <2>6, <3>1
    <3>3. /\ t.table[c].state = "Ready" /\ t.table[c].switches = o.switches
          /\ t.table[c].stack = o.stack
      BY <3>2 DEF Proc
    <3> QED
      BY Zenon, <3>1, <3>3
  <2>10. \A s \in Slots : s # n /\ s # c => t.table[s] = T[s]
    BY Zenon, <1>0, <1>3, <2>6
  <2>11. Sched(t, m, IF c = 0 THEN k + 1 ELSE k)
    <3>1. \A s \in Slots : t.table[s].state = "Free" <=> s >= m
      BY SMTT(30), <1>0, <1>3, <2>8, <2>9, <2>10 DEF Sched
    <3>2. \A s \in Slots : s < m /\ s # n => t.table[s].state = "Ready"
      BY SMTT(30), <1>0, <2>9, <2>10 DEF Sched
    <3>3. ASSUME NEW s \in Slots, s < m
          PROVE  t.table[s].switches = IF Turn(s, m) <= Turn(n, m)
                                       THEN IF c = 0 THEN k + 1 ELSE k
                                       ELSE (IF c = 0 THEN k + 1 ELSE k) - 1
      <4>1. T[s].switches = (IF Turn(s, m) <= Turn(c, m) THEN k ELSE k - 1) /\ k \in Int
        BY Zenon, <3>3 DEF Sched
      <4>2. t.table[s].switches = IF s = n THEN T[s].switches + 1 ELSE T[s].switches
        BY Zenon, <2>8, <2>9, <2>10
      <4> QED
        BY SMTT(30), <1>0, <1>1, <1>3, <1>5, <3>3, <4>1, <4>2 DEF Turn
    <3>4. (IF c = 0 THEN k + 1 ELSE k) \in Int
      BY DEF Sched
    <3> QED
      BY Zenon, <1>0, <1>3, <2>7, <3>1, <3>2, <3>3, <3>4 DEF Sched
  <2> QED
    BY Zenon, <2>2, <2>7, <2>8, <2>9, <2>10, <2>11
<1> QED
  BY Zenon, <1>4, <1>5

\* Turns in that order are fair.
LEMMA SchedFair ==
    ASSUME NEW p, NEW m, NEW k, Sched(p, m, k)
    PROVE  /\ \A s \in Slots : p.table[s].state = "Running" => s = p.cur
           /\ \A s, t \in {s \in Slots : p.table[s].state # "Free"} :
                p.table[s].switches - p.table[t].switches \in -1 .. 1
<1>0. m \in Int /\ Slots \subseteq Int /\ k \in Int /\ p.table \in [Slots -> Proc]
  BY MemorySizes DEF Sched, Slots, ProcTable
<1>1. ASSUME NEW s \in Slots, p.table[s].state = "Running" PROVE s = p.cur
  BY <1>0, <1>1 DEF Sched
<1>2. \A s \in Slots : p.table[s].state # "Free" => p.table[s].switches \in {k, k - 1}
  BY <1>0 DEF Sched
<1>3. \A s, t \in {s \in Slots : p.table[s].state # "Free"} :
                p.table[s].switches - p.table[t].switches \in -1 .. 1
  BY <1>0, <1>2
<1> QED
  BY Zenon, <1>1, <1>3

\* The stacks of q are those of p and st.
StacksOf(q, p, st) ==
    \A s \in Slots : q.table[s].stack = st \/ q.table[s].stack = p.table[s].stack

\* A process is made in the first free slot, before the scheduler turns.
LEMMA SpawnIs ==
    ASSUME NEW p, NEW m, NEW k, Sched(p, m, k), m >= 1, ~ p.enabled,
           NEW F, F = {s \in Slots : p.table[s].state = "Free"}, F # {},
           NEW st \in Nat, NEW slot, slot = Min(F), NEW q,
           q = [p EXCEPT !.table[slot] = [state |-> "Ready", pid |-> p.next_pid,
                                          stack |-> st, switches |-> 0],
                         !.next_pid = @ + 1]
    PROVE  /\ Sched(q, m + 1, 0)
           /\ ~ q.enabled
           /\ StacksOf(q, p, st)
<1>0. /\ MAX_PROCESSES \in Nat \ {0} /\ Slots = 0 .. MAX_PROCESSES - 1
      /\ m \in 1 .. MAX_PROCESSES /\ p \in ProcTable /\ p.cur = 0 /\ k = 0
  BY MemorySizes DEF Sched, Slots
<1>1. F \in SUBSET Nat /\ \A s \in Slots : s \in F <=> s >= m
  BY <1>0 DEF Sched
<1>2. slot \in F /\ \A s \in F : slot <= s
  BY Zenon, <1>1, LeastFound
<1>3. slot = m /\ slot \in Slots
  <2>1. slot \in Slots /\ slot >= m
    BY Zenon, <1>1, <1>2
  <2>2. m \in Slots
    BY <1>0, <2>1
  <2>3. slot <= m
    BY <1>0, <1>1, <1>2, <2>2
  <2> QED
    BY <1>0, <2>1, <2>3
<1>4. PICK T : T = p.table
  OBVIOUS
<1>5. PICK new : new = [state |-> "Ready", pid |-> p.next_pid, stack |-> st, switches |-> 0]
  BY Zenon
<1>6. T \in [Slots -> Proc] /\ p.next_pid \in Nat
  BY <1>0, <1>4 DEF ProcTable
<1>7. /\ new \in Proc /\ new.state = "Ready" /\ new.switches = 0 /\ new.stack = st
  BY <1>5, <1>6 DEF Proc
<1>8. PICK U : U = [T EXCEPT ![slot] = new]
  BY Zenon
<1>9. U \in [Slots -> Proc] /\ U[m] = new /\ \A s \in Slots : s # m => U[s] = T[s]
  BY <1>3, <1>6, <1>7, <1>8
<1>10. PICK i : i = p.next_pid + 1
  OBVIOUS
<1>11. i \in Nat
  BY <1>6, <1>10
<1>12. q = [p EXCEPT !.table = U, !.next_pid = i]
  BY <1>0, <1>4, <1>5, <1>8, <1>10 DEF ProcTable
<1>13. q.table = U /\ q.cur = 0 /\ ~ q.enabled
  BY Zenon, <1>0, <1>12 DEF ProcTable
<1>14. q \in ProcTable
  BY Zenon, <1>0, <1>9, <1>11, <1>12 DEF ProcTable
<1>15. \A s \in Slots : T[s].state = "Free" <=> s >= m
  BY <1>4 DEF Sched
<1>16. \A s \in Slots : s < m /\ s # 0 => T[s].state = "Ready"
  BY <1>0, <1>4 DEF Sched
<1>17. \A s \in Slots : s < m => T[s].switches = 0
  BY <1>0, <1>4 DEF Sched, Turn
<1>18. m + 1 \in 0 .. MAX_PROCESSES
  BY <1>0, <1>3
<1>19. \A s \in Slots : U[s].state = "Free" <=> s >= m + 1
  BY <1>0, <1>3, <1>7, <1>9, <1>15
<1>20. \A s \in Slots : s < m + 1 /\ s # 0 => U[s].state = "Ready"
  BY <1>0, <1>3, <1>7, <1>9, <1>16
<1>21. \A s \in Slots : s < m + 1 => U[s].switches = 0
  BY <1>0, <1>3, <1>7, <1>9, <1>17
<1>22. \A s \in Slots : s < m + 1 => Turn(s, m + 1) <= Turn(0, m + 1)
  BY <1>0 DEF Turn
<1>23. \A s \in Slots : s < m + 1 =>
          q.table[s].switches = IF Turn(s, m + 1) <= Turn(q.cur, m + 1) THEN 0 ELSE 0 - 1
  BY Zenon, <1>13, <1>21, <1>22
<1>24. \A s \in Slots : q.table[s].state = "Free" <=> s >= m + 1
  BY Zenon, <1>13, <1>19
<1>25. \A s \in Slots : s < m + 1 /\ s # q.cur => q.table[s].state = "Ready"
  BY Zenon, <1>13, <1>20
<1>26. Sched(q, m + 1, 0)
  <2>1. PICK j, z : j = m + 1 /\ z = 0 /\ z \in Int
    OBVIOUS
  <2>2. Sched(q, j, z)
    BY <1>13, <1>14, <1>18, <1>23, <1>24, <1>25, <2>1 DEF Sched
  <2> QED
    BY <2>1, <2>2
<1>27. ASSUME NEW s \in Slots
       PROVE  U[s].stack = st \/ U[s].stack = p.table[s].stack
  BY Zenon, <1>4, <1>7, <1>9
<1>28. StacksOf(q, p, st)
  BY <1>13, <1>27 DEF StacksOf
<1> QED
  BY <1>13, <1>26, <1>28

\* create_idle makes the first process of an empty table.
LEMMA IdleIs ==
    ASSUME NEW p, p = [table |-> [s \in Slots |-> NoProc], cur |-> 0, next_pid |-> 1,
                       enabled |-> FALSE],
           NEW q, q = [p EXCEPT !.table[0] = [@ EXCEPT !.state = "Ready"]]
    PROVE  /\ Sched(p, 0, 0)
           /\ Sched(q, 1, 0) /\ ~ q.enabled
           /\ \A s \in Slots : p.table[s].stack = 0 /\ q.table[s].stack = 0
<1>0. MAX_PROCESSES \in Nat \ {0} /\ Slots = 0 .. MAX_PROCESSES - 1 /\ 0 \in Slots
  BY MemorySizes DEF Slots
<1>1. PICK T : T = [s \in Slots |-> NoProc]
  OBVIOUS
<1>2. /\ NoProc \in Proc /\ NoProc.state = "Free" /\ NoProc.stack = 0 /\ NoProc.switches = 0
  BY DEF NoProc, Proc
<1>3. T \in [Slots -> Proc] /\ \A s \in Slots : T[s] = NoProc
  BY <1>1, <1>2
<1>4. p.table = T /\ p.cur = 0 /\ ~ p.enabled /\ p \in ProcTable
  BY <1>0, <1>1, <1>3 DEF ProcTable
<1>5. Sched(p, 0, 0)
  BY <1>0, <1>2, <1>3, <1>4 DEF Sched
<1>6. PICK new : new = [NoProc EXCEPT !.state = "Ready"]
  BY Zenon
<1>7. new \in Proc /\ new.state = "Ready" /\ new.stack = 0 /\ new.switches = 0
  BY <1>6 DEF NoProc, Proc
<1>8. PICK U : U = [T EXCEPT ![0] = new]
  BY Zenon
<1>9. U \in [Slots -> Proc] /\ U[0] = new /\ \A s \in Slots : s # 0 => U[s] = NoProc
  BY <1>0, <1>3, <1>7, <1>8
<1>10. q = [p EXCEPT !.table = U]
  BY <1>0, <1>1, <1>3, <1>6, <1>8
<1>11. q.table = U /\ q.cur = 0 /\ ~ q.enabled /\ q \in ProcTable
  BY Zenon, <1>4, <1>9, <1>10 DEF ProcTable
<1>12. Sched(q, 1, 0)
  BY <1>0, <1>2, <1>7, <1>9, <1>11 DEF Sched, Turn
<1> QED
  BY Zenon, <1>2, <1>3, <1>4, <1>5, <1>7, <1>9, <1>11, <1>12

(***************************************************************************)
(* The counter, the table and the blocks together.  A stack of the table is *)
(* a held block, because only pages are ever given back.                   *)
(***************************************************************************)
KernelUsable(map) == Cardinality(Kernel \cap Usable(map))

FaOK ==
    /\ fa.used \in Int /\ fa.hint \in Frames
    /\ Booted => Counts(fa, KernelUsable(mm))

\* Before create_idle the table is empty; the scheduler is off until enable.
Early == {"memory", "screen", "idle"}

NoProcs == [table |-> [s \in Slots |-> NoProc], cur |-> 0, next_pid |-> 1, enabled |-> FALSE]

StacksHeld ==
    \A s \in Slots : procs.table[s].stack # 0 =>
        \E b \in held : b.by = "stack" /\ b.at = procs.table[s].stack

TableOK ==
    /\ \E m, k : Sched(procs, m, k) /\ (stage \notin Early => m >= 1)
    /\ stage \in Early => procs = NoProcs
    /\ stage \notin Early => (procs.enabled <=> stage # "threads")
    /\ StacksHeld

\* The frames of the kernel that the map calls usable can be counted.
LEMMA KernelUsableNat ==
    ASSUME NEW map
    PROVE  KernelUsable(map) \in Nat
<1>1. Kernel \cap Usable(map) \subseteq Frames
  BY DEF Usable, Span
<1> QED
  BY <1>1, FramesFinite DEF KernelUsable

\* The count starts right.
LEMMA CountStarts ==
    Init => FaOK
BY SMTT(30), MemorySizes DEF Init, FaOK, Booted, Frames

\* Every block that is taken or given back is counted.
LEMMA CountKept ==
    IInv /\ FaOK /\ [Next]_vars => FaOK'
<1> SUFFICES ASSUME IInv, FaOK, [Next]_vars PROVE FaOK'
  OBVIOUS
<1>a. ASSUME NEW c, c = KernelUsable(mm'), Counts(fa', c) PROVE FaOK'
  BY Zenon, <1>a DEF FaOK, Counts
<1>b. KernelUsable(mm) \in Nat
  BY KernelUsableNat
<1>1. ASSUME NEW b \in BootInfos, mem_init(b) PROVE FaOK'
  <2>1. PICK map : map = parse_into(b)
    OBVIOUS
  <2>2. PICK a : a = init_frames(map)
    OBVIOUS
  <2>3. PICK c : c = KernelUsable(map)
    OBVIOUS
  <2>4. Counts(a, c) /\ c \in Nat
    BY <2>1, <2>2, <2>3, InitCounts, KernelUsableNat DEF KernelUsable
  <2>5. Counts(alloc_contig(a, HEAP_PAGES).fa, c)
    BY Zenon, <2>4, ContigCounts, MemorySizes
  <2>6. fa' = alloc_contig(a, HEAP_PAGES).fa /\ mm' = map
    BY Zenon, <1>1, <2>1, <2>2 DEF mem_init
  <2> QED
    BY <1>a, <2>3, <2>5, <2>6
<1>2. ASSUME NEW n \in Nat, NEW by, Booted, Take(alloc_contig(fa, n), by), mm' = mm PROVE FaOK'
  <2>1. PICK a, c : a = fa /\ c = KernelUsable(mm)
    OBVIOUS
  <2>2. Counts(a, c) /\ c \in Nat
    BY <1>2, <1>b, <2>1 DEF FaOK
  <2>3. Counts(alloc_contig(a, n).fa, c)
    BY <2>2, ContigCounts
  <2>4. fa' = alloc_contig(a, n).fa /\ c = KernelUsable(mm')
    BY Zenon, <1>2, <2>1 DEF Take
  <2> QED
    BY <1>a, <2>3, <2>4
<1>3. ASSUME UNCHANGED <<mm, fa>>, Booted' => Booted PROVE FaOK'
  BY <1>3 DEF FaOK
<1>4. ASSUME NEW p \in ScreenPages, init_backbuffer(p) PROVE FaOK'
  <2>1. Booted /\ mm' = mm /\ Take(alloc_contig(fa, p), "screen")
    BY <1>4 DEF init_backbuffer, Booted
  <2> QED
    BY <1>2, <2>1, MemorySizes
<1>5. CASE create_idle
  BY <1>3, <1>5 DEF create_idle, Booted
<1>6. CASE Spawn
  <2>1. Booted /\ mm' = mm /\ spawn
    BY <1>6 DEF Spawn, Booted
  <2>2. UNCHANGED <<fa, held, lost>> \/ Take(alloc_contig(fa, STACK_PAGES), "stack")
    BY <2>1, Zenon DEF spawn
  <2> QED
    BY Zenon, <1>2, <1>3, <2>1, <2>2, MemorySizes
<1>7. CASE enable
  BY <1>3, <1>7 DEF enable, Booted
<1>8. CASE Tick
  BY <1>3, <1>8 DEF Tick, Booted
<1>9. CASE rings_init
  <2>1. Booted /\ mm' = mm
    BY <1>9 DEF rings_init, Booted
  <2>5. Len(RING_PAGES) \in Nat
    BY MemorySizes
  <2>6. left.rings \in 0 .. Len(RING_PAGES) /\ left.rings > 0
    BY <1>9 DEF rings_init, LeftOK, IInv
  <2>2. left.rings \in 1 .. Len(RING_PAGES) /\ Len(RING_PAGES) \in Nat
    BY <2>5, <2>6
  <2>3. RING_PAGES[Len(RING_PAGES) + 1 - left.rings] \in Nat
    BY <2>2, MemorySizes
  <2> QED
    BY <1>2, <1>9, <2>1, <2>3 DEF rings_init
<1>10. ASSUME NEW s, s # "memory", NEW t, NEW n, NextStage(s, t, n) PROVE FaOK'
  BY <1>3, <1>10 DEF NextStage, Booted
<1>11. ASSUME Called PROVE Booted /\ mm' = mm
  BY <1>11 DEF Called, Booted
<1>12. ASSUME NEW p \in ImagePages, run_image(p) PROVE FaOK'
  BY Zenon, <1>2, <1>11, <1>12, MemorySizes DEF run_image
<1>13. CASE TakeFrame
  <2>1. PICK a, c : a = fa /\ c = KernelUsable(mm)
    OBVIOUS
  <2>2. Booted /\ mm' = mm /\ fa' = alloc(a).fa
    BY Zenon, <1>11, <1>13, <2>1 DEF TakeFrame, Take
  <2>3. Counts(a, c) /\ c \in Nat
    BY <1>b, <2>1, <2>2 DEF FaOK
  <2>4. Counts(alloc(a).fa, c)
    BY <2>3, AllocCounts
  <2> QED
    BY <1>a, <2>1, <2>2, <2>4
<1>14. ASSUME NEW b \in held, FreeFrame(b) PROVE FaOK'
  <2>1. PICK a, c, f : a = fa /\ c = KernelUsable(mm) /\ f = b.at
    OBVIOUS
  <2>2. Booted /\ mm' = mm /\ fa' = free(a, f) /\ b.by = "page"
    BY Zenon, <1>11, <1>14, <2>1 DEF FreeFrame
  <2>3. Counts(a, c) /\ c \in Nat
    BY Zenon, <1>b, <2>1, <2>2 DEF FaOK
  <2>4. AllocatorOK(free(a, f))
    BY Zenon, <2>1, <2>2, FreeKeeps
  <2>5. f \in Frames
    <3>1. b.at \in Nat /\ Of(b) = {b.at}
      BY SMTT(30), <2>2 DEF IInv, BlocksOK, Of
    <3> QED
      BY Zenon, <2>1, <3>1 DEF IInv, HeldOnce
  <2>6. Counts(free(a, f), c)
    BY Zenon, <2>3, <2>4, <2>5, FreeCounts
  <2> QED
    BY <1>a, <2>1, <2>2, <2>6
<1>15. ASSUME NEW nr \in 0 .. 5, Syscall(nr) PROVE FaOK'
  BY Zenon, <1>3, <1>11, <1>15 DEF Syscall
<1>16. CASE UNCHANGED vars
  BY Zenon, <1>3, <1>16 DEF vars, Booted
<1> QED
  BY Zenon, <1>1, <1>4, <1>5, <1>6, <1>7, <1>8, <1>9, <1>10, <1>12, <1>13, <1>14, <1>15, <1>16 DEF Next

\* The table starts empty.
LEMMA TableStarts ==
    Init => TableOK
<1> SUFFICES ASSUME Init PROVE TableOK
  OBVIOUS
<1>1. procs = NoProcs /\ stage \in Early
  BY Zenon DEF Init, NoProcs, Early
<1>2. PICK p, q : /\ p = NoProcs
                  /\ q = [p EXCEPT !.table[0] = [@ EXCEPT !.state = "Ready"]]
  BY Zenon
<1>3. Sched(p, 0, 0)
  BY Zenon, <1>2, IdleIs DEF NoProcs
<1>4. \A s \in Slots : p.table[s].stack = 0
  BY <1>2, IdleIs DEF NoProcs
<1> QED
  BY <1>1, <1>2, <1>3, <1>4 DEF TableOK, StacksHeld

\* The processes keep their turns, and a stack of the table stays its own.
LEMMA TableKept ==
    IInv /\ TableOK /\ [Next]_vars => TableOK'
<1> SUFFICES ASSUME IInv, TableOK, [Next]_vars PROVE TableOK'
  OBVIOUS
\* Steps that leave the table alone.
<1>1. ASSUME procs' = procs, \A b \in held : b.by = "stack" => b \in held',
             stage \in Early <=> stage' \in Early, stage = "threads" <=> stage' = "threads"
      PROVE  TableOK'
  <2>1. StacksHeld'
    BY Zenon, <1>1 DEF TableOK, StacksHeld
  <2> QED
    BY Zenon, <1>1, <2>1 DEF TableOK
\* Steps that end a turn.
<1>2. ASSUME procs' = tick(procs), stage' = stage, stage \notin Early, stage # "threads",
             held' = held
      PROVE  TableOK'
  <2>1. PICK m, k : Sched(procs, m, k) /\ m >= 1
    BY Zenon, <1>2 DEF TableOK
  <2>2. PICK p, q : p = procs /\ q = tick(p)
    OBVIOUS
  <2>3. Sched(p, m, k) /\ p.enabled
    BY Zenon, <1>2, <2>1, <2>2 DEF TableOK
  <2>4. \E l : Sched(q, m, l)
    BY Zenon, <2>1, <2>2, <2>3, TickIs
  <2>5. q.enabled
    BY Zenon, <2>1, <2>2, <2>3, TickIs
  <2>6. \A s \in Slots : q.table[s].stack = p.table[s].stack
    BY Zenon, <2>1, <2>2, <2>3, TickIs
  <2>7. procs' = q
    BY <1>2, <2>2
  <2>8. StacksHeld'
    BY Zenon, <1>2, <2>2, <2>6, <2>7 DEF TableOK, StacksHeld
  <2> QED
    BY Zenon, <1>2, <2>1, <2>4, <2>5, <2>7, <2>8 DEF TableOK
<1>3. ASSUME NEW got, NEW by, Take(got, by) PROVE held \subseteq held'
  BY <1>3 DEF Take
<1>4. ASSUME NEW b \in BootInfos, mem_init(b) PROVE TableOK'
  <2>1. procs' = procs /\ stage = "memory" /\ stage' = "screen" /\ held = {}
    BY Zenon, <1>4 DEF mem_init, IInv, Booted
  <2> QED
    BY Zenon, <1>1, <2>1 DEF Early
<1>5. ASSUME NEW p \in ScreenPages, init_backbuffer(p) PROVE TableOK'
  BY Zenon, <1>1, <1>3, <1>5 DEF init_backbuffer, Early
<1>6. CASE create_idle
  <2>1. PICK p, q : /\ p = NoProcs
                    /\ q = [p EXCEPT !.table[0] = [@ EXCEPT !.state = "Ready"]]
    BY Zenon
  <2>2. procs = p
    BY <1>6, <2>1 DEF create_idle, TableOK, Early
  <2>3. procs' = q /\ stage' = "threads" /\ stage' \notin Early
    BY <1>6, <2>1, <2>2 DEF create_idle, Early
  <2>4. Sched(q, 1, 0)
    BY Zenon, <2>1, IdleIs DEF NoProcs
  <2>5. ~ q.enabled
    BY Zenon, <2>1, IdleIs DEF NoProcs
  <2>6. \A s \in Slots : q.table[s].stack = 0
    BY Zenon, <2>1, IdleIs DEF NoProcs
  <2>7. StacksHeld'
    BY Zenon, <2>3, <2>6 DEF StacksHeld
  <2> QED
    BY <2>3, <2>4, <2>5, <2>7 DEF TableOK
<1>7. CASE Spawn
  <2>1. stage = "threads" /\ stage' = stage /\ stage \notin Early /\ spawn
    BY <1>7 DEF Spawn, Early
  <2>2. PICK m, k : Sched(procs, m, k) /\ m >= 1
    BY Zenon, <2>1 DEF TableOK
  <2>3. ~ procs.enabled
    BY Zenon, <2>1 DEF TableOK
  <2>4. CASE FreeSlots = {}
    <3>1. procs' = procs /\ held' = held
      BY <2>1, <2>4, Zenon DEF spawn
    <3> QED
      BY Zenon, <1>1, <2>1, <3>1
  <2>5. CASE FreeSlots # {}
    <3>1. PICK p, F, slot, got : /\ p = procs /\ F = FreeSlots /\ slot = Min(F)
                                 /\ got = alloc_contig(fa, STACK_PAGES)
      OBVIOUS
    <3>2. PICK st : st = got.at
      OBVIOUS
    <3>3. PICK q : q = [p EXCEPT !.table[slot] = [state |-> "Ready", pid |-> p.next_pid,
                                                  stack |-> st, switches |-> 0],
                                 !.next_pid = @ + 1]
      OBVIOUS
    <3>4. Take(got, "stack") /\ procs' = IF got.at = 0 THEN p ELSE q
      BY <2>1, <2>5, <3>1, <3>2, <3>3 DEF spawn
    <3>5. held \subseteq held'
      BY <1>3, <3>4
    <3>6. CASE got.at = 0
      BY Zenon, <1>1, <2>1, <3>1, <3>4, <3>5, <3>6
    <3>7. CASE got.at # 0
      <4>1. st \in Nat
        <5>1. GrantOK(fa, got)
          BY Zenon, <3>1, ContigReturns, MemorySizes DEF IInv
        <5> QED
          BY Zenon, <3>2, <5>1 DEF GrantOK
      <4>2. F = {s \in Slots : p.table[s].state = "Free"} /\ F # {}
        BY Zenon, <2>5, <3>1 DEF FreeSlots
      <4>3. Sched(p, m, k) /\ m >= 1 /\ ~ p.enabled
        BY Zenon, <2>2, <2>3, <3>1
      <4>4. Sched(q, m + 1, 0)
        BY Zenon, <3>1, <3>3, <4>1, <4>2, <4>3, SpawnIs
      <4>5. ~ q.enabled
        BY Zenon, <3>1, <3>3, <4>1, <4>2, <4>3, SpawnIs
      <4>6. StacksOf(q, p, st)
        BY Zenon, <3>1, <3>3, <4>1, <4>2, <4>3, SpawnIs
      <4>7. procs' = q
        BY <3>4, <3>7
      <4>8. \E b \in held' : b.by = "stack" /\ b.at = st
        <5>1. PICK new : new = Block(NextId, "stack", got.at, got.n)
          OBVIOUS
        <5>2. new \in held'
          BY Zenon, <3>4, <3>7, <5>1 DEF Take, Given
        <5>3. new.by = "stack" /\ new.at = st
          BY Zenon, <3>2, <5>1 DEF Block
        <5> QED
          BY <5>2, <5>3
      <4>9. ASSUME NEW s \in Slots, q.table[s].stack # 0
            PROVE  \E b \in held' : b.by = "stack" /\ b.at = q.table[s].stack
        <5>1. CASE q.table[s].stack = st
          BY Zenon, <4>8, <5>1
        <5>2. CASE q.table[s].stack = p.table[s].stack
          BY Zenon, <3>1, <3>5, <4>9, <5>2 DEF TableOK, StacksHeld
        <5> QED
          BY Zenon, <4>6, <5>1, <5>2 DEF StacksOf
      <4>10. StacksHeld'
        BY Zenon, <4>7, <4>9 DEF StacksHeld
      <4>11. m + 1 >= 1
        BY SMTT(30), <4>3 DEF Sched
      <4> QED
        BY Zenon, <2>1, <4>4, <4>5, <4>7, <4>10, <4>11 DEF TableOK
    <3> QED
      BY <3>6, <3>7
  <2> QED
    BY Zenon, <2>4, <2>5
<1>8. CASE enable
  <2>1. /\ stage = "threads" /\ stage' = "ticks" /\ held' = held
        /\ stage \notin Early /\ stage' \notin Early
        /\ procs' = [procs EXCEPT !.enabled = TRUE]
    BY <1>8 DEF enable, Early
  <2>2. PICK m, k : Sched(procs, m, k) /\ m >= 1
    BY <2>1 DEF TableOK
  <2>3. PICK q : q = [procs EXCEPT !.enabled = TRUE]
    BY Zenon
  <2>4. procs \in ProcTable
    BY Zenon, <2>2 DEF Sched
  <2>5. q.table = procs.table /\ q.cur = procs.cur /\ q.enabled /\ q \in ProcTable
    BY Zenon, <2>3, <2>4 DEF ProcTable
  <2>6. Sched(q, m, k)
    BY Zenon, <2>2, <2>5 DEF Sched
  <2>7. StacksHeld'
    BY <2>1, <2>3, <2>5 DEF TableOK, StacksHeld
  <2> QED
    BY <2>1, <2>2, <2>3, <2>5, <2>6, <2>7 DEF TableOK
<1>9. CASE Tick
  BY <1>2, <1>9 DEF Tick, Early
<1>10. CASE rings_init
  BY <1>1, <1>3, <1>10 DEF rings_init
<1>11. CASE NextStage("ticks", "rings", left.ticks) \/ NextStage("rings", "up", left.rings)
  BY Zenon, <1>1, <1>11 DEF NextStage, Early
<1>12. ASSUME Called PROVE stage = "up" /\ stage' = stage
  BY <1>12 DEF Called
<1>13. ASSUME NEW p \in ImagePages, run_image(p) PROVE TableOK'
  BY Zenon, <1>1, <1>3, <1>12, <1>13 DEF run_image
<1>14. CASE TakeFrame
  BY <1>1, <1>3, <1>12, <1>14 DEF TakeFrame
<1>15. ASSUME NEW b \in held, FreeFrame(b) PROVE TableOK'
  <2>1. /\ procs' = procs /\ stage' = stage
        /\ \A c \in held : c.by = "stack" => c \in held'
    BY Zenon, <1>12, <1>15 DEF FreeFrame
  <2> QED
    BY Zenon, <1>1, <2>1
<1>16. ASSUME NEW nr \in 0 .. 5, Syscall(nr) PROVE TableOK'
  <2>1. /\ stage = "up" /\ stage' = stage /\ held' = held
        /\ stage \notin Early /\ stage # "threads"
        /\ procs' = procs \/ procs' = tick(procs)
    BY Zenon, <1>12, <1>16 DEF Syscall, syscall_handler, Early
  <2> QED
    BY Zenon, <1>1, <1>2, <2>1
<1>17. CASE UNCHANGED vars
  BY Zenon, <1>1, <1>17 DEF vars
<1> QED
  BY Zenon, <1>4, <1>5, <1>6, <1>7, <1>8, <1>9, <1>10, <1>11, <1>13, <1>14, <1>15, <1>16, <1>17 DEF Next

\* frames_used, the scan of alloc_contig and the turns of find_next say what
\* is true of the bitmap and the process table, for every memory map whose
\* usable regions are apart, every size of the tables and every order of calls.
THEOREM ScansAreTrue ==
    Spec => []ScansTrue
<1>1. Init => IInv /\ FaOK /\ TableOK
  BY Starts, CountStarts, TableStarts
<1>2. (IInv /\ FaOK /\ TableOK) /\ [Next]_vars => (IInv /\ FaOK /\ TableOK)'
  BY Steps, CountKept, TableKept
<1>3. IInv /\ FaOK /\ TableOK => ScansTrue
  <2> SUFFICES ASSUME IInv, FaOK, TableOK PROVE ScansTrue
    OBVIOUS
  <2>1. PICK m, k : Sched(procs, m, k)
    BY Zenon DEF TableOK
  <2>2. procs.cur \in Slots
    BY Zenon, <2>1 DEF Sched, ProcTable
  <2>3. TypeOK
    BY Zenon, <2>2 DEF IInv, FaOK, TableOK, StacksHeld, TypeOK
  <2>4. Accounting
    BY Zenon DEF FaOK, Counts, KernelUsable, Accounting
  <2>5. ScanIsFirstRun
    <3>1. PICK a : a = fa
      OBVIOUS
    <3>2. \A n \in 1 .. MAX_FRAMES :
            scan(a, n) = IF Runs(a, n) = {} THEN -1 ELSE Min(Runs(a, n))
      BY Zenon, ScanFindsFirst
    <3> QED
      BY Zenon, <3>1, <3>2 DEF ScanIsFirstRun
  <2>6. FairTurns
    <3>1. PICK p : p = procs
      OBVIOUS
    <3>2. Sched(p, m, k)
      BY <2>1, <3>1
    <3>3. \A s \in Slots : p.table[s].state = "Running" => s = p.cur
      BY Zenon, <3>2, SchedFair
    <3>4. \A s, t \in {s \in Slots : p.table[s].state # "Free"} :
            p.table[s].switches - p.table[t].switches \in -1 .. 1
      BY Zenon, <3>2, SchedFair
    <3>5. Slots \ FreeSlots = {s \in Slots : p.table[s].state # "Free"}
      BY Zenon, <3>1 DEF FreeSlots
    <3> QED
      BY Zenon, <3>1, <3>3, <3>4, <3>5 DEF FairTurns
  <2> QED
    BY <2>3, <2>4, <2>5, <2>6 DEF ScansTrue
<1> QED
  BY <1>1, <1>2, <1>3, PTL DEF Spec
=============================================================================
