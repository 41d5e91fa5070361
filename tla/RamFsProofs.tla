----------------------------- MODULE RamFsProofs -----------------------------
(***************************************************************************)
(* The file system keeps its data apart and its tree in order, for every   *)
(* size of the table, the pool and the free list and every order of calls. *)
(*                                                                         *)
(* The pool is a question about regions: the lemmas of the first part say  *)
(* what alloc_data takes, what free_data gives back and what replacing the *)
(* extent of one file does, for any extents E of the vnodes L, any free    *)
(* list F and any bump pointer nx.                                         *)
(***************************************************************************)
EXTENDS RamFs, WellFoundedInduction, TLAPS

(* Facts about sequences that the proofs cite.                             *)

LEMMA SeqIs == \A D : Seq(D) = UNION {[1 .. n -> D] : n \in Nat}
  OBVIOUS

LEMMA SeqItem == ASSUME NEW D, NEW q \in Seq(D), NEW i \in 1 .. Len(q) PROVE q[i] \in D
  OBVIOUS

LEMMA SeqFunction ==
    ASSUME NEW D, NEW q \in Seq(D)
    PROVE  Len(q) \in Nat /\ q \in [1 .. Len(q) -> D] /\ DOMAIN q = 1 .. Len(q)
  OBVIOUS

LEMMA NoItems ==
    ASSUME NEW D
    PROVE  <<>> \in Seq(D) /\ Len(<<>>) = 0 /\ \A q \in Seq(D) : q # <<>> => Len(q) \in Nat \ {0}
  OBVIOUS

LEMMA Appended ==
    ASSUME NEW D, NEW q \in Seq(D), NEW e \in D
    PROVE  /\ Append(q, e) \in Seq(D) /\ Append(q, e) # <<>> /\ Len(Append(q, e)) = Len(q) + 1
           /\ \A i \in 1 .. Len(q) : Append(q, e)[i] = q[i]
           /\ Append(q, e)[Len(q) + 1] = e
  OBVIOUS

LEMMA Replaced ==
    ASSUME NEW D, NEW q \in Seq(D), NEW i \in 1 .. Len(q), NEW e \in D
    PROVE  /\ [q EXCEPT ![i] = e] \in Seq(D) /\ Len([q EXCEPT ![i] = e]) = Len(q)
           /\ \A j \in 1 .. Len(q) : [q EXCEPT ![i] = e][j] = IF j = i THEN e ELSE q[j]
  OBVIOUS

LEMMA NoPart == ASSUME NEW q, NEW a \in Int, NEW b \in Int, b < a PROVE SubSeq(q, a, b) = <<>>
  OBVIOUS

LEMMA Part ==
    ASSUME NEW D, NEW q, NEW a \in Int, NEW b \in Int, \A i \in a .. b : q[i] \in D
    PROVE  /\ SubSeq(q, a, b) \in Seq(D) /\ Len(SubSeq(q, a, b)) = IF a <= b THEN b - a + 1 ELSE 0
           /\ \A i \in 1 .. b - a + 1 : SubSeq(q, a, b)[i] = q[a + i - 1]
  OBVIOUS

\* The loops of lookup and alloc_data stop at the first entry that fits.
LEMMA LeastFound ==
    ASSUME NEW S \in SUBSET Nat, S # {}
    PROVE  Least(S) \in S
<1>1. IsWellFoundedOn(OpToRel(<, Nat), Nat)
  BY Zenon, NatLessThanWellFounded
<1>2. PICK x \in S : \A y \in S : ~ (<<y, x>> \in OpToRel(<, Nat))
  BY Zenon, <1>1, WFMin
<1>3. ASSUME NEW y \in S PROVE x <= y
  <2>1. x \in Nat /\ y \in Nat
    OBVIOUS
  <2>2. y < x => <<y, x>> \in {ss \in Nat \X Nat : ss[1] < ss[2]}
    BY <2>1
  <2>3. ~ (y < x)
    BY <1>2, <2>2, Zenon DEF OpToRel
  <2> QED
    BY <2>1, <2>3
<1> QED
  BY Zenon, <1>3 DEF Least

\* What is apart from a region is apart from the two parts of a split.
LEMMA ApartFromParts ==
    ASSUME NEW a \in Nat, NEW m \in Nat, NEW b \in Nat, NEW n \in Nat, NEW k \in Nat,
           k <= n, Apart(a, m, b, n)
    PROVE  Apart(a, m, b, k) /\ Apart(a, m, b + k, n - k) /\ Apart(b + k, n - k, a, m)
BY DEF Apart

(***************************************************************************)
(* Regions of the pool                                                     *)
(***************************************************************************)
In(nx, off, n) == 0 < off /\ off + n <= nx /\ off + n <= DATA_POOL_SIZE

Files(L, E, nx) ==
    /\ E \in [L -> Extent]
    /\ \A i \in L : /\ E[i].size <= E[i].cap
                    /\ E[i].cap = 0 => E[i].off = 0
                    /\ E[i].cap # 0 => In(nx, E[i].off, E[i].cap)
    /\ \A i, j \in L : i # j => Apart(E[i].off, E[i].cap, E[j].off, E[j].cap)

Blocks(F, nx) ==
    /\ F \in Seq(Block) /\ Len(F) <= FREE_MAX
    /\ \A k \in 1 .. Len(F) : F[k].size > 0 /\ In(nx, F[k].off, F[k].size)
    /\ \A k, l \in 1 .. Len(F) : k # l => Apart(F[k].off, F[k].size, F[l].off, F[l].size)

\* A region that no file and no free block touches.
OffFiles(L, E, off, n) == \A i \in L : Apart(E[i].off, E[i].cap, off, n)

OffBlocks(F, off, n) == \A k \in 1 .. Len(F) : Apart(F[k].off, F[k].size, off, n)

Pool(L, E, F, nx) ==
    /\ nx \in Nat /\ nx >= 1
    /\ Files(L, E, nx)
    /\ Blocks(F, nx)
    /\ \A k \in 1 .. Len(F) : OffFiles(L, E, F[k].off, F[k].size)

LEMMA BlockNumbers ==
    ASSUME NEW L, NEW E, NEW F, NEW nx, Pool(L, E, F, nx)
    PROVE  \A k \in 1 .. Len(F) : F[k].off \in Nat /\ F[k].size \in Nat
<1>1. \A k \in 1 .. Len(F) : F[k] \in Block
  BY SeqItem DEF Pool, Blocks
<1> QED
  BY <1>1 DEF Block

\* free_data puts a region that nobody holds on the list, or leaks it.
LEMMA FreeKeeps ==
    ASSUME NEW L, NEW E, NEW F, NEW nx, Pool(L, E, F, nx),
           NEW off \in Nat, NEW n \in Nat, n # 0 => In(nx, off, n),
           OffFiles(L, E, off, n), OffBlocks(F, off, n)
    PROVE  Pool(L, E, free_data(F, off, n), nx)
<1> DEFINE b == [off |-> off, size |-> n]
           G == Append(F, b)
<1>1. CASE off = 0 \/ n = 0 \/ Len(F) >= FREE_MAX
  BY <1>1 DEF free_data
<1>2. CASE ~ (off = 0 \/ n = 0 \/ Len(F) >= FREE_MAX)
  <2>1. free_data(F, off, n) = G
    BY <1>2 DEF free_data
  <2>2. F \in Seq(Block) /\ b \in Block /\ b.off = off /\ b.size = n
    BY DEF Pool, Blocks, Block
  <2>3. /\ G \in Seq(Block) /\ Len(G) = Len(F) + 1
        /\ \A k \in 1 .. Len(F) : G[k] = F[k]
        /\ G[Len(F) + 1] = b
    BY <2>2, Appended
  <2>4. Len(F) \in Nat
    BY <2>2
  <2> HIDE DEF G, b
  <2>5. \A k \in 1 .. Len(G) : (k \in 1 .. Len(F) /\ G[k] = F[k]) \/ (k = Len(F) + 1 /\ G[k] = b)
    BY <2>3, <2>4
  <2>6. \A k \in 1 .. Len(G) : G[k].size > 0 /\ In(nx, G[k].off, G[k].size)
    BY <1>2, <2>2, <2>5 DEF Pool, Blocks
  <2>7. \A k, l \in 1 .. Len(G) : k # l => Apart(G[k].off, G[k].size, G[l].off, G[l].size)
    <3> SUFFICES ASSUME NEW k \in 1 .. Len(G), NEW l \in 1 .. Len(G), k # l
                 PROVE  Apart(G[k].off, G[k].size, G[l].off, G[l].size)
      OBVIOUS
    <3>1. CASE k \in 1 .. Len(F) /\ G[k] = F[k] /\ l \in 1 .. Len(F) /\ G[l] = F[l]
      BY <3>1 DEF Pool, Blocks
    <3>2. CASE k \in 1 .. Len(F) /\ G[k] = F[k] /\ l = Len(F) + 1 /\ G[l] = b
      BY <3>2, <2>2 DEF OffBlocks
    <3>3. CASE l \in 1 .. Len(F) /\ G[l] = F[l] /\ k = Len(F) + 1 /\ G[k] = b
      <4>1. Apart(F[l].off, F[l].size, off, n)
        BY <3>3 DEF OffBlocks
      <4> QED
        BY <3>3, <4>1, <2>2 DEF Apart
    <3> QED
      BY <2>5, <3>1, <3>2, <3>3
  <2>8. \A k \in 1 .. Len(G) : OffFiles(L, E, G[k].off, G[k].size)
    BY Zenon, <2>2, <2>5 DEF Pool
  <2>9. Len(G) <= FREE_MAX
    BY <1>2, <2>3, <2>4, RamFsSizes
  <2> QED
    BY <2>1, <2>3, <2>6, <2>7, <2>8, <2>9 DEF Pool, Blocks
<1> QED
  BY <1>1, <1>2

\* A larger bump pointer disturbs nothing: this is all a failed bump does.
LEMMA BumpKeeps ==
    ASSUME NEW L, NEW E, NEW F, NEW nx, Pool(L, E, F, nx), NEW n \in Nat
    PROVE  Pool(L, E, F, nx + n)
<1>1. \A off, m \in Nat : In(nx, off, m) => In(nx + n, off, m)
  BY DEF Pool, In
<1>2. Files(L, E, nx + n)
  BY <1>1 DEF Pool, Files, Extent
<1>3. \A k \in 1 .. Len(F) : F[k] \in Block
  BY SeqItem DEF Pool, Blocks
<1>4. Blocks(F, nx + n)
  BY Zenon, <1>1, <1>3 DEF Pool, Blocks, Block
<1> QED
  BY <1>2, <1>4 DEF Pool

\* Granted: alloc_data(s, n) took the region of n bytes at off.
Granted(L, E, F, nx, off, n) ==
    Pool(L, E, F, nx) /\ off \in Nat /\ In(nx, off, n) /\ OffFiles(L, E, off, n) /\ OffBlocks(F, off, n)

\* Taking the front of a block, or all of it, leaves the other blocks alone.
LEMMA TakeFromBlock ==
    ASSUME NEW L, NEW E, NEW F, NEW nx, Pool(L, E, F, nx), NEW n \in Nat \ {0},
           NEW i \in 1 .. Len(F), F[i].size >= n
    PROVE  Granted(L, E, IF F[i].size > n THEN [F EXCEPT ![i] = Split(F[i], n)] ELSE SwapOut(F, i),
                   nx, F[i].off, n)
<1> DEFINE b == F[i]
           c == Split(b, n)
           last == Len(F)
<1>1. F \in Seq(Block) /\ last \in Nat /\ F \in [1 .. last -> Block]
  BY DEF Pool, Blocks
<1>2. b \in Block /\ b.off \in Nat /\ b.size \in Nat /\ In(nx, b.off, b.size)
  BY Zenon, <1>1 DEF Pool, Blocks, Block
<1>3. In(nx, b.off, n)
  BY <1>2, RamFsSizes DEF In, Pool
<1>4. OffFiles(L, E, b.off, n)
  BY SMTT(30), <1>2 DEF Pool, OffFiles, Apart, Files, Extent
<1>9. \A k \in 1 .. last : F[k].off \in Nat /\ F[k].size \in Nat
  BY Zenon, <1>1 DEF Block
<1>10. \A k \in 1 .. last : k # i => Apart(F[k].off, F[k].size, b.off, b.size)
  BY Zenon DEF Pool, Blocks
<1>5. \A k \in 1 .. last : k # i => Apart(F[k].off, F[k].size, b.off, n)
  BY SMTT(30), <1>2, <1>9, <1>10 DEF Apart
<1>6. CASE b.size > n
  <2> DEFINE G == [F EXCEPT ![i] = c]
  <2>1. c \in Block /\ c.off = b.off + n /\ c.size = b.size - n
    BY <1>2, <1>6 DEF Split, Block
  <2>2. /\ G \in Seq(Block) /\ Len(G) = last
        /\ \A k \in 1 .. last : G[k] = IF k = i THEN c ELSE F[k]
    BY <1>1, <2>1, Replaced
  <2> HIDE DEF G, c
  <2>3. c.size > 0 /\ In(nx, c.off, c.size) /\ OffFiles(L, E, c.off, c.size)
    <3>1. c.size > 0 /\ In(nx, c.off, c.size)
      BY SMTT(30), <1>2, <1>6, <2>1, RamFsSizes DEF In, Pool
    <3>2. \A j \in L : E[j].off \in Nat /\ E[j].cap \in Nat /\ Apart(E[j].off, E[j].cap, b.off, b.size)
      BY DEF Pool, OffFiles, Files, Extent
    <3>3. ASSUME NEW j \in L PROVE Apart(E[j].off, E[j].cap, c.off, c.size)
      <4>1. Apart(E[j].off, E[j].cap, b.off + n, b.size - n)
        BY Zenon, <3>2, <1>2, <1>6, ApartFromParts
      <4> QED
        BY <4>1, <2>1
    <3> QED
      BY <3>1, <3>3 DEF OffFiles
  <2>4. \A k \in 1 .. last : k # i => /\ Apart(F[k].off, F[k].size, c.off, c.size)
                                      /\ Apart(c.off, c.size, F[k].off, F[k].size)
    <3> SUFFICES ASSUME NEW k \in 1 .. last, k # i
                 PROVE  /\ Apart(F[k].off, F[k].size, c.off, c.size)
                        /\ Apart(c.off, c.size, F[k].off, F[k].size)
      OBVIOUS
    <3>1. /\ Apart(F[k].off, F[k].size, b.off + n, b.size - n)
          /\ Apart(b.off + n, b.size - n, F[k].off, F[k].size)
      BY Zenon, <1>2, <1>6, <1>9, <1>10, ApartFromParts
    <3> QED
      BY <3>1, <2>1
  <2>5. Apart(c.off, c.size, b.off, n)
    BY <1>2, <2>1 DEF Apart
  <2>6. OffBlocks(G, b.off, n)
    BY <1>5, <2>2, <2>5 DEF OffBlocks
  <2>7. \A k \in 1 .. last : G[k].size > 0 /\ In(nx, G[k].off, G[k].size)
    BY Zenon, <2>2, <2>3 DEF Pool, Blocks
  <2>8. \A k, l \in 1 .. last : k # l => Apart(G[k].off, G[k].size, G[l].off, G[l].size)
    BY Zenon, <2>2, <2>4 DEF Pool, Blocks
  <2>9. \A k \in 1 .. last : OffFiles(L, E, G[k].off, G[k].size)
    BY Zenon, <2>2, <2>3 DEF Pool
  <2>10. Pool(L, E, G, nx)
    BY Zenon, <2>2, <2>7, <2>8, <2>9 DEF Pool, Blocks
  <2> QED
    BY <1>2, <1>3, <1>4, <1>6, <2>6, <2>10 DEF Granted, G, c
<1>7. CASE ~ (b.size > n)
  <2> DEFINE H == [F EXCEPT ![i] = F[last]]
             G == SubSeq(H, 1, last - 1)
  <2>1. last \in 1 .. last /\ F[last] \in Block
    BY <1>1
  <2>2. /\ H \in Seq(Block)
        /\ \A k \in 1 .. last : H[k] = IF k = i THEN F[last] ELSE F[k]
        /\ \A k \in 1 .. last - 1 : H[k] \in Block
    BY <1>1, <2>1, Replaced
  <2>3. /\ G \in Seq(Block)
        /\ Len(G) = last - 1
        /\ \A k \in 1 .. last - 1 : G[k] = H[k]
    <3>1. 1 \in Int /\ last - 1 \in Int
      BY <1>1
    <3> HIDE DEF H
    <3>2. /\ G \in Seq(Block)
          /\ Len(G) = IF 1 <= last - 1 THEN last - 1 - 1 + 1 ELSE 0
          /\ \A k \in 1 .. last - 1 - 1 + 1 : G[k] = H[1 + k - 1]
      BY <2>2, <3>1, Part
    <3>3. last >= 1
      BY <2>1, <1>1
    <3> HIDE DEF G
    <3> HIDE DEF last
    <3>4. last - 1 - 1 + 1 = last - 1 /\ (IF 1 <= last - 1 THEN last - 1 - 1 + 1 ELSE 0) = last - 1
      BY <3>3, <1>1
    <3>5. \A k \in 1 .. last - 1 : 1 + k - 1 = k
      BY <1>1
    <3> QED
      BY <3>2, <3>4, <3>5
  <2>4. \A k \in 1 .. last - 1 : \E m \in (1 .. last) \ {i} :
            G[k] = F[m] /\ m = IF k = i THEN last ELSE k
    BY <1>1, <2>2, <2>3
  <2>5. OffBlocks(G, b.off, n)
    BY Zenon, <1>5, <2>3, <2>4 DEF OffBlocks
  <2>6. \A k \in 1 .. last - 1 : G[k].size > 0 /\ In(nx, G[k].off, G[k].size)
                                 /\ OffFiles(L, E, G[k].off, G[k].size)
    BY Zenon, <2>4 DEF Pool, Blocks
  <2>7. \A k, l \in 1 .. last - 1 : k # l => Apart(G[k].off, G[k].size, G[l].off, G[l].size)
    <3> SUFFICES ASSUME NEW k \in 1 .. last - 1, NEW l \in 1 .. last - 1, k # l
                 PROVE  Apart(G[k].off, G[k].size, G[l].off, G[l].size)
      BY Zenon
    <3>1. PICK m \in (1 .. last) \ {i} : G[k] = F[m] /\ m = IF k = i THEN last ELSE k
      BY Zenon, <2>4
    <3>2. PICK q \in (1 .. last) \ {i} : G[l] = F[q] /\ q = IF l = i THEN last ELSE l
      BY Zenon, <2>4
    <3>3. m # q
      <4>1. last \in Nat
        BY <1>1
      <4>2. k # last
        BY <4>1
      <4>3. l # last
        BY <4>1
      <4> QED
        BY <3>1, <3>2, <4>2, <4>3
    <3> QED
      BY Zenon, <3>1, <3>2, <3>3 DEF Pool, Blocks
  <2>8. last - 1 <= FREE_MAX
    BY <1>1, RamFsSizes DEF Pool, Blocks
  <2>9. Pool(L, E, G, nx)
    BY Zenon, <2>3, <2>6, <2>7, <2>8 DEF Pool, Blocks
  <2>10. G = SwapOut(F, i)
    BY DEF SwapOut
  <2> QED
    BY Zenon, <1>2, <1>3, <1>4, <1>7, <2>5, <2>9, <2>10 DEF Granted
<1> QED
  BY <1>6, <1>7

\* alloc_data gives out bytes that no file and no other block holds; when it
\* fails only the bump pointer has moved.
LEMMA AllocGrants ==
    ASSUME NEW L, NEW E, NEW s, Pool(L, E, s.free, s.next), NEW n \in Nat \ {0}
    PROVE  /\ alloc_data(s, n).off # 0 =>
                 Granted(L, E, alloc_data(s, n).free, alloc_data(s, n).next, alloc_data(s, n).off, n)
           /\ alloc_data(s, n).off = 0 => Pool(L, E, s.free, alloc_data(s, n).next)
<1> DEFINE F == s.free
           nx == s.next
           fits == {i \in DOMAIN F : F[i].size >= n}
<1>1. F \in Seq(Block) /\ DOMAIN F = 1 .. Len(F) /\ Len(F) \in Nat /\ nx \in Nat /\ nx >= 1
  BY DEF Pool, Blocks
<1>2. CASE fits = {}
  <2> DEFINE o == IF nx + n > DATA_POOL_SIZE THEN 0 ELSE nx
  <2>1. alloc_data(s, n) = [off |-> o, next |-> nx + n, free |-> F]
    BY Zenon, <1>2 DEF alloc_data
  <2>2. Pool(L, E, F, nx + n)
    BY <1>1, BumpKeeps
  <2>3. ASSUME o # 0 PROVE Granted(L, E, F, nx + n, o, n)
    <3>1. o = nx /\ nx + n <= DATA_POOL_SIZE
      BY <2>3, <1>1, RamFsSizes
    <3>2. In(nx + n, nx, n)
      BY <3>1, <1>1 DEF In
    <3>3. OffFiles(L, E, nx, n)
      BY <1>1 DEF OffFiles, Pool, Files, In, Apart, Extent
    <3>4. \A k \in 1 .. Len(F) : F[k] \in Block
      BY <1>1
    <3>5. OffBlocks(F, nx, n)
      BY Zenon, <1>1, <3>4 DEF OffBlocks, Pool, Blocks, In, Apart, Block
    <3> QED
      BY <1>1, <2>2, <3>1, <3>2, <3>3, <3>5 DEF Granted
  <2> QED
    BY <2>1, <2>2, <2>3
<1>3. CASE fits # {}
  <2> DEFINE i == Least(fits)
             G == IF F[i].size > n THEN [F EXCEPT ![i] = Split(F[i], n)] ELSE SwapOut(F, i)
  <2>1. i \in 1 .. Len(F) /\ F[i].size >= n
    <3>1. fits \in SUBSET Nat
      BY <1>1
    <3> QED
      BY Zenon, <1>1, <1>3, <3>1, LeastFound
  <2>2. alloc_data(s, n) = [off |-> F[i].off, next |-> nx, free |-> G]
    BY Zenon, <1>3 DEF alloc_data
  <2> HIDE DEF i
  <2>3. Granted(L, E, G, nx, F[i].off, n)
    BY Zenon, <2>1, TakeFromBlock
  <2>4. F[i].off # 0
    BY <2>3 DEF Granted, In
  <2> QED
    BY <2>2, <2>3, <2>4
<1> QED
  BY Zenon, <1>2, <1>3

\* A vnode gets the extent e, which nobody holds: its old one is then free to
\* be given back.
LEMMA ReplaceKeeps ==
    ASSUME NEW L, NEW E, NEW F, NEW nx, Pool(L, E, F, nx), NEW id \in L, NEW e \in Extent,
           e.size <= e.cap, e.cap = 0 => e.off = 0, e.cap # 0 => In(nx, e.off, e.cap),
           OffFiles(L, E, e.off, e.cap), OffBlocks(F, e.off, e.cap)
    PROVE  /\ Pool(L, [E EXCEPT ![id] = e], F, nx)
           /\ E[id].off \in Nat /\ E[id].cap \in Nat
           /\ E[id].cap # 0 => In(nx, E[id].off, E[id].cap)
           /\ OffFiles(L, [E EXCEPT ![id] = e], E[id].off, E[id].cap)
           /\ OffBlocks(F, E[id].off, E[id].cap)
<1> DEFINE D == [E EXCEPT ![id] = e]
<1>1. E \in [L -> Extent] /\ \A i \in L : E[i].off \in Nat /\ E[i].cap \in Nat
  BY Zenon DEF Pool, Files, Extent
<1>2. D \in [L -> Extent] /\ D[id] = e /\ \A i \in L : i # id => D[i] = E[i]
  BY <1>1
<1>3. e.off \in Nat /\ e.cap \in Nat
  BY DEF Extent
<1>4. \A k \in 1 .. Len(F) : F[k].off \in Nat /\ F[k].size \in Nat
  BY Zenon, BlockNumbers
<1> HIDE DEF D
<1>5. \A i \in L : Apart(E[i].off, E[i].cap, e.off, e.cap) /\ Apart(e.off, e.cap, E[i].off, E[i].cap)
  BY <1>1, <1>3 DEF OffFiles, Apart
<1>6. Files(L, D, nx)
  <2>1. \A i, j \in L : i # j => Apart(D[i].off, D[i].cap, D[j].off, D[j].cap)
    BY Zenon, <1>2, <1>5 DEF Pool, Files
  <2> QED
    BY Zenon, <1>2, <2>1 DEF Pool, Files
<1>7. \A k \in 1 .. Len(F) : OffFiles(L, D, F[k].off, F[k].size)
  <2>1. \A k \in 1 .. Len(F) : Apart(e.off, e.cap, F[k].off, F[k].size)
    BY Zenon, <1>3, <1>4 DEF OffBlocks, Apart
  <2> QED
    BY Zenon, <1>2, <2>1 DEF Pool, OffFiles
<1>8. Pool(L, D, F, nx)
  BY Zenon, <1>6, <1>7 DEF Pool
<1>9. OffFiles(L, D, E[id].off, E[id].cap)
  BY Zenon, <1>2, <1>5 DEF OffFiles, Pool, Files
<1>10. OffBlocks(F, E[id].off, E[id].cap)
  BY Zenon, <1>1, <1>4 DEF OffBlocks, OffFiles, Apart, Pool
<1>11. E[id].cap # 0 => In(nx, E[id].off, E[id].cap)
  BY Zenon DEF Pool, Files
<1> QED
  BY Zenon, <1>1, <1>8, <1>9, <1>10, <1>11 DEF D

\* An extent of no bytes is apart from everything.
LEMMA NothingIsApart ==
    ASSUME NEW L, NEW E, NEW F, NEW nx, Pool(L, E, F, nx)
    PROVE  OffFiles(L, E, 0, 0) /\ OffBlocks(F, 0, 0)
<1>1. \A k \in 1 .. Len(F) : F[k].off \in Nat /\ F[k].size \in Nat
  BY BlockNumbers
<1>2. \A i \in L : E[i].off \in Nat /\ E[i].cap \in Nat
  BY Zenon DEF Pool, Files, Extent
<1> QED
  BY <1>1, <1>2 DEF OffFiles, OffBlocks, Apart

\* A new vnode has no bytes; a removed one leaves its region to be given back.
LEMMA AddKeeps ==
    ASSUME NEW L, NEW E, NEW F, NEW nx, Pool(L, E, F, nx), NEW id, id \notin L
    PROVE  Pool(L \cup {id}, [i \in L \cup {id} |-> IF i = id THEN NoExtent ELSE E[i]], F, nx)
<1> DEFINE M == L \cup {id}
           D == [i \in M |-> IF i = id THEN NoExtent ELSE E[i]]
<1>1. NoExtent \in Extent /\ NoExtent.off = 0 /\ NoExtent.cap = 0 /\ NoExtent.size = 0
  BY DEF NoExtent, Extent
<1>2. E \in [L -> Extent] /\ \A i \in L : E[i].off \in Nat /\ E[i].cap \in Nat
  BY DEF Pool, Files, Extent
<1>3. D \in [M -> Extent] /\ D[id] = NoExtent /\ \A i \in L : D[i] = E[i]
  BY <1>1, <1>2
<1>4. \A k \in 1 .. Len(F) : F[k].off \in Nat /\ F[k].size \in Nat
  BY BlockNumbers
<1> HIDE DEF D
<1>5. \A i, j \in M : i # j => Apart(D[i].off, D[i].cap, D[j].off, D[j].cap)
  <2>1. \A i \in L : Apart(0, 0, E[i].off, E[i].cap) /\ Apart(E[i].off, E[i].cap, 0, 0)
    BY <1>2 DEF Apart
  <2> QED
    BY <1>1, <1>3, <2>1 DEF Pool, Files
<1>6. Files(M, D, nx)
  BY <1>1, <1>3, <1>5 DEF Pool, Files
<1>7. \A k \in 1 .. Len(F) : OffFiles(M, D, F[k].off, F[k].size)
  <2>1. \A k \in 1 .. Len(F) : Apart(0, 0, F[k].off, F[k].size)
    BY <1>4 DEF Apart
  <2> QED
    BY Zenon, <1>1, <1>3, <2>1 DEF Pool, OffFiles
<1> QED
  BY Zenon, <1>6, <1>7 DEF Pool, D

LEMMA DropKeeps ==
    ASSUME NEW L, NEW E, NEW F, NEW nx, Pool(L, E, F, nx), NEW id \in L
    PROVE  Pool(L \ {id}, [i \in L \ {id} |-> E[i]], free_data(F, E[id].off, E[id].cap), nx)
<1> DEFINE M == L \ {id}
           D == [i \in M |-> E[i]]
<1>1. E \in [L -> Extent] /\ \A i \in L : E[i].off \in Nat /\ E[i].cap \in Nat
  BY Zenon DEF Pool, Files, Extent
<1>2. D \in [M -> Extent] /\ \A i \in M : D[i] = E[i]
  BY <1>1
<1>3. \A k \in 1 .. Len(F) : F[k].off \in Nat /\ F[k].size \in Nat
  BY BlockNumbers
<1> HIDE DEF D
<1>4. Pool(M, D, F, nx)
  BY Zenon, <1>2 DEF Pool, Files, OffFiles
<1>5. OffFiles(M, D, E[id].off, E[id].cap)
  BY Zenon, <1>2 DEF Pool, Files, OffFiles
<1>6. OffBlocks(F, E[id].off, E[id].cap)
  BY Zenon, <1>1, <1>3 DEF OffBlocks, OffFiles, Apart, Pool
<1>7. E[id].cap # 0 => In(nx, E[id].off, E[id].cap)
  BY DEF Pool, Files
<1>8. Pool(M, D, free_data(F, E[id].off, E[id].cap), nx)
  BY <1>1, <1>4, <1>5, <1>6, <1>7, FreeKeeps
<1> QED
  BY <1>8 DEF D

(***************************************************************************)
(* What each call does to the pool.  A file-system value is a record with  *)
(* these fields, which the EXCEPTs of the calls rely on.                   *)
(***************************************************************************)
Fields == {"tree", "nextId", "ext", "free", "next", "cell"}

IsFs(s) == s = [f \in Fields |-> s[f]]

PoolOf(s) ==
    /\ Pool(Live(s), s.ext, s.free, s.next)
    /\ s.cell \in [1 .. DATA_POOL_SIZE - 1 -> Byte]

\* The four ways write_file ends for a file that exists.
Emptied(s, t, id) ==
    /\ t.ext = [s.ext EXCEPT ![id] = NoExtent]
    /\ t.free = free_data(s.free, s.ext[id].off, s.ext[id].cap)
    /\ t.next = s.next /\ t.cell = s.cell

InPlace(s, t, id, data, len) ==
    /\ Fits(s.ext[id], len)
    /\ t.ext = [s.ext EXCEPT ![id].size = len]
    /\ t.free = s.free /\ t.next = s.next
    /\ t.cell = Stored(s.cell, s.ext[id].off, data, len)

NoRoom(s, t, id, len) ==
    /\ ~ Fits(s.ext[id], len) /\ alloc_data(s, len).off = 0
    /\ t.ext = s.ext /\ t.free = s.free /\ t.cell = s.cell
    /\ t.next = alloc_data(s, len).next

Moved(s, t, id, data, len) ==
    LET a == alloc_data(s, len)
    IN  /\ ~ Fits(s.ext[id], len) /\ a.off # 0
        /\ t.ext = [s.ext EXCEPT ![id] = [off |-> a.off, size |-> len, cap |-> len]]
        /\ t.free = free_data(a.free, s.ext[id].off, s.ext[id].cap)
        /\ t.next = a.next
        /\ t.cell = Stored(s.cell, a.off, data, len)

LEMMA WriteEnds ==
    ASSUME NEW s, IsFs(s), NEW id \in Live(s), NEW data, NEW t, t = write_file(s, id, data)
    PROVE  /\ IsFs(t) /\ t.tree = s.tree /\ t.nextId = s.nextId
           /\ \/ WriteLen(data) = 0 /\ Emptied(s, t, id)
              \/ WriteLen(data) # 0 /\ InPlace(s, t, id, data, WriteLen(data))
              \/ WriteLen(data) # 0 /\ NoRoom(s, t, id, WriteLen(data))
              \/ WriteLen(data) # 0 /\ Moved(s, t, id, data, WriteLen(data))
<1> DEFINE len == WriteLen(data)
           old == s.ext[id]
           a   == alloc_data(s, len)
<1> HIDE DEF len, a
<1>1. CASE len = 0
  <2>1. t = [s EXCEPT !.ext[id] = NoExtent, !.free = free_data(@, old.off, old.cap)]
    BY <1>1 DEF write_file, len
  <2>2. IsFs(t) /\ t.tree = s.tree /\ t.nextId = s.nextId /\ Emptied(s, t, id)
    BY Zenon, <2>1 DEF IsFs, Fields, Emptied
  <2> QED
    BY <1>1, <2>2 DEF len
<1>2. CASE len # 0 /\ Fits(old, len)
  <2>1. t = [s EXCEPT !.ext[id].size = len, !.cell = Stored(@, old.off, data, len)]
    BY <1>2 DEF write_file, len
  <2>2. IsFs(t) /\ t.tree = s.tree /\ t.nextId = s.nextId /\ InPlace(s, t, id, data, len)
    BY Zenon, <1>2, <2>1 DEF IsFs, Fields, InPlace
  <2> QED
    BY <1>2, <2>2 DEF len
<1>3. CASE len # 0 /\ ~ Fits(old, len) /\ a.off = 0
  <2>1. t = [s EXCEPT !.next = a.next]
    BY <1>3 DEF write_file, len, a
  <2>2. IsFs(t) /\ t.tree = s.tree /\ t.nextId = s.nextId /\ NoRoom(s, t, id, len)
    BY <1>3, <2>1 DEF IsFs, Fields, NoRoom, a
  <2> QED
    BY Zenon, <1>3, <2>2 DEF len
<1>4. CASE len # 0 /\ ~ Fits(old, len) /\ a.off # 0
  <2>1. t = [s EXCEPT !.ext[id] = [off |-> a.off, size |-> len, cap |-> len],
                      !.free = free_data(a.free, old.off, old.cap),
                      !.next = a.next,
                      !.cell = Stored(@, a.off, data, len)]
    BY <1>4 DEF write_file, len, a
  <2>2. IsFs(t) /\ t.tree = s.tree /\ t.nextId = s.nextId
    BY Zenon, <2>1 DEF IsFs, Fields
  <2>3. Moved(s, t, id, data, len)
    BY Zenon, <1>4, <2>1 DEF IsFs, Fields, Moved, a
  <2> QED
    BY <1>4, <2>2, <2>3 DEF len
<1> QED
  BY Zenon, <1>1, <1>2, <1>3, <1>4

LEMMA StoredTyped ==
    ASSUME NEW cell \in [1 .. DATA_POOL_SIZE - 1 -> Byte], NEW off \in Nat, NEW data \in Seq(Byte),
           NEW len \in Nat, len <= Len(data)
    PROVE  /\ Stored(cell, off, data, len) \in [1 .. DATA_POOL_SIZE - 1 -> Byte]
           /\ \A o \in 1 .. DATA_POOL_SIZE - 1 :
                 Stored(cell, off, data, len)[o] =
                     IF off <= o /\ o < off + len THEN data[o - off + 1] ELSE cell[o]
<1>1. DOMAIN cell = 1 .. DATA_POOL_SIZE - 1
  OBVIOUS
<1>2. \A o \in 1 .. DATA_POOL_SIZE - 1 : off <= o /\ o < off + len => data[o - off + 1] \in Byte
  <2> SUFFICES ASSUME NEW o \in 1 .. DATA_POOL_SIZE - 1, off <= o, o < off + len
               PROVE  data[o - off + 1] \in Byte
    OBVIOUS
  <2>1. Len(data) \in Nat
    OBVIOUS
  <2>2. o - off + 1 \in 1 .. Len(data)
    BY <2>1, RamFsSizes
  <2> QED
    BY <2>2
<1> QED
  BY <1>1, <1>2 DEF Stored

LEMMA WriteLenOK ==
    ASSUME NEW data \in Seq(Byte)
    PROVE  WriteLen(data) \in Nat /\ WriteLen(data) <= Len(data)
BY RamFsSizes DEF WriteLen

\* A write keeps the regions apart, whichever way it ends.
LEMMA WriteKeepsPool ==
    ASSUME NEW s, IsFs(s), PoolOf(s), NEW id \in Live(s), NEW data \in Seq(Byte),
           NEW t, t = write_file(s, id, data)
    PROVE  PoolOf(t)
<1> DEFINE len == WriteLen(data)
           e == s.ext[id]
<1>1. len \in Nat /\ len <= Len(data)
  BY WriteLenOK
<1>2. /\ s.ext \in [Live(s) -> Extent] /\ e \in Extent
      /\ e.off \in Nat /\ e.size \in Nat /\ e.cap \in Nat
  BY Zenon DEF PoolOf, Pool, Files, Extent
<1>3. Live(t) = Live(s)
  BY WriteEnds DEF Live
<1> HIDE DEF len
<1>4. CASE Emptied(s, t, id)
  <2>1. NoExtent \in Extent /\ NoExtent.off = 0 /\ NoExtent.cap = 0 /\ NoExtent.size = 0
    BY DEF NoExtent, Extent
  <2>2. OffFiles(Live(s), s.ext, 0, 0) /\ OffBlocks(s.free, 0, 0)
    BY Zenon, NothingIsApart DEF PoolOf
  <2>3. /\ Pool(Live(s), t.ext, s.free, s.next)
        /\ e.cap # 0 => In(s.next, e.off, e.cap)
        /\ OffFiles(Live(s), t.ext, e.off, e.cap)
        /\ OffBlocks(s.free, e.off, e.cap)
    BY <1>4, <2>1, <2>2, ReplaceKeeps DEF PoolOf, Emptied
  <2>4. Pool(Live(s), t.ext, t.free, s.next)
    BY <1>2, <1>4, <2>3, FreeKeeps DEF Emptied
  <2> QED
    BY Zenon, <1>3, <1>4, <2>4 DEF PoolOf, Emptied
<1>5. CASE InPlace(s, t, id, data, len)
  <2>1. t.ext = [s.ext EXCEPT ![id].size = len] /\ len <= e.cap
    BY <1>2, <1>5 DEF InPlace, Fits
  <2>2. /\ t.ext \in [Live(s) -> Extent]
        /\ t.ext[id] = [e EXCEPT !.size = len]
        /\ \A i \in Live(s) : i # id => t.ext[i] = s.ext[i]
    BY SMTT(30), <1>1, <1>2, <2>1 DEF Extent
  <2>3. t.ext[id].off = e.off /\ t.ext[id].cap = e.cap /\ t.ext[id].size = len
    BY <2>2, <1>2 DEF Extent
  <2>4. \A i \in Live(s) : /\ t.ext[i].off = s.ext[i].off /\ t.ext[i].cap = s.ext[i].cap
                            /\ t.ext[i].size <= t.ext[i].cap
    BY Zenon, <2>1, <2>2, <2>3 DEF PoolOf, Pool, Files
  <2>5. Files(Live(s), t.ext, s.next)
    BY Zenon, <2>2, <2>4 DEF PoolOf, Pool, Files
  <2>6. Pool(Live(s), t.ext, s.free, s.next)
    BY Zenon, <2>4, <2>5 DEF PoolOf, Pool, OffFiles
  <2>7. t.cell \in [1 .. DATA_POOL_SIZE - 1 -> Byte]
    BY <1>1, <1>2, <1>5, StoredTyped DEF InPlace, PoolOf
  <2> QED
    BY <1>3, <1>5, <2>6, <2>7 DEF PoolOf, InPlace
<1>6. CASE len # 0 /\ NoRoom(s, t, id, len)
  <2>1. Pool(Live(s), s.ext, s.free, t.next)
    BY Zenon, <1>1, <1>6, AllocGrants DEF NoRoom, PoolOf
  <2> QED
    BY Zenon, <1>3, <1>6, <2>1 DEF PoolOf, NoRoom
<1>7. CASE len # 0 /\ Moved(s, t, id, data, len)
  <2> DEFINE a == alloc_data(s, len)
             new == [off |-> a.off, size |-> len, cap |-> len]
  <2>1. Granted(Live(s), s.ext, a.free, a.next, a.off, len)
    BY Zenon, <1>1, <1>7, AllocGrants DEF Moved, PoolOf
  <2>2. new \in Extent /\ new.off = a.off /\ new.size = len /\ new.cap = len
    BY Zenon, <1>1, <2>1 DEF Granted, Extent
  <2> HIDE DEF a, new
  <2>3. t.ext = [s.ext EXCEPT ![id] = new]
    BY Zenon, <1>7 DEF Moved, new, a
  <2>4. /\ Pool(Live(s), t.ext, a.free, a.next)
        /\ e.cap # 0 => In(a.next, e.off, e.cap)
        /\ OffFiles(Live(s), t.ext, e.off, e.cap)
        /\ OffBlocks(a.free, e.off, e.cap)
    BY <1>1, <1>7, <2>1, <2>2, <2>3, ReplaceKeeps DEF Granted
  <2>5. Pool(Live(s), t.ext, free_data(a.free, e.off, e.cap), a.next)
    BY Zenon, <1>2, <2>4, FreeKeeps
  <2>6. t.cell \in [1 .. DATA_POOL_SIZE - 1 -> Byte]
    BY <1>1, <1>7, <2>1, StoredTyped DEF Moved, PoolOf, Granted, a
  <2> QED
    BY Zenon, <1>3, <1>7, <2>5, <2>6 DEF PoolOf, Moved, a
<1> QED
  BY <1>4, <1>5, <1>6, <1>7, WriteEnds DEF len

(***************************************************************************)
(* What a write does to what the files read                                *)
(***************************************************************************)
\* Bytes stored in a region are not those of a file that is apart from it.
LEMMA StoredElsewhere ==
    ASSUME NEW s, PoolOf(s), NEW t, NEW j \in Live(s), j \in Live(t), t.ext[j] = s.ext[j],
           NEW off \in Nat, NEW data \in Seq(Byte), NEW len \in Nat, len <= Len(data),
           t.cell = Stored(s.cell, off, data, len),
           Apart(s.ext[j].off, s.ext[j].cap, off, len)
    PROVE  read_file(t, j) = read_file(s, j)
<1> DEFINE e == s.ext[j]
<1>1. e.off \in Nat /\ e.size \in Nat /\ e.cap \in Nat /\ e.size <= e.cap
      /\ (e.cap # 0 => e.off > 0 /\ e.off + e.cap <= DATA_POOL_SIZE)
  BY Zenon DEF PoolOf, Pool, Files, Extent, In
<1>3. Apart(e.off, e.cap, off, len)
  OBVIOUS
<1> HIDE DEF e
<1>2. ASSUME NEW i \in 1 .. e.size, e.off # 0
      PROVE  t.cell[e.off + i - 1] = s.cell[e.off + i - 1]
  <2>1. e.off + i - 1 \in 1 .. DATA_POOL_SIZE - 1
    BY SMTT(30), <1>1, <1>2, RamFsSizes
  <2>2. ~ (off <= e.off + i - 1 /\ e.off + i - 1 < off + len)
    BY <1>1, <1>3 DEF Apart
  <2>3. s.cell \in [1 .. DATA_POOL_SIZE - 1 -> Byte]
    BY Zenon DEF PoolOf
  <2> QED
    BY <2>1, <2>2, <2>3, StoredTyped
<1> QED
  BY Zenon, <1>2 DEF read_file, e

LEMMA SameBytes ==
    ASSUME NEW s, NEW t, NEW j \in Live(s), j \in Live(t), t.ext[j] = s.ext[j], t.cell = s.cell
    PROVE  read_file(t, j) = read_file(s, j)
BY Zenon DEF read_file

LEMMA WriteSparesOthers ==
    ASSUME NEW s, IsFs(s), PoolOf(s), NEW id \in Live(s), NEW data \in Seq(Byte),
           NEW t, t = write_file(s, id, data), NEW j \in Live(s), j # id
    PROVE  read_file(t, j) = read_file(s, j)
<1> DEFINE len == WriteLen(data)
           e == s.ext[id]
<1>1. len \in Nat /\ len <= Len(data)
  BY WriteLenOK
<1>2. /\ s.ext \in [Live(s) -> Extent] /\ e \in Extent
      /\ \A i \in Live(s) : s.ext[i].off \in Nat /\ s.ext[i].size \in Nat /\ s.ext[i].cap \in Nat
  BY Zenon DEF PoolOf, Pool, Files, Extent
<1>3. Live(t) = Live(s)
  BY WriteEnds DEF Live
<1> HIDE DEF len
<1>4. CASE Emptied(s, t, id) \/ NoRoom(s, t, id, len)
  BY Zenon, <1>2, <1>3, <1>4, SameBytes DEF Emptied, NoRoom
<1>5. CASE InPlace(s, t, id, data, len)
  <2>1. t.ext[j] = s.ext[j] /\ len <= e.cap /\ t.cell = Stored(s.cell, e.off, data, len)
    BY Zenon, <1>1, <1>2, <1>5 DEF InPlace, Fits
  <2>2. Apart(s.ext[j].off, s.ext[j].cap, e.off, e.cap)
    BY Zenon DEF PoolOf, Pool, Files
  <2>3. Apart(s.ext[j].off, s.ext[j].cap, e.off, len)
    BY Zenon, <1>1, <1>2, <2>1, <2>2, ApartFromParts
  <2> QED
    BY Zenon, <1>1, <1>2, <1>3, <2>1, <2>3, StoredElsewhere
<1>6. CASE len # 0 /\ Moved(s, t, id, data, len)
  <2> DEFINE a == alloc_data(s, len)
  <2>1. Granted(Live(s), s.ext, a.free, a.next, a.off, len)
    BY Zenon, <1>1, <1>6, AllocGrants DEF Moved, PoolOf
  <2> HIDE DEF a
  <2>2. a.off \in Nat /\ Apart(s.ext[j].off, s.ext[j].cap, a.off, len)
    BY <2>1 DEF Granted, OffFiles
  <2>3. t.ext[j] = s.ext[j] /\ t.cell = Stored(s.cell, a.off, data, len)
    BY Zenon, <1>2, <1>6 DEF Moved, a
  <2> QED
    BY Zenon, <1>1, <1>3, <2>2, <2>3, StoredElsewhere
<1> QED
  BY Zenon, <1>4, <1>5, <1>6, WriteEnds DEF len

\* What was stored is read back.
LEMMA StoredIsRead ==
    ASSUME NEW t, NEW cell \in [1 .. DATA_POOL_SIZE - 1 -> Byte], NEW id \in Live(t),
           NEW data \in Seq(Byte), NEW len \in Nat \ {0}, len <= Len(data),
           NEW off \in Nat \ {0}, off + len <= DATA_POOL_SIZE,
           t.ext[id].off = off, t.ext[id].size = len, t.cell = Stored(cell, off, data, len)
    PROVE  read_file(t, id) = SubSeq(data, 1, len)
<1>1. read_file(t, id) = [i \in 1 .. len |-> t.cell[off + i - 1]]
  BY Zenon DEF read_file
<1>2. ASSUME NEW i \in 1 .. len PROVE t.cell[off + i - 1] = data[i]
  <2>1. off + i - 1 \in 1 .. DATA_POOL_SIZE - 1
    BY RamFsSizes
  <2>2. off <= off + i - 1 /\ off + i - 1 < off + len /\ off + i - 1 - off + 1 = i
    OBVIOUS
  <2> QED
    BY <2>1, <2>2, StoredTyped
<1>3. SubSeq(data, 1, len) = [i \in 1 .. len |-> data[i]]
  OBVIOUS
<1> QED
  BY Zenon, <1>1, <1>2, <1>3

LEMMA WriteAllOrNothing ==
    ASSUME NEW s, IsFs(s), PoolOf(s), NEW id \in Live(s), NEW data \in Seq(Byte),
           NEW t, t = write_file(s, id, data)
    PROVE  read_file(t, id) = IF written(s, id, data) = 0 /\ WriteLen(data) > 0
                              THEN read_file(s, id)
                              ELSE SubSeq(data, 1, WriteLen(data))
<1> DEFINE len == WriteLen(data)
           e == s.ext[id]
           a == alloc_data(s, len)
<1>1. len \in Nat /\ len <= Len(data)
  BY WriteLenOK
<1>2. /\ s.ext \in [Live(s) -> Extent] /\ e \in Extent
      /\ e.off \in Nat /\ e.size \in Nat /\ e.cap \in Nat
      /\ (e.cap # 0 => e.off > 0 /\ e.off + e.cap <= DATA_POOL_SIZE)
  BY Zenon DEF PoolOf, Pool, Files, Extent, In
<1>3. Live(t) = Live(s)
  BY Zenon, WriteEnds DEF Live
<1>4. written(s, id, data) = IF Fits(e, len) \/ a.off # 0 THEN len ELSE 0
  BY DEF written
<1>5. s.cell \in [1 .. DATA_POOL_SIZE - 1 -> Byte]
  BY Zenon DEF PoolOf
<1> HIDE DEF len, a
<1>6. CASE len = 0 /\ Emptied(s, t, id)
  <2>1. t.ext[id] = NoExtent
    BY Zenon, <1>2, <1>6 DEF Emptied
  <2>2. read_file(t, id) = <<>>
    BY <2>1 DEF read_file, NoExtent
  <2>3. SubSeq(data, 1, len) = <<>>
    BY <1>6, NoPart
  <2> QED
    BY <1>6, <2>2, <2>3 DEF len
<1>7. CASE len # 0 /\ InPlace(s, t, id, data, len)
  <2>1. t.ext[id] = [e EXCEPT !.size = len] /\ len <= e.cap /\ Fits(e, len)
        /\ t.cell = Stored(s.cell, e.off, data, len)
    BY <1>1, <1>2, <1>7 DEF InPlace, Fits
  <2>2. t.ext[id].off = e.off /\ t.ext[id].size = len
    BY <2>1, <1>2 DEF Extent
  <2>5. len <= e.cap
    BY <2>1
  <2>6. e.off \in Nat /\ e.cap \in Nat /\ (e.cap # 0 => e.off > 0 /\ e.off + e.cap <= DATA_POOL_SIZE)
    BY Zenon, <1>2
  <2>3. e.off \in Nat \ {0} /\ e.off + len <= DATA_POOL_SIZE
    <3> HIDE DEF e
    <3> QED
      BY <1>1, <1>7, <2>5, <2>6, RamFsSizes
  <2>7. len \in Nat \ {0} /\ t.cell = Stored(s.cell, e.off, data, len)
    BY <1>1, <1>7, <2>1
  <2>4. read_file(t, id) = SubSeq(data, 1, len)
    <3> HIDE DEF e
    <3> QED
      BY <1>1, <1>3, <1>5, <2>2, <2>3, <2>7, StoredIsRead
  <2> QED
    BY Zenon, <1>4, <1>7, <2>1, <2>4 DEF len
<1>8. CASE len # 0 /\ NoRoom(s, t, id, len)
  <2>1. read_file(t, id) = read_file(s, id)
    BY Zenon, <1>3, <1>8, SameBytes DEF NoRoom
  <2>2. written(s, id, data) = 0
    BY Zenon, <1>4, <1>8 DEF NoRoom, a
  <2> QED
    BY <1>1, <1>8, <2>1, <2>2 DEF len
<1>9. CASE len # 0 /\ Moved(s, t, id, data, len)
  <2>1. Granted(Live(s), s.ext, a.free, a.next, a.off, len) /\ a.off # 0
    BY Zenon, <1>1, <1>9, AllocGrants DEF Moved, PoolOf, a
  <2>2. a.off \in Nat \ {0} /\ a.off + len <= DATA_POOL_SIZE
    BY Zenon, <2>1 DEF Granted, In
  <2>3. /\ t.ext[id] = [off |-> a.off, size |-> len, cap |-> len]
        /\ t.cell = Stored(s.cell, a.off, data, len)
    BY Zenon, <1>2, <1>9 DEF Moved, a
  <2>4. read_file(t, id) = SubSeq(data, 1, len)
    <3>1. t.ext[id].off = a.off /\ t.ext[id].size = len /\ len \in Nat \ {0}
      BY <1>1, <1>9, <2>3
    <3> QED
      BY <1>1, <1>3, <1>5, <2>2, <2>3, <3>1, StoredIsRead
  <2> QED
    BY Zenon, <1>4, <1>9, <2>1, <2>4 DEF len
<1> QED
  BY Zenon, <1>6, <1>7, <1>8, <1>9, WriteEnds DEF len

(***************************************************************************)
(* The tree.  TreeOK alone is not inductive: a removal keeps it because a  *)
(* file has no children, and a new vnode because nothing yet names its id. *)
(***************************************************************************)
TreeTyped(T, nx) ==
    /\ nx \in Nat /\ nx >= 2
    /\ DOMAIN T \subseteq 1 .. nx - 1
    /\ T \in [DOMAIN T -> Node]
    /\ \A d \in DOMAIN T : T[d].parent < nx
    /\ \A d \in DOMAIN T : T[d].vtype = "File" => T[d].kids = <<>>
    /\ ROOT_ID \in DOMAIN T => T[ROOT_ID].parent = 0

Listed(T) ==
    \A d \in DOMAIN T : \A i \in 1 .. Len(T[d].kids) :
        /\ T[d].kids[i] \in DOMAIN T /\ T[d].kids[i] # ROOT_ID
        /\ T[T[d].kids[i]].parent = d

NamesDiffer(T) ==
    \A d \in DOMAIN T : \A i, j \in 1 .. Len(T[d].kids) :
        T[T[d].kids[i]].name = T[T[d].kids[j]].name => i = j

Reached(T) ==
    \A d \in DOMAIN T :
        d # ROOT_ID /\ T[d].parent \in DOMAIN T =>
            \E i \in 1 .. Len(T[T[d].parent].kids) : T[T[d].parent].kids[i] = d

Tree(T, nx) ==
    /\ TreeTyped(T, nx) /\ Listed(T) /\ NamesDiffer(T) /\ Reached(T)
    /\ \A d \in DOMAIN T : Len(T[d].kids) <= MAX_CHILDREN

LEMMA NodeFields ==
    ASSUME NEW T, NEW nx, Tree(T, nx), NEW d \in DOMAIN T
    PROVE  /\ d \in Nat /\ d > 0 /\ d < nx
           /\ T[d] \in Node /\ T[d].parent \in Nat /\ T[d].kids \in Seq(Nat)
           /\ Len(T[d].kids) \in Nat /\ DOMAIN T[d].kids = 1 .. Len(T[d].kids)
<1>1. d \in Nat /\ d > 0 /\ d < nx /\ T[d] \in Node
  BY DEF Tree, TreeTyped
<1>2. T[d].parent \in Nat /\ T[d].kids \in Seq(Nat)
  BY Zenon, <1>1 DEF Node
<1> QED
  BY <1>1, <1>2

\* lookup finds the child of that name, if there is one.
LEMMA LookupFinds ==
    ASSUME NEW s, Tree(s.tree, s.nextId), NEW p, NEW n
    PROVE  /\ p \notin Live(s) => lookup(s, p, n) = 0
           /\ p \in Live(s) =>
                /\ lookup(s, p, n) # 0 => \E i \in 1 .. Len(s.tree[p].kids) :
                       /\ s.tree[p].kids[i] = lookup(s, p, n)
                       /\ s.tree[lookup(s, p, n)].name = n
                /\ lookup(s, p, n) = 0 =>
                       \A i \in 1 .. Len(s.tree[p].kids) : s.tree[s.tree[p].kids[i]].name # n
<1> DEFINE T == s.tree
           kids == T[p].kids
           hits == {i \in DOMAIN kids : kids[i] \in Live(s) /\ T[kids[i]].name = n}
           r == lookup(s, p, n)
<1>1. r = IF p \in Live(s) /\ hits # {} THEN kids[Least(hits)] ELSE 0
  BY Zenon DEF lookup
<1>2. p \notin Live(s) => r = 0
  BY Zenon, <1>1
<1>3. ASSUME p \in Live(s)
      PROVE  /\ r # 0 => \E i \in 1 .. Len(kids) : kids[i] = r /\ T[r].name = n
             /\ r = 0 => \A i \in 1 .. Len(kids) : T[kids[i]].name # n
  <2>1. DOMAIN kids = 1 .. Len(kids)
    BY Zenon, <1>3, NodeFields DEF Live
  <2>2. \A i \in 1 .. Len(kids) : kids[i] \in Live(s)
    BY Zenon, <1>3 DEF Tree, Listed, Live
  <2>3. CASE hits = {}
    BY Zenon, <1>1, <2>1, <2>2, <2>3
  <2>4. CASE hits # {}
    <3>1. hits \in SUBSET Nat
      BY <2>1
    <3>2. Least(hits) \in hits
      BY Zenon, <2>4, <3>1, LeastFound
    <3>3. PICK i : i = Least(hits)
      BY Zenon
    <3>4. i \in 1 .. Len(kids) /\ T[kids[i]].name = n /\ r = kids[i]
      BY Zenon, <1>1, <1>3, <2>1, <2>4, <3>2, <3>3
    <3>5. kids[i] # 0
      BY <2>2, <3>4, NodeFields DEF Live
    <3> QED
      BY Zenon, <3>4, <3>5
  <2> QED
    BY Zenon, <2>3, <2>4
<1> QED
  BY Zenon, <1>2, <1>3

CanLink(T, nx, p, name, vt) ==
    /\ p \in 1 .. nx - 1 /\ name \in Name /\ vt \in VnodeType
    /\ p \in DOMAIN T => /\ T[p].vtype = "Dir" /\ Len(T[p].kids) < MAX_CHILDREN
                         /\ \A i \in 1 .. Len(T[p].kids) : T[T[p].kids[i]].name # name

Linked(T, U, nx) ==
    /\ DOMAIN U = DOMAIN T \cup {nx} /\ Tree(U, nx + 1)
    /\ \A d \in DOMAIN T : U[d].parent = T[d].parent

LinkedTree(T, nx, p, name, vt) ==
    link_child([i \in DOMAIN T \cup {nx} |-> IF i = nx THEN Vnode(vt, name, p) ELSE T[i]], p, nx)

\* A new vnode, listed by its directory if that still exists.
LEMMA CreateKeepsTree ==
    ASSUME NEW T, NEW nx, Tree(T, nx), NEW p, NEW name, NEW vt, CanLink(T, nx, p, name, vt),
           NEW U, U = LinkedTree(T, nx, p, name, vt)
    PROVE  Linked(T, U, nx)
<1> USE DEF CanLink
<1> DEFINE L == DOMAIN T
           V == [i \in L \cup {nx} |-> IF i = nx THEN Vnode(vt, name, p) ELSE T[i]]
           new == Vnode(vt, name, p)
<1>1. nx \in Nat /\ nx >= 2 /\ nx \notin L /\ p # nx /\ p \in Nat /\ L \subseteq 1 .. nx - 1
  BY DEF Tree, TreeTyped
<1>2. new \in Node /\ new.name = name /\ new.parent = p /\ new.kids = <<>> /\ new.vtype = vt
  BY <1>1 DEF Vnode, Node
<1>3. /\ DOMAIN V = L \cup {nx} /\ V[nx] = new /\ \A d \in L : V[d] = T[d]
  BY Zenon, <1>1
<1> HIDE DEF new, V
<1>4. /\ DOMAIN U = L \cup {nx} /\ U[nx] = new
      /\ \A d \in L : d # p => U[d] = T[d]
      /\ p \in L => U[p] = [T[p] EXCEPT !.kids = Append(T[p].kids, nx)]
  <2>1. U = IF p \in DOMAIN V /\ Len(V[p].kids) < MAX_CHILDREN
            THEN [V EXCEPT ![p].kids = Append(@, nx)] ELSE V
    BY Zenon DEF LinkedTree, link_child, V, new
  <2>2. CASE p \in L
    <3>1. U = [V EXCEPT ![p].kids = Append(@, nx)]
      BY Zenon, <1>3, <2>1, <2>2
    <3>2. DOMAIN U = DOMAIN V /\ U[p] = [V[p] EXCEPT !.kids = Append(V[p].kids, nx)]
          /\ \A d \in DOMAIN V : d # p => U[d] = V[d]
      BY Zenon, <1>3, <2>2, <3>1
    <3> QED
      BY Zenon, <1>1, <1>3, <2>2, <3>2
  <2>3. CASE p \notin L
    <3>1. U = V
      BY Zenon, <1>1, <1>3, <2>1, <2>3
    <3> QED
      BY <1>3, <2>3, <3>1
  <2> QED
    BY Zenon, <2>2, <2>3
<1>13. \A d \in L : /\ U[d].parent = T[d].parent /\ U[d].name = T[d].name /\ U[d].vtype = T[d].vtype
                    /\ d # p => U[d].kids = T[d].kids
                    /\ U[d] \in Node
  <2>1. \A d \in L : T[d] \in Node
    BY Zenon DEF Tree, TreeTyped
  <2>2. p \in L => T[p].kids \in Seq(Nat)
    BY Zenon, <2>1 DEF Node
  <2>3. p \in L => Append(T[p].kids, nx) \in Seq(Nat)
    BY <1>1, <2>2
  <2>4. ASSUME p \in L
        PROVE  /\ U[p].parent = T[p].parent /\ U[p].name = T[p].name /\ U[p].vtype = T[p].vtype
               /\ U[p] \in Node
    BY Zenon, <1>4, <2>1, <2>3, <2>4 DEF Node
  <2> QED
    BY Zenon, <1>4, <2>1, <2>4
<1>5. /\ \A d \in L : U[d].parent = T[d].parent
      /\ \A d \in L : U[d].name = T[d].name
      /\ \A d \in L : U[d].vtype = T[d].vtype
      /\ \A d \in L : d # p => U[d].kids = T[d].kids
  BY Zenon, <1>13
<1>14. U[nx].parent = p /\ U[nx].name = name /\ U[nx].kids = <<>> /\ DOMAIN U = L \cup {nx}
  BY Zenon, <1>2, <1>4
<1>15. \A d \in L : d \in Nat /\ d < nx /\ T[d].parent < nx /\ T[d].parent \in Nat
  BY Zenon, NodeFields DEF Tree, TreeTyped
<1>6. ASSUME p \in L
      PROVE  /\ Len(U[p].kids) = Len(T[p].kids) + 1
             /\ \A i \in 1 .. Len(T[p].kids) : U[p].kids[i] = T[p].kids[i]
             /\ U[p].kids[Len(T[p].kids) + 1] = nx
             /\ Len(T[p].kids) \in Nat
  <2>1. T[p].kids \in Seq(Nat) /\ T[p] \in Node /\ Len(T[p].kids) \in Nat
    BY Zenon, <1>6, NodeFields
  <2>2. U[p].kids = Append(T[p].kids, nx)
    BY <1>4, <1>6, <2>1 DEF Node
  <2>3. PICK K : K = T[p].kids
    BY Zenon
  <2>4. K \in Seq(Nat) /\ U[p].kids = Append(K, nx) /\ nx \in Nat
    BY Zenon, <1>1, <2>1, <2>2, <2>3
  <2>5. /\ Len(Append(K, nx)) = Len(K) + 1
        /\ \A i \in 1 .. Len(K) : Append(K, nx)[i] = K[i]
        /\ Append(K, nx)[Len(K) + 1] = nx
    BY <2>4, Appended
  <2> QED
    BY Zenon, <2>1, <2>3, <2>4, <2>5
<1>7. ASSUME NEW d \in L \cup {nx}, NEW i \in 1 .. Len(U[d].kids)
      PROVE  \/ d \in L /\ i \in 1 .. Len(T[d].kids) /\ U[d].kids[i] = T[d].kids[i]
             \/ d = p /\ p \in L /\ i = Len(T[p].kids) + 1 /\ U[d].kids[i] = nx
  <2>1. CASE d = nx
    BY <1>2, <1>4, <1>7, <2>1
  <2>2. CASE d \in L /\ d # p
    BY Zenon, <1>5, <1>7, <2>2
  <2>3. CASE d \in L /\ d = p
    <3>1. p \in L /\ i \in 1 .. Len(U[p].kids)
      BY Zenon, <2>3
    <3>2. PICK n : n = Len(T[p].kids)
      BY Zenon
    <3>3. n \in Nat /\ Len(U[p].kids) = n + 1 /\ U[p].kids[n + 1] = nx
          /\ \A k \in 1 .. n : U[p].kids[k] = T[p].kids[k]
      BY Zenon, <1>6, <3>1, <3>2
    <3>4. i \in 1 .. n \/ i = n + 1
      BY <3>1, <3>3
    <3> QED
      BY Zenon, <2>3, <3>2, <3>3, <3>4
  <2> QED
    BY Zenon, <2>1, <2>2, <2>3
<1>8. TreeTyped(U, nx + 1)
  <2>1. DOMAIN U \subseteq 1 .. nx
    BY <1>1, <1>4
  <2>2. \A d \in L \cup {nx} : U[d] \in Node
    BY <1>2, <1>4, <1>13
  <2>3. U \in [DOMAIN U -> Node]
    <3>1. U = [d \in DOMAIN U |-> U[d]]
      BY Zenon, <1>3 DEF LinkedTree, link_child, V, new
    <3> QED
      BY Zenon, <1>4, <2>2, <3>1
  <2>4. \A d \in DOMAIN U : U[d].parent < nx + 1
    <3>1. \A d \in L : U[d].parent < nx + 1
      <4> SUFFICES ASSUME NEW d \in L PROVE U[d].parent < nx + 1
        BY Zenon
      <4>1. PICK q \in Nat : q = T[d].parent /\ q < nx
        BY Zenon, <1>15
      <4>2. q < nx + 1
        BY <1>1, <4>1
      <4> QED
        BY Zenon, <1>5, <4>1, <4>2
    <3>2. U[nx].parent < nx + 1
      BY <1>1, <1>14
    <3> QED
      BY Zenon, <1>14, <3>1, <3>2
  <2>5. \A d \in DOMAIN U : U[d].vtype = "File" => U[d].kids = <<>>
    <3>1. \A d \in L : T[d].vtype = "File" => T[d].kids = <<>>
      BY Zenon DEF Tree, TreeTyped
    <3>2. p \in L => U[p].vtype # "File"
      BY Zenon, <1>5
    <3>3. \A d \in L : d # p => (U[d].vtype = "File" => U[d].kids = <<>>)
      BY Zenon, <1>5, <3>1
    <3> QED
      BY Zenon, <1>14, <3>2, <3>3
  <2>6. ROOT_ID \in DOMAIN U => U[ROOT_ID].parent = 0
    <3>1. ROOT_ID # nx
      BY <1>1 DEF ROOT_ID
    <3>2. ROOT_ID \in L => T[ROOT_ID].parent = 0
      BY Zenon DEF Tree, TreeTyped
    <3> QED
      BY Zenon, <1>5, <1>14, <3>1, <3>2
  <2>7. nx + 1 \in Nat /\ nx + 1 >= 2
    BY <1>1
  <2>8. PICK m : m = nx + 1
    BY Zenon
  <2>9. m \in Nat /\ m >= 2 /\ DOMAIN U \subseteq 1 .. m - 1 /\ \A d \in DOMAIN U : U[d].parent < m
    <3>1. m \in Nat /\ m >= 2 /\ m - 1 = nx
      BY <1>1, <2>8
    <3>2. DOMAIN U \subseteq 1 .. m - 1
      BY Zenon, <2>1, <3>1
    <3>3. \A d \in DOMAIN U : U[d].parent < m
      BY Zenon, <2>4, <2>8
    <3> QED
      BY Zenon, <3>1, <3>2, <3>3
  <2>10. TreeTyped(U, m)
    BY <2>3, <2>5, <2>6, <2>9, Zenon DEF TreeTyped
  <2> QED
    BY Zenon, <2>8, <2>10
<1>9. Listed(U)
  <2> SUFFICES ASSUME NEW d \in L \cup {nx}, NEW i \in 1 .. Len(U[d].kids)
               PROVE  /\ U[d].kids[i] \in L \cup {nx} /\ U[d].kids[i] # ROOT_ID
                      /\ U[U[d].kids[i]].parent = d
    BY <1>4 DEF Listed
  <2>1. CASE d \in L /\ i \in 1 .. Len(T[d].kids) /\ U[d].kids[i] = T[d].kids[i]
    <3>1. PICK k : k = T[d].kids[i]
      BY Zenon
    <3>2. k \in L /\ k # ROOT_ID /\ T[k].parent = d
      BY Zenon, <2>1, <3>1 DEF Tree, Listed
    <3> QED
      BY Zenon, <1>5, <2>1, <3>1, <3>2
  <2>2. CASE d = p /\ U[d].kids[i] = nx
    <3>1. ROOT_ID # nx
      BY <1>1 DEF ROOT_ID
    <3> QED
      BY Zenon, <1>14, <2>2, <3>1
  <2> QED
    BY Zenon, <1>7, <2>1, <2>2
<1>10. NamesDiffer(U)
  <2> SUFFICES ASSUME NEW d \in L \cup {nx}, NEW i \in 1 .. Len(U[d].kids),
                      NEW j \in 1 .. Len(U[d].kids),
                      U[U[d].kids[i]].name = U[U[d].kids[j]].name
               PROVE  i = j
    BY Zenon, <1>4 DEF NamesDiffer
  <2>1. ASSUME NEW m \in 1 .. Len(T[d].kids), d \in L
        PROVE  U[T[d].kids[m]].name = T[T[d].kids[m]].name
    <3>1. T[d].kids[m] \in L
      BY Zenon, <2>1 DEF Tree, Listed
    <3> QED
      BY Zenon, <1>5, <3>1
  <2>2. CASE /\ d \in L /\ i \in 1 .. Len(T[d].kids) /\ U[d].kids[i] = T[d].kids[i]
             /\ j \in 1 .. Len(T[d].kids) /\ U[d].kids[j] = T[d].kids[j]
    <3>1. T[T[d].kids[i]].name = T[T[d].kids[j]].name
      BY Zenon, <2>1, <2>2
    <3> QED
      BY Zenon, <2>2, <3>1 DEF Tree, NamesDiffer
  <2>3. CASE /\ d \in L /\ i \in 1 .. Len(T[d].kids) /\ U[d].kids[i] = T[d].kids[i]
             /\ d = p /\ U[d].kids[j] = nx
    <3>1. T[T[p].kids[i]].name = name
      BY Zenon, <1>14, <2>1, <2>3
    <3> QED
      BY Zenon, <2>3, <3>1
  <2>4. CASE /\ d \in L /\ j \in 1 .. Len(T[d].kids) /\ U[d].kids[j] = T[d].kids[j]
             /\ d = p /\ U[d].kids[i] = nx
    <3>1. T[T[p].kids[j]].name = name
      BY Zenon, <1>14, <2>1, <2>4
    <3> QED
      BY Zenon, <2>4, <3>1
  <2> QED
    BY Zenon, <1>7, <2>2, <2>3, <2>4
<1>11. Reached(U)
  <2> SUFFICES ASSUME NEW d \in L \cup {nx}, d # ROOT_ID, U[d].parent \in L \cup {nx}
               PROVE  \E i \in 1 .. Len(U[U[d].parent].kids) : U[U[d].parent].kids[i] = d
    BY Zenon, <1>4 DEF Reached
  <2>1. CASE d = nx
    <3>1. U[d].parent = p /\ p \in L
      BY Zenon, <1>1, <1>2, <1>4, <2>1
    <3>2. Len(T[p].kids) + 1 \in 1 .. Len(U[p].kids)
      BY <1>6, <3>1
    <3> QED
      BY Zenon, <1>6, <2>1, <3>1, <3>2
  <2>2. CASE d \in L
    <3>1. PICK q : q = T[d].parent
      BY Zenon
    <3>2. U[d].parent = q /\ q \in L
      <4>1. q < nx /\ q \in Nat
        BY Zenon, <1>15, <2>2, <3>1
      <4>2. q # nx
        BY <1>1, <4>1
      <4>3. U[d].parent = q
        BY Zenon, <1>5, <2>2, <3>1
      <4> QED
        BY Zenon, <4>2, <4>3
    <3>3. PICK i \in 1 .. Len(T[q].kids) : T[q].kids[i] = d
      BY Zenon, <2>2, <3>1, <3>2 DEF Tree, Reached
    <3>4. i \in 1 .. Len(U[q].kids) /\ U[q].kids[i] = d
      <4>1. CASE q = p
        <5>1. PICK n : n = Len(T[p].kids)
          BY Zenon
        <5>2. n \in Nat /\ Len(U[p].kids) = n + 1 /\ \A k \in 1 .. n : U[p].kids[k] = T[p].kids[k]
          BY Zenon, <1>6, <3>2, <4>1, <5>1
        <5>3. i \in 1 .. n /\ i \in 1 .. n + 1
          BY <3>3, <4>1, <5>1, <5>2
        <5> QED
          BY Zenon, <3>3, <4>1, <5>2, <5>3
      <4>2. CASE q # p
        BY Zenon, <1>5, <3>2, <3>3, <4>2
      <4> QED
        BY Zenon, <4>1, <4>2
    <3> QED
      BY Zenon, <3>2, <3>4
  <2> QED
    BY Zenon, <2>1, <2>2
<1>12. \A d \in L \cup {nx} : Len(U[d].kids) <= MAX_CHILDREN
  <2>1. Len(new.kids) = 0
    BY <1>2
  <2>2. p \in L => Len(U[p].kids) <= MAX_CHILDREN
    BY <1>6, RamFsSizes
  <2>3. \A d \in L : d # p => Len(U[d].kids) <= MAX_CHILDREN
    BY Zenon, <1>5 DEF Tree
  <2>4. Len(U[nx].kids) <= MAX_CHILDREN
    BY <1>4, <2>1, RamFsSizes
  <2> QED
    BY Zenon, <2>2, <2>3, <2>4
<1> QED
  BY Zenon, <1>5, <1>14, <1>8, <1>9, <1>10, <1>11, <1>12 DEF Tree, Linked

LEMMA SameLength ==
    ASSUME NEW a \in Nat, NEW b \in Nat, 1 .. a = 1 .. b
    PROVE  a = b
<1>1. b # 0 => b \in 1 .. b
  OBVIOUS
<1>2. a # 0 => a \in 1 .. a
  OBVIOUS
<1>3. a # 0 => a \in 1 .. b
  BY <1>2
<1>4. b # 0 => b \in 1 .. a
  BY <1>1
<1> QED
  BY <1>3, <1>4

\* The list without its at-th entry holds all the others, each once.
LEMMA WithoutShifts ==
    ASSUME NEW K \in Seq(Nat), NEW at \in 1 .. Len(K)
    PROVE  /\ Without(K, at) \in Seq(Nat)
           /\ Len(Without(K, at)) = Len(K) - 1
           /\ \A j \in 1 .. Len(K) - 1 : \E k \in 1 .. Len(K) :
                  k # at /\ Without(K, at)[j] = K[k] /\ k = IF j < at THEN j ELSE j + 1
           /\ \A k \in 1 .. Len(K) : k # at => \E j \in 1 .. Len(K) - 1 : Without(K, at)[j] = K[k]
<1> DEFINE n == Len(K) - 1
           W == Without(K, at)
<1>1. n \in Nat /\ Len(K) = n + 1 /\ at \in 1 .. n + 1
  OBVIOUS
<1>2. W = [j \in 1 .. n |-> IF j < at THEN K[j] ELSE K[j + 1]]
  BY DEF Without
<1>3. \A j \in 1 .. n : W[j] = K[IF j < at THEN j ELSE j + 1]
  BY Zenon, <1>2
<1> HIDE DEF W
<1>4. ASSUME NEW j \in 1 .. n
      PROVE  \E k \in 1 .. Len(K) : k # at /\ W[j] = K[k] /\ k = IF j < at THEN j ELSE j + 1
  <2>1. PICK k : k = IF j < at THEN j ELSE j + 1
    OBVIOUS
  <2>2. k \in 1 .. Len(K) /\ k # at
    BY <1>1, <2>1
  <2> QED
    BY Zenon, <1>3, <2>1, <2>2
<1>5. ASSUME NEW k \in 1 .. Len(K), k # at PROVE \E j \in 1 .. n : W[j] = K[k]
  <2>1. PICK j : j = IF k < at THEN k ELSE k - 1
    OBVIOUS
  <2>2. j \in 1 .. n /\ (IF j < at THEN j ELSE j + 1) = k
    BY <1>1, <1>5, <2>1
  <2> QED
    BY Zenon, <1>3, <2>2
<1>6. \A j \in 1 .. n : W[j] \in Nat
  <2>1. \A k \in 1 .. Len(K) : K[k] \in Nat
    OBVIOUS
  <2> QED
    BY Zenon, <1>4, <2>1
<1>7. W \in [1 .. n -> Nat]
  BY Zenon, <1>2, <1>6
<1>8. W \in Seq(Nat) /\ Len(W) = n
  <2>1. W \in UNION {[1 .. m -> Nat] : m \in Nat}
    BY Zenon, <1>1, <1>7
  <2>2. W \in Seq(Nat)
    BY <2>1, SeqIs, Zenon
  <2>3. DOMAIN W = 1 .. n /\ DOMAIN W = 1 .. Len(W) /\ Len(W) \in Nat
    BY <1>7, <2>2, SeqFunction
  <2>4. Len(W) = n
    <3> HIDE DEF n
    <3> QED
      BY <1>1, <2>3, SameLength
  <2> QED
    BY <2>2, <2>4
<1> QED
  BY Zenon, <1>4, <1>5, <1>8 DEF W

CanDrop(T, p, at, id) ==
    p \in DOMAIN T /\ at \in 1 .. Len(T[p].kids) /\ id = T[p].kids[at] /\ T[id].kids = <<>>

Dropped(T, U, nx, id) ==
    /\ Tree(U, nx) /\ DOMAIN U = DOMAIN T \ {id}
    /\ \A d \in DOMAIN T \ {id} : U[d].parent = T[d].parent

UnlinkedTree(T, p, at, id) ==
    [i \in DOMAIN T \ {id} |-> [T EXCEPT ![p].kids = Without(T[p].kids, at)][i]]

CanRename(T, p, at, id, name) ==
    /\ p \in DOMAIN T /\ at \in 1 .. Len(T[p].kids) /\ id = T[p].kids[at] /\ name \in Name
    /\ \A i \in 1 .. Len(T[p].kids) : T[T[p].kids[i]].name = name => T[p].kids[i] = id

Renamed(T, U, nx) ==
    /\ Tree(U, nx) /\ DOMAIN U = DOMAIN T
    /\ \A d \in DOMAIN T : U[d].parent = T[d].parent

RenamedTree(T, id, name) == [T EXCEPT ![id].name = name]

LEMMA PlaceIsInt == \A n : \A i \in 1 .. n : i \in Int
  OBVIOUS

\* Two places behind one that is taken out are the same when they were.
LEMMA SkipsAlike ==
  \A a, i, j \in Int : (IF i < a THEN i ELSE i + 1) = (IF j < a THEN j ELSE j + 1) => i = j
  OBVIOUS

\* A vnode without children leaves the list of its directory.
LEMMA UnlinkKeepsTree ==
    ASSUME NEW T, NEW nx, Tree(T, nx), NEW p, NEW at, NEW id, CanDrop(T, p, at, id),
           NEW U, U = UnlinkedTree(T, p, at, id)
    PROVE  Dropped(T, U, nx, id)
<1> USE DEF CanDrop
<1> DEFINE L == DOMAIN T
           K == T[p].kids
           W == Without(K, at)
<1>1. id \in L /\ id # ROOT_ID /\ T[id].parent = p
  BY Zenon DEF Tree, Listed
<1>2. K \in Seq(Nat) /\ T[p] \in Node /\ Len(K) \in Nat
  BY Zenon, NodeFields
<1>3. id # p
  <2>1. Len(K) # 0
    BY <1>2
  <2> QED
    BY <2>1
<1>4. /\ W \in Seq(Nat) /\ Len(W) = Len(K) - 1
      /\ \A j \in 1 .. Len(K) - 1 : \E k \in 1 .. Len(K) :
             k # at /\ W[j] = K[k] /\ k = IF j < at THEN j ELSE j + 1
      /\ \A k \in 1 .. Len(K) : k # at => \E j \in 1 .. Len(K) - 1 : W[j] = K[k]
  BY Zenon, <1>2, WithoutShifts
<1> HIDE DEF W
<1>5. \A d \in L : T[d] \in Node
  BY Zenon, NodeFields
<1>6. /\ DOMAIN U = L \ {id}
      /\ U[p] = [T[p] EXCEPT !.kids = W]
      /\ \A d \in L \ {id} : d # p => U[d] = T[d]
      /\ U = [d \in L \ {id} |-> U[d]]
  BY Zenon, <1>3, <1>5 DEF W, UnlinkedTree
<1>16. DOMAIN U = L \ {id}
  BY Zenon, <1>6
<1>7. /\ U[p].kids = W /\ U[p].parent = T[p].parent /\ U[p].name = T[p].name
      /\ U[p].vtype = T[p].vtype /\ U[p] \in Node
  <2>1. PICK n \in Node : n = T[p]
    BY Zenon, <1>2
  <2>2. U[p] = [n EXCEPT !.kids = W] /\ W \in Seq(Nat)
    BY Zenon, <1>4, <1>6, <2>1
  <2> QED
    BY Zenon, <2>1, <2>2 DEF Node
<1>8. /\ \A d \in L \ {id} : U[d].parent = T[d].parent
      /\ \A d \in L \ {id} : U[d].name = T[d].name
      /\ \A d \in L \ {id} : U[d].vtype = T[d].vtype
      /\ \A d \in L \ {id} : d # p => U[d].kids = T[d].kids
      /\ \A d \in L \ {id} : U[d] \in Node
  BY Zenon, <1>5, <1>6, <1>7
<1>9. TreeTyped(U, nx)
  <2>1. U \in [DOMAIN U -> Node]
    BY Zenon, <1>6, <1>8
  <2>2. \A d \in DOMAIN U : U[d].parent < nx
    BY Zenon, <1>8, <1>16 DEF Tree, TreeTyped
  <2>3. T[p].vtype # "File"
    <3>1. K # <<>>
      BY <1>2
    <3> QED
      BY Zenon, <3>1 DEF Tree, TreeTyped
  <2>4. \A d \in DOMAIN U : U[d].vtype = "File" => U[d].kids = <<>>
    <3>1. \A d \in L : T[d].vtype = "File" => T[d].kids = <<>>
      BY Zenon DEF Tree, TreeTyped
    <3>2. U[p].vtype # "File"
      BY Zenon, <1>7, <2>3
    <3>3. \A d \in L \ {id} : d # p => (U[d].vtype = "File" => U[d].kids = <<>>)
      BY Zenon, <1>8, <3>1
    <3> QED
      BY Zenon, <1>16, <3>2, <3>3
  <2>5. ROOT_ID \in DOMAIN U => U[ROOT_ID].parent = 0
    BY Zenon, <1>8, <1>16 DEF Tree, TreeTyped
  <2>6. nx \in Nat /\ nx >= 2 /\ DOMAIN U \subseteq 1 .. nx - 1
    BY Zenon, <1>16 DEF Tree, TreeTyped
  <2> QED
    BY <2>1, <2>2, <2>4, <2>5, <2>6, Zenon DEF TreeTyped
<1>10. ASSUME NEW d \in L \ {id}, NEW i \in 1 .. Len(U[d].kids)
       PROVE  \E k \in 1 .. Len(T[d].kids) :
                  /\ U[d].kids[i] = T[d].kids[k]
                  /\ d = p => k # at /\ k = IF i < at THEN i ELSE i + 1
                  /\ d # p => k = i
  <2>1. CASE d = p
    <3>1. i \in 1 .. Len(K) - 1
      BY Zenon, <1>4, <1>7, <2>1
    <3>2. PICK k \in 1 .. Len(K) : k # at /\ W[i] = K[k] /\ k = IF i < at THEN i ELSE i + 1
      BY Zenon, <1>4, <3>1
    <3> QED
      BY Zenon, <1>7, <2>1, <3>2
  <2>2. CASE d # p
    BY Zenon, <1>8, <2>2
  <2> QED
    BY Zenon, <2>1, <2>2
<1>11. ASSUME NEW d \in L, NEW k \in 1 .. Len(T[d].kids), T[d].kids[k] = id
       PROVE  d = p /\ k = at
  <2>1. d = p
    BY Zenon, <1>1, <1>11 DEF Tree, Listed
  <2>2. T[T[p].kids[k]].name = T[T[p].kids[at]].name
    BY Zenon, <1>11, <2>1
  <2> QED
    BY Zenon, <2>1, <2>2 DEF Tree, NamesDiffer
<1>12. Listed(U)
  <2> HIDE DEF CanDrop
  <2> SUFFICES ASSUME NEW d \in L \ {id}, NEW i \in 1 .. Len(U[d].kids)
               PROVE  /\ U[d].kids[i] \in L \ {id} /\ U[d].kids[i] # ROOT_ID
                      /\ U[U[d].kids[i]].parent = d
    BY <1>16 DEF Listed
  <2>1. PICK k \in 1 .. Len(T[d].kids) : U[d].kids[i] = T[d].kids[k] /\ (d = p => k # at)
    BY Zenon, <1>10
  <2>2. T[d].kids[k] # id
    BY Zenon, <1>11, <2>1
  <2>3. T[d].kids[k] \in L /\ T[d].kids[k] # ROOT_ID /\ T[T[d].kids[k]].parent = d
    BY Zenon DEF Tree, Listed
  <2> QED
    BY Zenon, <1>8, <2>1, <2>2, <2>3
<1>13. NamesDiffer(U)
  <2> SUFFICES ASSUME NEW d \in L \ {id}, NEW i \in 1 .. Len(U[d].kids),
                      NEW j \in 1 .. Len(U[d].kids),
                      U[U[d].kids[i]].name = U[U[d].kids[j]].name
               PROVE  i = j
    BY Zenon, <1>16 DEF NamesDiffer
  <2>1. PICK k \in 1 .. Len(T[d].kids) :
            /\ U[d].kids[i] = T[d].kids[k]
            /\ d = p => k # at /\ k = IF i < at THEN i ELSE i + 1
            /\ d # p => k = i
    BY Zenon, <1>10
  <2>2. PICK l \in 1 .. Len(T[d].kids) :
            /\ U[d].kids[j] = T[d].kids[l]
            /\ d = p => l # at /\ l = IF j < at THEN j ELSE j + 1
            /\ d # p => l = j
    BY Zenon, <1>10
  <2>3. T[d].kids[k] \in L \ {id} /\ T[d].kids[l] \in L \ {id}
    BY Zenon, <1>11, <2>1, <2>2 DEF Tree, Listed
  <2>4. T[T[d].kids[k]].name = T[T[d].kids[l]].name
    <3>1. U[T[d].kids[k]].name = U[T[d].kids[l]].name
      BY Zenon, <2>1, <2>2
    <3>2. /\ U[T[d].kids[k]].name = T[T[d].kids[k]].name
          /\ U[T[d].kids[l]].name = T[T[d].kids[l]].name
      BY Zenon, <1>8, <2>3
    <3> QED
      BY Zenon, <3>1, <3>2
  <2>5. k = l
    BY Zenon, <2>4 DEF Tree, NamesDiffer
  <2>6. CASE d = p
    <3>1. i \in Int /\ j \in Int /\ at \in Int
      BY Zenon, PlaceIsInt
    <3>2. (IF i < at THEN i ELSE i + 1) = (IF j < at THEN j ELSE j + 1)
      BY Zenon, <2>1, <2>2, <2>5, <2>6
    <3> QED
      BY Zenon, <3>1, <3>2, SkipsAlike
  <2> QED
    BY Zenon, <2>1, <2>2, <2>5, <2>6
<1>14. Reached(U)
  <2> SUFFICES ASSUME NEW d \in L \ {id}, d # ROOT_ID, U[d].parent \in L \ {id}
               PROVE  \E i \in 1 .. Len(U[U[d].parent].kids) : U[U[d].parent].kids[i] = d
    BY Zenon, <1>16 DEF Reached
  <2>5. PICK q \in L \ {id} : q = U[d].parent
    BY Zenon
  <2>1. q = T[d].parent
    BY Zenon, <1>8, <2>5
  <2>2. PICK k \in 1 .. Len(T[q].kids) : T[q].kids[k] = d
    BY Zenon, <2>1 DEF Tree, Reached
  <2>3. CASE q = p
    <3>1. k # at
      BY Zenon, <2>2, <2>3
    <3>2. PICK j \in 1 .. Len(K) - 1 : W[j] = K[k]
      BY Zenon, <1>4, <2>2, <2>3, <3>1
    <3>3. j \in 1 .. Len(U[p].kids) /\ U[p].kids[j] = d
      BY Zenon, <1>4, <1>7, <2>2, <2>3, <3>2
    <3> QED
      BY Zenon, <2>3, <2>5, <3>3
  <2>4. CASE q # p
    <3>1. U[q].kids = T[q].kids
      BY Zenon, <1>8, <2>4
    <3>2. k \in 1 .. Len(U[q].kids) /\ U[q].kids[k] = d
      BY Zenon, <2>2, <3>1
    <3> QED
      BY Zenon, <2>5, <3>2
  <2> QED
    BY Zenon, <2>3, <2>4
<1>15. \A d \in L \ {id} : Len(U[d].kids) <= MAX_CHILDREN
  <2>1. Len(W) <= MAX_CHILDREN
    BY <1>2, <1>4, RamFsSizes DEF Tree
  <2> QED
    BY Zenon, <1>7, <1>8, <2>1 DEF Tree
<1> QED
  BY Zenon, <1>1, <1>16, <1>8, <1>9, <1>12, <1>13, <1>14, <1>15 DEF Tree, Dropped

\* A new name that no other child of the directory has.
LEMMA RenameKeepsTree ==
    ASSUME NEW T, NEW nx, Tree(T, nx), NEW p, NEW at, NEW id, NEW name,
           CanRename(T, p, at, id, name), NEW U, U = RenamedTree(T, id, name)
    PROVE  Renamed(T, U, nx)
<1> USE DEF CanRename
<1> DEFINE L == DOMAIN T
<1>1. id \in L /\ T[id].parent = p /\ T[id] \in Node
  BY Zenon, NodeFields DEF Tree, Listed
<1>2. \A d \in L : T[d] \in Node
  BY Zenon, NodeFields
<1>3. /\ DOMAIN U = L /\ U = [d \in L |-> U[d]]
      /\ U[id] = [T[id] EXCEPT !.name = name]
      /\ \A d \in L : d # id => U[d] = T[d]
  BY Zenon, <1>1 DEF RenamedTree
<1>9. DOMAIN U = L
  BY Zenon, <1>3
<1>4. U[id].name = name /\ U[id].parent = T[id].parent /\ U[id].kids = T[id].kids
      /\ U[id].vtype = T[id].vtype /\ U[id] \in Node
  BY Zenon, <1>1, <1>3 DEF Node
<1>5. /\ \A d \in L : U[d].parent = T[d].parent
      /\ \A d \in L : U[d].kids = T[d].kids
      /\ \A d \in L : U[d].vtype = T[d].vtype
      /\ \A d \in L : U[d] \in Node
      /\ \A d \in L : d # id => U[d].name = T[d].name
  BY Zenon, <1>2, <1>3, <1>4
<1>6. TreeTyped(U, nx)
  <2>1. U \in [DOMAIN U -> Node]
    BY Zenon, <1>3, <1>5
  <2>2. /\ \A d \in DOMAIN U : U[d].parent < nx
        /\ \A d \in DOMAIN U : U[d].vtype = "File" => U[d].kids = <<>>
        /\ ROOT_ID \in DOMAIN U => U[ROOT_ID].parent = 0
    BY Zenon, <1>9, <1>5 DEF Tree, TreeTyped
  <2>3. nx \in Nat /\ nx >= 2 /\ DOMAIN U \subseteq 1 .. nx - 1
    BY Zenon, <1>9 DEF Tree, TreeTyped
  <2> QED
    BY <2>1, <2>2, <2>3, Zenon DEF TreeTyped
<1>7. Listed(U) /\ Reached(U) /\ \A d \in DOMAIN U : Len(U[d].kids) <= MAX_CHILDREN
  <2>1. Listed(U)
    <3> SUFFICES ASSUME NEW d \in L, NEW i \in 1 .. Len(T[d].kids)
                 PROVE  /\ T[d].kids[i] \in L /\ T[d].kids[i] # ROOT_ID
                        /\ U[T[d].kids[i]].parent = d
      BY <1>5, <1>9 DEF Listed
    <3>1. T[d].kids[i] \in L /\ T[d].kids[i] # ROOT_ID /\ T[T[d].kids[i]].parent = d
      BY Zenon DEF Tree, Listed
    <3> QED
      BY Zenon, <1>5, <3>1
  <2>2. Reached(U)
    <3> HIDE DEF CanRename
    <3> SUFFICES ASSUME NEW d \in L, d # ROOT_ID, NEW q \in L, q = T[d].parent
                 PROVE  \E i \in 1 .. Len(U[q].kids) : U[q].kids[i] = d
      BY <1>5, <1>9 DEF Reached
    <3>1. \E i \in 1 .. Len(T[q].kids) : T[q].kids[i] = d
      BY Zenon DEF Tree, Reached
    <3> QED
      BY Zenon, <1>5, <3>1
  <2>3. \A d \in DOMAIN U : Len(U[d].kids) <= MAX_CHILDREN
    BY Zenon, <1>5, <1>9 DEF Tree
  <2> QED
    BY Zenon, <2>1, <2>2, <2>3
<1>8. NamesDiffer(U)
  <2> SUFFICES ASSUME NEW d \in L, NEW i \in 1 .. Len(U[d].kids), NEW j \in 1 .. Len(U[d].kids),
                      U[U[d].kids[i]].name = U[U[d].kids[j]].name
               PROVE  i = j
    BY Zenon, <1>9 DEF NamesDiffer
  <2>6. /\ i \in 1 .. Len(T[d].kids) /\ j \in 1 .. Len(T[d].kids)
        /\ U[T[d].kids[i]].name = U[T[d].kids[j]].name
    BY Zenon, <1>5
  <2>1. T[d].kids[i] \in L /\ T[d].kids[j] \in L
        /\ T[T[d].kids[i]].parent = d /\ T[T[d].kids[j]].parent = d
    BY Zenon, <2>6 DEF Tree, Listed
  <2>2. ASSUME T[d].kids[i] = T[d].kids[j] PROVE i = j
    BY Zenon, <2>2, <2>6 DEF Tree, NamesDiffer
  <2>3. CASE T[d].kids[i] # id /\ T[d].kids[j] # id
    <3>1. U[T[d].kids[i]].name = T[T[d].kids[i]].name /\ U[T[d].kids[j]].name = T[T[d].kids[j]].name
      BY Zenon, <1>5, <2>1, <2>3
    <3>2. T[T[d].kids[i]].name = T[T[d].kids[j]].name
      BY Zenon, <2>6, <3>1
    <3> QED
      BY Zenon, <2>6, <3>2 DEF Tree, NamesDiffer
  <2>4. CASE T[d].kids[i] = id
    <3>1. d = p
      BY Zenon, <1>1, <2>1, <2>4
    <3>2. T[d].kids[j] # id => T[T[d].kids[j]].name = name
      BY Zenon, <1>4, <1>5, <2>1, <2>4, <2>6
    <3> QED
      BY Zenon, <2>2, <2>4, <2>6, <3>1, <3>2
  <2>5. CASE T[d].kids[j] = id
    <3>1. d = p
      BY Zenon, <1>1, <2>1, <2>5
    <3>2. T[d].kids[i] # id => T[T[d].kids[i]].name = name
      BY Zenon, <1>4, <1>5, <2>1, <2>5, <2>6
    <3> QED
      BY Zenon, <2>2, <2>5, <2>6, <3>1, <3>2
  <2> QED
    BY Zenon, <2>3, <2>4, <2>5
<1> QED
  BY Zenon, <1>9, <1>5, <1>6, <1>7, <1>8 DEF Tree, Renamed

(***************************************************************************)
(* The inductive invariant, and what each call does to it: a vnode that    *)
(* lives in s and in t has its parent (SameParents), its bytes (SameReads).*)
(***************************************************************************)
Sound(s) == IsFs(s) /\ PoolOf(s) /\ Tree(s.tree, s.nextId)

SameParents(s, t) == \A i \in Live(s) \cap Live(t) : get_parent(t, i) = get_parent(s, i)

SameReads(s, t) == \A i \in Live(s) \cap Live(t) : read_file(t, i) = read_file(s, i)

LEMMA CreateIsSound ==
    ASSUME NEW s, Sound(s), NEW p \in 1 .. s.nextId - 1, p \in Live(s) => is_dir(s, p),
           NEW name \in Name, NEW vt \in VnodeType, NEW t, t = create_node(s, p, name, vt)
    PROVE  Sound(t) /\ SameReads(s, t) /\ SameParents(s, t) /\ Live(s) \subseteq Live(t)
<1>1. CASE ~ may_create(s, p, name)
  <2>1. t = s
    BY <1>1 DEF create_node
  <2> QED
    BY <2>1 DEF SameReads, SameParents
<1>2. CASE may_create(s, p, name) /\ Cardinality(Live(s)) >= MAX_VNODES
  <2>1. t = [s EXCEPT !.nextId = @ + 1]
    BY <1>2 DEF create_node
  <2>2. /\ IsFs(t) /\ t.tree = s.tree /\ t.nextId = s.nextId + 1
        /\ t.ext = s.ext /\ t.free = s.free /\ t.next = s.next /\ t.cell = s.cell
    BY <2>1 DEF Sound, IsFs, Fields
  <2>3. Live(t) = Live(s)
    BY Zenon, <2>2 DEF Live
  <2>4. PoolOf(t)
    BY Zenon, <2>2, <2>3 DEF Sound, PoolOf
  <2>5. Tree(s.tree, s.nextId + 1)
    <3>1. PICK T, nx : T = s.tree /\ nx = s.nextId
      OBVIOUS
    <3>2. Tree(T, nx)
      BY <3>1 DEF Sound
    <3>3. nx \in Nat /\ nx >= 2 /\ DOMAIN T \subseteq 1 .. nx - 1
      BY <3>2 DEF Tree, TreeTyped
    <3>5. \A d \in DOMAIN T : T[d].parent < nx + 1
      <4> SUFFICES ASSUME NEW d \in DOMAIN T PROVE T[d].parent < nx + 1
        BY Zenon
      <4>1. PICK q \in Nat : q = T[d].parent
        BY Zenon, <3>2, NodeFields
      <4>2. q < nx
        BY Zenon, <3>2, <4>1 DEF Tree, TreeTyped
      <4>3. q < nx + 1
        BY <3>3, <4>2
      <4> QED
        BY Zenon, <4>1, <4>3
    <3>6. PICK m : m = nx + 1
      OBVIOUS
    <3>7. m \in Nat /\ m >= 2 /\ m - 1 = nx
      BY <3>3, <3>6
    <3>9. DOMAIN T \subseteq 1 .. m - 1
      <4>1. 1 .. nx - 1 \subseteq 1 .. nx
        BY <3>3
      <4> QED
        BY Zenon, <3>3, <3>7, <4>1
    <3>10. \A d \in DOMAIN T : T[d].parent < m
      BY <3>5, <3>6, Zenon
    <3>8. Tree(T, m)
      BY <3>2, <3>7, <3>9, <3>10, Zenon DEF Tree, TreeTyped
    <3> QED
      BY <3>1, <3>6, <3>8
  <2>6. SameReads(s, t)
    BY Zenon, <2>2, <2>3, SameBytes DEF SameReads
  <2>7. SameParents(s, t)
    BY Zenon, <2>2, <2>3 DEF SameParents, get_parent
  <2> QED
    BY Zenon, <2>2, <2>3, <2>4, <2>5, <2>6, <2>7 DEF Sound
<1>3. CASE may_create(s, p, name) /\ ~ (Cardinality(Live(s)) >= MAX_VNODES)
  <2> DEFINE T == s.tree
             id == s.nextId
             ids == Live(s) \cup {id}
             U == link_child([i \in ids |-> IF i = id THEN Vnode(vt, name, p) ELSE T[i]], p, id)
             D == [i \in ids |-> IF i = id THEN NoExtent ELSE s.ext[i]]
  <2>1. t = [s EXCEPT !.nextId = @ + 1, !.tree = U, !.ext = D]
    BY <1>3 DEF create_node, alloc_id
  <2> HIDE DEF U, D
  <2>2. /\ IsFs(t) /\ t.tree = U /\ t.nextId = id + 1
        /\ t.ext = D /\ t.free = s.free /\ t.next = s.next /\ t.cell = s.cell
    BY Zenon, <2>1 DEF Sound, IsFs, Fields
  <2>3. Tree(T, id) /\ Live(s) = DOMAIN T
    BY Zenon DEF Sound, Live
  <2>4. p \in DOMAIN T => /\ T[p].vtype = "Dir" /\ Len(T[p].kids) < MAX_CHILDREN
                          /\ \A i \in 1 .. Len(T[p].kids) : T[T[p].kids[i]].name # name
    <3> SUFFICES ASSUME p \in DOMAIN T
                 PROVE  /\ T[p].vtype = "Dir" /\ Len(T[p].kids) < MAX_CHILDREN
                        /\ \A i \in 1 .. Len(T[p].kids) : T[T[p].kids[i]].name # name
      BY Zenon
    <3>1. lookup(s, p, name) = 0 /\ child_count(s, p) < MAX_CHILDREN
      BY Zenon, <1>3 DEF may_create
    <3>2. Len(T[p].kids) < MAX_CHILDREN /\ T[p].vtype = "Dir"
      BY Zenon, <2>3, <3>1 DEF child_count, is_dir
    <3> QED
      BY <2>3, <3>1, <3>2, LookupFinds
  <2>5. /\ DOMAIN U = DOMAIN T \cup {id} /\ Tree(U, id + 1)
        /\ \A d \in DOMAIN T : U[d].parent = T[d].parent
    <3>1. U = LinkedTree(T, id, p, name, vt)
      BY Zenon, <2>3 DEF U, LinkedTree
    <3>2. CanLink(T, id, p, name, vt) /\ Tree(T, id)
      BY Zenon, <2>3, <2>4 DEF CanLink
    <3> HIDE DEF T, id
    <3> QED
      <4>1. Linked(T, U, id)
        BY Zenon, <3>1, <3>2, CreateKeepsTree
      <4> QED
        BY Zenon, <4>1 DEF Linked
  <2>6. Live(t) = ids /\ id \notin Live(s)
    BY <2>2, <2>3, <2>5 DEF Live, Tree, TreeTyped
  <2>7. Pool(ids, D, s.free, s.next)
    BY Zenon, <2>6, AddKeeps DEF Sound, PoolOf, D
  <2>8. PoolOf(t)
    BY Zenon, <2>2, <2>6, <2>7 DEF PoolOf, Sound
  <2>9. SameReads(s, t)
    <3>1. \A i \in Live(s) : t.ext[i] = s.ext[i]
      BY Zenon, <2>2, <2>6 DEF D
    <3> QED
      BY Zenon, <2>2, <2>6, <3>1, SameBytes DEF SameReads
  <2>10. SameParents(s, t)
    BY Zenon, <2>2, <2>3, <2>5, <2>6 DEF SameParents, get_parent
  <2> QED
    BY Zenon, <2>2, <2>5, <2>6, <2>8, <2>9, <2>10 DEF Sound
<1> QED
  BY Zenon, <1>1, <1>2, <1>3

\* A removal: nothing it leaves behind was below what it takes away.
LEMMA UnlinkIsSound ==
    ASSUME NEW s, Sound(s), NEW p, NEW name, NEW t, t = unlink(s, p, name)
    PROVE  /\ Sound(t) /\ SameReads(s, t) /\ SameParents(s, t) /\ Live(t) \subseteq Live(s)
           /\ \A i \in Live(t) : get_parent(s, i) \in Live(s) => get_parent(s, i) \in Live(t)
<1> DEFINE T == s.tree
           id == lookup(s, p, name)
           e == s.ext[id]
<1>1. CASE ~ may_unlink(s, id)
  <2>1. t = s
    BY <1>1 DEF unlink
  <2> QED
    BY Zenon, <2>1 DEF SameReads, SameParents
<1>2. CASE may_unlink(s, id)
  <2>1. Tree(T, s.nextId) /\ Live(s) = DOMAIN T
    BY DEF Sound, Live
  <2>2. p \in DOMAIN T /\ id # 0 /\ \E i \in 1 .. Len(T[p].kids) : T[p].kids[i] = id
    BY <1>2, <2>1, LookupFinds DEF may_unlink
  <2>3. DOMAIN T[p].kids = 1 .. Len(T[p].kids) /\ Len(T[p].kids) \in Nat
    BY Zenon, <2>1, <2>2, NodeFields
  <2>4. PICK at : at = Least({i \in DOMAIN T[p].kids : T[p].kids[i] = id})
    BY Zenon
  <2>5. at \in 1 .. Len(T[p].kids) /\ T[p].kids[at] = id
    <3>1. PICK S : S = {i \in DOMAIN T[p].kids : T[p].kids[i] = id}
      BY Zenon
    <3>2. S \subseteq Nat /\ S # {}
      BY <2>2, <2>3, <3>1
    <3>3. Least(S) \in S
      BY <3>2, LeastFound
    <3> QED
      BY Zenon, <2>3, <2>4, <3>1, <3>3
  <2>6. id \in DOMAIN T /\ T[id].kids = <<>>
    <3>1. id \in DOMAIN T
      BY Zenon, <2>1, <2>2, <2>5 DEF Tree, Listed
    <3>2. T[id].vtype \in VnodeType /\ T[id].kids \in Seq(Nat) /\ Len(T[id].kids) \in Nat
      BY Zenon, <2>1, <3>1, NodeFields DEF Node
    <3>3. T[id].vtype = "File" => T[id].kids = <<>>
      BY Zenon, <2>1, <3>1 DEF Tree, TreeTyped
    <3>4. T[id].vtype = "Dir" => Len(T[id].kids) = 0
      BY <1>2, <2>1, <3>1, <3>2 DEF may_unlink, is_dir, child_count
    <3>5. Len(T[id].kids) = 0 => T[id].kids = <<>>
      BY Zenon, <3>2, NoItems
    <3> QED
      BY Zenon, <3>1, <3>2, <3>3, <3>4, <3>5 DEF VnodeType
  <2> DEFINE U == UnlinkedTree(T, p, at, id)
             D == [i \in Live(s) \ {id} |-> s.ext[i]]
             F == free_data(s.free, e.off, e.cap)
  <2>7. t = [s EXCEPT !.tree = U, !.ext = D, !.free = F]
    <3>1. unlink_child(s, p, id) = [s EXCEPT !.tree = U, !.ext = D]
      BY <2>1, <2>4 DEF unlink_child, UnlinkedTree
    <3>2. t = [unlink_child(s, p, id) EXCEPT !.free = F]
      BY <1>2 DEF unlink
    <3> HIDE DEF U, D, F
    <3>3. [[s EXCEPT !.tree = U, !.ext = D] EXCEPT !.free = F] = [s EXCEPT !.tree = U, !.ext = D, !.free = F]
      BY DEF Sound, IsFs, Fields
    <3> QED
      BY <3>1, <3>2, <3>3
  <2> HIDE DEF U, D, F
  <2>8. /\ IsFs(t) /\ t.tree = U /\ t.nextId = s.nextId
        /\ t.ext = D /\ t.free = F /\ t.next = s.next /\ t.cell = s.cell
    BY Zenon, <2>7 DEF Sound, IsFs, Fields
  <2>9. Tree(U, s.nextId) /\ DOMAIN U = DOMAIN T \ {id}
        /\ \A d \in DOMAIN T \ {id} : U[d].parent = T[d].parent
    <3>1. CanDrop(T, p, at, id)
      BY Zenon, <2>2, <2>5, <2>6 DEF CanDrop
    <3>2. U = UnlinkedTree(T, p, at, id)
      BY Zenon DEF U
    <3> HIDE DEF T, id
    <3> QED
      <4>1. Dropped(T, U, s.nextId, id)
        BY Zenon, <2>1, <3>1, <3>2, UnlinkKeepsTree
      <4> QED
        BY Zenon, <4>1 DEF Dropped
  <2>10. Live(t) = Live(s) \ {id}
    BY Zenon, <2>1, <2>8, <2>9 DEF Live
  <2>11. PoolOf(t)
    <3>1. Pool(Live(s), s.ext, s.free, s.next) /\ id \in Live(s)
      BY Zenon, <2>1, <2>6 DEF Sound, PoolOf
    <3>2. Pool(Live(s) \ {id}, D, F, s.next)
      BY Zenon, <3>1, DropKeeps DEF D, F
    <3> QED
      BY Zenon, <2>8, <2>10, <3>2 DEF PoolOf, Sound
  <2>12. SameReads(s, t)
    <3>1. \A i \in Live(t) : t.ext[i] = s.ext[i]
      BY Zenon, <2>8, <2>10 DEF D
    <3> QED
      BY Zenon, <2>8, <2>10, <3>1, SameBytes DEF SameReads
  <2>13. SameParents(s, t)
    BY Zenon, <2>1, <2>8, <2>9, <2>10 DEF SameParents, get_parent
  <2>14. ASSUME NEW i \in Live(t), get_parent(s, i) \in Live(s)
         PROVE  get_parent(s, i) \in Live(t)
    <3>1. i \in DOMAIN T /\ get_parent(s, i) = T[i].parent
      BY Zenon, <2>1, <2>10 DEF get_parent
    <3>2. i # ROOT_ID
      <4>1. i = ROOT_ID => T[i].parent = 0
        BY Zenon, <2>1, <3>1 DEF Tree, TreeTyped
      <4>2. 0 \notin DOMAIN T
        BY <2>1 DEF Tree, TreeTyped
      <4> QED
        BY Zenon, <2>1, <2>14, <3>1, <4>1, <4>2
    <3>3. \E k \in 1 .. Len(T[T[i].parent].kids) : T[T[i].parent].kids[k] = i
      BY Zenon, <2>1, <2>14, <3>1, <3>2 DEF Tree, Reached
    <3>4. T[i].parent # id
      BY <2>6, <3>3
    <3> QED
      BY Zenon, <2>10, <2>14, <3>1, <3>4
  <2> QED
    BY Zenon, <2>8, <2>9, <2>10, <2>11, <2>12, <2>13, <2>14 DEF Sound
<1> QED
  BY Zenon, <1>1, <1>2

LEMMA RenameIsSound ==
    ASSUME NEW s, Sound(s), NEW p, NEW old, NEW new, NEW t, t = rename(s, p, old, new)
    PROVE  Sound(t) /\ SameReads(s, t) /\ SameParents(s, t) /\ Live(t) = Live(s)
<1> DEFINE T == s.tree
           id == lookup(s, p, old)
           other == lookup(s, p, new)
<1>1. CASE ~ (new \in Name /\ id # 0 /\ other \in {0, id})
  <2>1. t = s
    BY <1>1 DEF rename
  <2> QED
    BY Zenon, <2>1 DEF SameReads, SameParents
<1>2. CASE new \in Name /\ id # 0 /\ other \in {0, id}
  <2>1. Tree(T, s.nextId) /\ Live(s) = DOMAIN T
    BY DEF Sound, Live
  <2>2. p \in DOMAIN T /\ \E i \in 1 .. Len(T[p].kids) : T[p].kids[i] = id
    BY <1>2, <2>1, LookupFinds
  <2>3. PICK at \in 1 .. Len(T[p].kids) : T[p].kids[at] = id
    BY Zenon, <2>2
  <2>4. ASSUME NEW i \in 1 .. Len(T[p].kids), T[T[p].kids[i]].name = new
        PROVE  T[p].kids[i] = id
    <3>1. other # 0
      BY Zenon, <2>1, <2>2, <2>4, LookupFinds
    <3>2. PICK j \in 1 .. Len(T[p].kids) : T[p].kids[j] = other /\ T[other].name = new
      BY <2>1, <2>2, <3>1, LookupFinds
    <3>3. i = j
      <4>1. T[T[p].kids[i]].name = T[T[p].kids[j]].name
        BY Zenon, <2>4, <3>2
      <4> QED
        BY Zenon, <2>1, <2>2, <4>1 DEF Tree, NamesDiffer
    <3> QED
      BY Zenon, <1>2, <3>1, <3>2, <3>3
  <2> DEFINE U == RenamedTree(T, id, new)
  <2>5. t = [s EXCEPT !.tree = U]
    <3>1. t = [s EXCEPT !.tree[id].name = new]
      BY <1>2 DEF rename
    <3> QED
      BY <3>1 DEF RenamedTree, Sound, IsFs, Fields
  <2> HIDE DEF U
  <2>6. /\ IsFs(t) /\ t.tree = U /\ t.nextId = s.nextId
        /\ t.ext = s.ext /\ t.free = s.free /\ t.next = s.next /\ t.cell = s.cell
    BY <2>5 DEF Sound, IsFs, Fields
  <2>7. Renamed(T, U, s.nextId)
    <3>1. CanRename(T, p, at, id, new)
      BY Zenon, <1>2, <2>2, <2>3, <2>4 DEF CanRename
    <3>2. U = RenamedTree(T, id, new)
      BY DEF U
    <3> HIDE DEF T, id
    <3> QED
      BY Zenon, <2>1, <3>1, <3>2, RenameKeepsTree
  <2>8. Live(t) = Live(s)
    BY Zenon, <2>1, <2>6, <2>7 DEF Live, Renamed
  <2>9. PoolOf(t)
    BY Zenon, <2>6, <2>8 DEF Sound, PoolOf
  <2>10. SameReads(s, t)
    BY Zenon, <2>6, <2>8, SameBytes DEF SameReads
  <2>11. SameParents(s, t)
    BY Zenon, <2>1, <2>6, <2>7, <2>8 DEF SameParents, get_parent, Renamed
  <2> QED
    BY Zenon, <2>6, <2>7, <2>8, <2>9, <2>10, <2>11 DEF Sound, Renamed
<1> QED
  BY Zenon, <1>1, <1>2

LEMMA WriteIsSound ==
    ASSUME NEW s, Sound(s), NEW id, NEW data \in Data, NEW t, t = write_file(s, id, data)
    PROVE  /\ Sound(t) /\ SameParents(s, t) /\ Live(t) = Live(s)
           /\ \A j \in Live(s) : j # id => read_file(t, j) = read_file(s, j)
           /\ id \in Live(s) =>
                 read_file(t, id) = IF written(s, id, data) = 0 /\ WriteLen(data) > 0
                                    THEN read_file(s, id)
                                    ELSE SubSeq(data, 1, WriteLen(data))
<1>1. CASE id \notin Live(s)
  <2>1. t = s
    BY <1>1 DEF write_file
  <2> QED
    BY Zenon, <1>1, <2>1 DEF SameParents
<1>2. CASE id \in Live(s)
  <2>1. data \in Seq(Byte) /\ IsFs(s) /\ PoolOf(s)
    BY RamFsData DEF Sound
  <2>2. IsFs(t) /\ t.tree = s.tree /\ t.nextId = s.nextId
    BY <1>2, <2>1, WriteEnds
  <2>3. Live(t) = Live(s)
    BY Zenon, <2>2 DEF Live
  <2>4. PoolOf(t)
    BY Zenon, <1>2, <2>1, WriteKeepsPool
  <2>5. SameParents(s, t)
    BY Zenon, <2>2, <2>3 DEF SameParents, get_parent
  <2>6. \A j \in Live(s) : j # id => read_file(t, j) = read_file(s, j)
    BY Zenon, <1>2, <2>1, WriteSparesOthers
  <2>7. read_file(t, id) = IF written(s, id, data) = 0 /\ WriteLen(data) > 0
                           THEN read_file(s, id)
                           ELSE SubSeq(data, 1, WriteLen(data))
    BY Zenon, <1>2, <2>1, WriteAllOrNothing
  <2> QED
    BY Zenon, <2>2, <2>3, <2>4, <2>5, <2>6, <2>7 DEF Sound
<1> QED
  BY Zenon, <1>1, <1>2

LEMMA StartIsSound == Init => Sound(fs)
<1> SUFFICES ASSUME Init PROVE Sound(fs)
  OBVIOUS
<1>1. /\ fs.tree = [i \in {ROOT_ID} |-> Vnode("Dir", BadName, 0)] /\ fs.nextId = 2
      /\ fs.ext = [i \in {ROOT_ID} |-> NoExtent] /\ fs.free = <<>> /\ fs.next = 1
      /\ fs.cell = [o \in 1 .. DATA_POOL_SIZE - 1 |-> CHOOSE b \in Byte : TRUE]
      /\ IsFs(fs)
  BY Zenon DEF Init, Empty, IsFs, Fields
<1>2. Live(fs) = {ROOT_ID}
  BY Zenon, <1>1 DEF Live
<1>3. Pool(Live(fs), fs.ext, fs.free, fs.next)
  <2>1. NoExtent \in Extent /\ NoExtent.off = 0 /\ NoExtent.cap = 0 /\ NoExtent.size = 0
    BY Zenon DEF NoExtent, Extent
  <2>2. fs.free \in Seq(Block) /\ Len(fs.free) = 0
    BY <1>1
  <2>3. Files(Live(fs), fs.ext, fs.next)
    BY <1>1, <1>2, <2>1 DEF Files
  <2>4. Blocks(fs.free, fs.next)
    BY <2>2, RamFsSizes DEF Blocks
  <2> QED
    BY <1>1, <2>2, <2>3, <2>4 DEF Pool
<1>4. fs.cell \in [1 .. DATA_POOL_SIZE - 1 -> Byte]
  BY Zenon, <1>1, RamFsData
<1>5. PoolOf(fs)
  BY Zenon, <1>3, <1>4 DEF PoolOf
<1>6. Tree(fs.tree, fs.nextId)
  <2>1. PICK T : T = fs.tree
    OBVIOUS
  <2>2. PICK v : v = Vnode("Dir", BadName, 0)
    OBVIOUS
  <2>3. v \in Node /\ v.parent = 0 /\ v.kids = <<>> /\ v.vtype = "Dir"
    BY <2>2 DEF Vnode, Node, VnodeType
  <2>4. DOMAIN T = {ROOT_ID} /\ T[ROOT_ID] = v /\ T \in [DOMAIN T -> Node]
    BY Zenon, <1>1, <2>1, <2>2, <2>3
  <2>5. Len(v.kids) = 0
    BY <2>3
  <2>6. TreeTyped(T, 2)
    BY <2>3, <2>4 DEF TreeTyped, ROOT_ID
  <2>7. Listed(T) /\ NamesDiffer(T)
    BY <2>4, <2>5 DEF Listed, NamesDiffer
  <2>8. Reached(T) /\ \A d \in DOMAIN T : Len(T[d].kids) <= MAX_CHILDREN
    BY <2>4, <2>5, RamFsSizes DEF Reached
  <2> QED
    BY Zenon, <1>1, <2>1, <2>6, <2>7, <2>8 DEF Tree
<1> QED
  BY Zenon, <1>1, <1>5, <1>6 DEF Sound

\* What one call does to the file system, whichever it is: a file other than
\* the one written keeps its bytes, and nothing is cut off.
Spared(s, t, id) ==
    \A j \in Live(s) \cap Live(t) : j = id \/ read_file(t, j) = read_file(s, j)

KeepsDirectory(s, t) ==
    \A i \in Live(s) \cap Live(t) : get_parent(s, i) \in Live(s) => get_parent(t, i) \in Live(t)

LEMMA StepIsSound ==
    ASSUME Sound(fs), Next
    PROVE  /\ Sound(fs') /\ KeepsDirectory(fs, fs')
           /\ \/ SameReads(fs, fs')
              \/ \E id \in Issued, d \in Data : Write(id, d) /\ Spared(fs, fs', id)
<1>1. ASSUME NEW p \in DirIds, NEW n \in Name, NEW vt \in VnodeType, Create(p, n, vt)
      PROVE  Sound(fs') /\ SameReads(fs, fs') /\ KeepsDirectory(fs, fs')
  <2>1. p \in 1 .. fs.nextId - 1 /\ (p \in Live(fs) => is_dir(fs, p))
    BY Zenon DEF DirIds, Issued
  <2>2. Sound(fs') /\ SameReads(fs, fs') /\ SameParents(fs, fs') /\ Live(fs) \subseteq Live(fs')
    BY Zenon, <1>1, <2>1, CreateIsSound DEF Create
  <2> QED
    BY Zenon, <2>2 DEF KeepsDirectory, SameParents
<1>2. ASSUME NEW id \in Issued, NEW d \in Data, Write(id, d)
      PROVE  Sound(fs') /\ Spared(fs, fs', id) /\ KeepsDirectory(fs, fs')
  <2>1. /\ Sound(fs') /\ SameParents(fs, fs') /\ Live(fs') = Live(fs)
        /\ \A j \in Live(fs) : j # id => read_file(fs', j) = read_file(fs, j)
    BY <1>2, WriteIsSound DEF Write
  <2> QED
    BY Zenon, <2>1 DEF KeepsDirectory, SameParents, Spared
<1>3. ASSUME NEW p \in DirIds, NEW n \in Name, Unlink(p, n)
      PROVE  Sound(fs') /\ SameReads(fs, fs') /\ KeepsDirectory(fs, fs')
  <2>1. /\ Sound(fs') /\ SameReads(fs, fs') /\ SameParents(fs, fs') /\ Live(fs') \subseteq Live(fs)
        /\ \A i \in Live(fs') : get_parent(fs, i) \in Live(fs) => get_parent(fs, i) \in Live(fs')
    BY Zenon, <1>3, UnlinkIsSound DEF Unlink
  <2> QED
    BY Zenon, <2>1 DEF KeepsDirectory, SameParents
<1>4. ASSUME NEW p \in DirIds, NEW m \in Name, NEW n \in Name, Rename(p, m, n)
      PROVE  Sound(fs') /\ SameReads(fs, fs') /\ KeepsDirectory(fs, fs')
  <2>1. Sound(fs') /\ SameReads(fs, fs') /\ SameParents(fs, fs') /\ Live(fs') = Live(fs)
    BY <1>4, RenameIsSound DEF Rename
  <2> QED
    BY Zenon, <2>1 DEF KeepsDirectory, SameParents
<1> QED
  BY Zenon, <1>1, <1>2, <1>3, <1>4 DEF Next

LEMMA SoundIsSafe == Sound(fs) => PoolNotShared /\ TreeOK
<1> SUFFICES ASSUME Sound(fs) PROVE PoolNotShared /\ TreeOK
  OBVIOUS
<1> DEFINE T == fs.tree
<1>1. Pool(Live(fs), fs.ext, fs.free, fs.next) /\ fs.cell \in [1 .. DATA_POOL_SIZE - 1 -> Byte]
  BY Zenon DEF Sound, PoolOf
<1>2. Tree(T, fs.nextId) /\ Live(fs) = DOMAIN T
  BY DEF Sound, Live
<1>3. DOMAIN fs.free = 1 .. Len(fs.free)
  BY <1>1 DEF Pool, Blocks
<1>4. TypeOK
  BY Zenon, <1>1, <1>2 DEF TypeOK, Pool, Files, Blocks, Tree, TreeTyped, Issued
<1>5. \A i \in Live(fs) : ExtentOK(fs, fs.ext[i])
  BY Zenon, <1>1 DEF Pool, Files, ExtentOK, In, Inside
<1>6. \A k \in DOMAIN fs.free :
          fs.free[k].size > 0 /\ Inside(fs, fs.free[k].off, fs.free[k].size)
  BY Zenon, <1>1, <1>3 DEF Pool, Blocks, In, Inside
<1>7. FilesApart(fs) /\ FilesOffFree(fs) /\ FreeApart(fs)
  BY Zenon, <1>1, <1>3 DEF Pool, Files, Blocks, OffFiles, FilesApart, FilesOffFree, FreeApart
<1>8. TreeOK
  <2>1. \A d \in DOMAIN T : DOMAIN T[d].kids = 1 .. Len(T[d].kids)
    BY Zenon, <1>2, NodeFields
  <2> SUFFICES ASSUME NEW d \in DOMAIN T
               PROVE  /\ \A i \in DOMAIN T[d].kids :
                            T[d].kids[i] \in DOMAIN T \ {ROOT_ID} /\ T[T[d].kids[i]].parent = d
                      /\ \A i, j \in DOMAIN T[d].kids :
                            T[T[d].kids[i]].name = T[T[d].kids[j]].name => i = j
                      /\ d # ROOT_ID /\ T[d].parent \in DOMAIN T =>
                            \E i \in DOMAIN T[T[d].parent].kids : T[T[d].parent].kids[i] = d
                      /\ Len(T[d].kids) <= MAX_CHILDREN
    BY Zenon, <1>2 DEF TreeOK
  <2>2. \A i \in DOMAIN T[d].kids :
            T[d].kids[i] \in DOMAIN T \ {ROOT_ID} /\ T[T[d].kids[i]].parent = d
    BY Zenon, <1>2, <2>1 DEF Tree, Listed
  <2>3. \A i, j \in DOMAIN T[d].kids : T[T[d].kids[i]].name = T[T[d].kids[j]].name => i = j
    BY Zenon, <1>2, <2>1 DEF Tree, NamesDiffer
  <2>4. ASSUME d # ROOT_ID, T[d].parent \in DOMAIN T
        PROVE  \E i \in DOMAIN T[T[d].parent].kids : T[T[d].parent].kids[i] = d
    BY Zenon, <1>2, <2>1, <2>4 DEF Tree, Reached
  <2>5. Len(T[d].kids) <= MAX_CHILDREN
    BY Zenon, <1>2 DEF Tree
  <2> QED
    BY Zenon, <2>2, <2>3, <2>4, <2>5
<1> QED
  BY Zenon, <1>4, <1>5, <1>6, <1>7, <1>8 DEF PoolNotShared

LEMMA AlwaysSound == Spec => []Sound(fs)
<1>1. Sound(fs) /\ [Next]_fs => Sound(fs)'
  BY Zenon, StepIsSound DEF Sound, IsFs, Fields, PoolOf, Live
<1> QED
  BY <1>1, StartIsSound, PTL DEF Spec

\* No two reservations of the data pool overlap and none leaves the pool
\* (alloc_data, free_data and write_file of ramfs.rs), for every pool size,
\* free list and file size limit.
THEOREM PoolIsNeverShared == Spec => []PoolNotShared
BY AlwaysSound, SoundIsSafe, PTL

\* Lists of children and parent fields agree after any calls (create_node,
\* unlink and rename of vfs.rs), for every table size and list limit.
THEOREM TreeIsKept == Spec => []TreeOK
BY AlwaysSound, SoundIsSafe, PTL

\* No call changes the bytes of a file it does not write, a write is stored
\* in full or not at all, and a removal cuts nothing off.
THEOREM WritesSpareTheRest == Spec => WritesOnlyTheirOwn
<1>1. Sound(fs) /\ [Next]_fs =>
          [\A i \in Live(fs) \cap Live(fs') :
              \/ read_file(fs', i) = read_file(fs, i)
              \/ \E d \in Data : Write(i, d)]_fs
  <2> SUFFICES ASSUME Sound(fs), Next, NEW i \in Live(fs) \cap Live(fs')
               PROVE  \/ read_file(fs', i) = read_file(fs, i)
                      \/ \E d \in Data : Write(i, d)
    BY Zenon
  <2> QED
    BY Zenon, StepIsSound DEF SameReads, Spared
<1>2. Sound(fs) /\ [Next]_fs =>
          [\A i \in Issued, d \in Data : Write(i, d) /\ i \in Live(fs) =>
              read_file(fs', i) =
                  IF written(fs, i, d) = 0 /\ WriteLen(d) > 0
                  THEN read_file(fs, i)
                  ELSE SubSeq(d, 1, WriteLen(d))]_fs
  BY WriteIsSound DEF Write
<1>3. Sound(fs) /\ [Next]_fs =>
          [\A i \in Live(fs) \cap Live(fs') :
              get_parent(fs, i) \in Live(fs) => get_parent(fs', i) \in Live(fs')]_fs
  BY Zenon, StepIsSound DEF KeepsDirectory
<1> QED
  BY <1>1, <1>2, <1>3, AlwaysSound, PTL
     DEF Spec, WritesOnlyTheirOwn, NoInterference, WriteIsAllOrNothing, NeverCutOff
=============================================================================
