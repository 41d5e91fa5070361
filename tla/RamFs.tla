------------------------------- MODULE RamFs -------------------------------
(***************************************************************************)
(* The in-memory file system: the vnode table of kernel/src/fs/vfs.rs and  *)
(* the data pool of kernel/src/fs/ramfs.rs.                                *)
(*                                                                         *)
(* Callers make several of its calls in a row without anything running in  *)
(* between (a move is a create, a write and an unlink), so every call is   *)
(* an operator from a file-system value s to the value it leaves:          *)
(*   s.tree    live vnode ids to [vtype, name, parent, kids]               *)
(*   s.nextId  NEXT_ID                                                     *)
(*   s.ext     live vnode ids to [off, size, cap], the vnode's             *)
(*             data_offset, size and data_cap                              *)
(*   s.free    the free list FREE[0..FREE_COUNT]                           *)
(*   s.next    NEXT_OFFSET                                                 *)
(*   s.cell    DATA_POOL                                                   *)
(* A call that is refused before it changes anything returns s itself.     *)
(* Names are compared only for equality: Name holds the legal ones and     *)
(* BadName stands for an empty or an over-long one.                        *)
(***************************************************************************)
EXTENDS Integers, Sequences, FiniteSets

CONSTANTS MAX_VNODES, MAX_CHILDREN, MAX_FILE_SIZE, FREE_MAX, DATA_POOL_SIZE,
          Name, BadName, Byte, Data

ASSUME RamFsSizes ==
    /\ MAX_VNODES \in Nat \ {0}
    /\ MAX_CHILDREN \in Nat
    /\ MAX_FILE_SIZE \in Nat
    /\ FREE_MAX \in Nat
    /\ DATA_POOL_SIZE \in Nat \ {0}

ASSUME RamFsNames == BadName \notin Name

ASSUME RamFsData == Byte # {} /\ Data \subseteq Seq(Byte)

VARIABLE fs

ROOT_ID == 1

VnodeType == {"File", "Dir"}

Least(S) == CHOOSE x \in S : \A y \in S : x <= y

-----------------------------------------------------------------------------
(* vfs.rs: the tree *)

\* The ids of the vnodes in use; the slot a vnode sits in is never observed.
Live(s) == DOMAIN s.tree

child_count(s, id) == IF id \in Live(s) THEN Len(s.tree[id].kids) ELSE 0

get_parent(s, id) == IF id \in Live(s) THEN s.tree[id].parent ELSE 0

is_dir(s, id) == id \in Live(s) /\ s.tree[id].vtype = "Dir"

lookup(s, parent, name) ==
    LET kids == s.tree[parent].kids
        hits == {i \in DOMAIN kids :
                    kids[i] \in Live(s) /\ s.tree[kids[i]].name = name}
    IN  IF parent \in Live(s) /\ hits # {} THEN kids[Least(hits)] ELSE 0

Vnode(vtype, name, parent) ==
    [vtype |-> vtype, name |-> name, parent |-> parent, kids |-> <<>>]

NoExtent == [off |-> 0, size |-> 0, cap |-> 0]

link_child(tree, parent, id) ==
    IF parent \in DOMAIN tree /\ Len(tree[parent].kids) < MAX_CHILDREN
    THEN [tree EXCEPT ![parent].kids = Append(@, id)]
    ELSE tree

\* Drawing the lowest id that is not in use.
lowest_id(s) == Least((2 .. s.nextId) \ Live(s))

alloc_id(s) == s.nextId

may_create(s, parent, name) ==
    /\ name \in Name
    /\ lookup(s, parent, name) = 0
    /\ child_count(s, parent) < MAX_CHILDREN

\* The id is drawn before the table is found to be full.
create_node(s, parent, name, vtype) ==
    IF ~ may_create(s, parent, name)
    THEN s
    ELSE IF Cardinality(Live(s)) >= MAX_VNODES
    THEN [s EXCEPT !.nextId = @ + 1]
    ELSE LET id  == alloc_id(s)
             ids == Live(s) \cup {id}
             new == Vnode(vtype, name, parent)
         IN  [s EXCEPT !.nextId = @ + 1,
                       !.tree = link_child(
                           [i \in ids |-> IF i = id THEN new ELSE s.tree[i]], parent, id),
                       !.ext = [i \in ids |-> IF i = id THEN NoExtent ELSE s.ext[i]]]

\* The entries behind the i-th move down by one.
Without(kids, i) ==
    [j \in 1 .. Len(kids) - 1 |-> IF j < i THEN kids[j] ELSE kids[j + 1]]

\* What an unlink of the child id removes from the tree and the extents.
unlink_child(s, parent, id) ==
    LET left == Live(s) \ {id}
        kids == s.tree[parent].kids
        at   == Least({i \in DOMAIN kids : kids[i] = id})
        tree == [s.tree EXCEPT ![parent].kids = Without(kids, at)]
    IN  [s EXCEPT !.tree = [i \in left |-> tree[i]],
                  !.ext  = [i \in left |-> s.ext[i]]]

may_unlink(s, id) == id # 0 /\ ~ (is_dir(s, id) /\ child_count(s, id) > 0)

\* The test that the new name is free, dropped.
renameOver(s, parent, old, new) ==
    LET id == lookup(s, parent, old)
    IN  IF new \in Name /\ id # 0 THEN [s EXCEPT !.tree[id].name = new] ELSE s

rename(s, parent, old, new) ==
    LET id    == lookup(s, parent, old)
        other == lookup(s, parent, new)
    IN  IF new \in Name /\ id # 0 /\ other \in {0, id}
        THEN [s EXCEPT !.tree[id].name = new]
        ELSE s

-----------------------------------------------------------------------------
(* ramfs.rs: the data pool *)

\* The last block takes the place of the i-th.
SwapOut(f, i) == SubSeq([f EXCEPT ![i] = f[Len(f)]], 1, Len(f) - 1)

\* Handing out the front of a larger block without moving its start.
SplitKeepingStart(b, n) == [off |-> b.off, size |-> b.size - n]

Split(b, n) == [off |-> b.off + n, size |-> b.size - n]

\* Reserve n > 0 bytes: the offset (0 when there is no room), the free list
\* and the bump pointer after it. A failed bump is not taken back.
alloc_data(s, n) ==
    LET fits == {i \in DOMAIN s.free : s.free[i].size >= n}
        i    == Least(fits)
        b    == s.free[i]
    IN  IF fits = {}
        THEN [off  |-> IF s.next + n > DATA_POOL_SIZE THEN 0 ELSE s.next,
              next |-> s.next + n,
              free |-> s.free]
        ELSE [off  |-> b.off,
              next |-> s.next,
              free |-> IF b.size > n THEN [s.free EXCEPT ![i] = Split(b, n)]
                                     ELSE SwapOut(s.free, i)]

\* A block that does not fit the free list is leaked.
free_data(free, off, size) ==
    IF off = 0 \/ size = 0 \/ Len(free) >= FREE_MAX
    THEN free
    ELSE Append(free, [off |-> off, size |-> size])

Fits(e, len) == e.cap >= len

\* A copy loop that runs one byte too far, and one that stops one too early.
StoredPastEnd(cell, off, data, len) ==
    [o \in DOMAIN cell |-> IF off <= o /\ o <= off + len
                           THEN data[IF o < off + len THEN o - off + 1 ELSE len]
                           ELSE cell[o]]

\* DATA_POOL with the first len bytes of data stored from off on.
Stored(cell, off, data, len) ==
    [o \in DOMAIN cell |-> IF off <= o /\ o < off + len
                           THEN data[o - off + 1]
                           ELSE cell[o]]

WriteLen(data) == IF Len(data) <= MAX_FILE_SIZE THEN Len(data) ELSE MAX_FILE_SIZE

\* What write_file returns: 0 for a missing vnode and for an exhausted pool.
written(s, id, data) ==
    LET len == WriteLen(data)
    IN  IF id \in Live(s)
           /\ (Fits(s.ext[id], len) \/ alloc_data(s, len).off # 0)
        THEN len ELSE 0

write_file(s, id, data) ==
    LET len == WriteLen(data)
        old == s.ext[id]
        a   == alloc_data(s, len)
    IN  IF id \notin Live(s)
        THEN s
        ELSE IF len = 0
        THEN [s EXCEPT !.ext[id] = NoExtent,
                       !.free = free_data(@, old.off, old.cap)]
        ELSE IF Fits(old, len)
        THEN [s EXCEPT !.ext[id].size = len,
                       !.cell = Stored(@, old.off, data, len)]
        ELSE IF a.off = 0
        THEN [s EXCEPT !.next = a.next]
        ELSE [s EXCEPT !.ext[id] = [off |-> a.off, size |-> len, cap |-> len],
                       !.free = free_data(a.free, old.off, old.cap),
                       !.next = a.next,
                       !.cell = Stored(@, a.off, data, len)]

read_file(s, id) ==
    LET e == s.ext[id]
    IN  IF id \notin Live(s) \/ e.size = 0 \/ e.off = 0
        THEN <<>>
        ELSE [i \in 1 .. e.size |-> s.cell[e.off + i - 1]]

unlink(s, parent, name) ==
    LET id == lookup(s, parent, name)
        e  == s.ext[id]
    IN  IF may_unlink(s, id)
        THEN [unlink_child(s, parent, id) EXCEPT
                 !.free = free_data(s.free, e.off, e.cap)]
        ELSE s

-----------------------------------------------------------------------------
(* The file system on its own: any call, with any id that was ever issued. *)

Empty ==
    [tree   |-> [i \in {ROOT_ID} |-> Vnode("Dir", BadName, 0)],
     nextId |-> 2,
     ext    |-> [i \in {ROOT_ID} |-> NoExtent],
     free   |-> <<>>,
     next   |-> 1,
     cell   |-> [o \in 1 .. DATA_POOL_SIZE - 1 |-> CHOOSE b \in Byte : TRUE]]

Init == fs = Empty

Issued == 1 .. fs.nextId - 1

Create(parent, name, vtype) == fs' = create_node(fs, parent, name, vtype)

Write(id, data) == ~ is_dir(fs, id) /\ fs' = write_file(fs, id, data)

Unlink(parent, name) == fs' = unlink(fs, parent, name)

Rename(parent, old, new) == fs' = rename(fs, parent, old, new)

\* What a caller passes as a directory: a directory, or the id of one that
\* has been removed since the caller looked it up.
DirIds == {id \in Issued : id \in Live(fs) => is_dir(fs, id)}

Next ==
    \/ \E p \in DirIds, n \in Name, t \in VnodeType : Create(p, n, t)
    \/ \E id \in Issued, d \in Data : Write(id, d)
    \/ \E p \in DirIds, n \in Name : Unlink(p, n)
    \/ \E p \in DirIds, m, n \in Name : Rename(p, m, n)

Spec == Init /\ [][Next]_fs

-----------------------------------------------------------------------------
(* Properties *)

Node == [vtype : VnodeType, name : Name \cup {BadName}, parent : Nat, kids : Seq(Nat)]

Extent == [off : Nat, size : Nat, cap : Nat]

Block == [off : Nat, size : Nat]

\* The types, and that ids are drawn from a counter that only rises: a live
\* id is below NEXT_ID, so an id kept by an application is never given to
\* another file.
TypeOK ==
    /\ fs.nextId \in Nat
    /\ Live(fs) \subseteq Issued
    /\ fs.tree \in [Live(fs) -> Node]
    /\ fs.ext \in [Live(fs) -> Extent]
    /\ fs.free \in Seq(Block)
    /\ Len(fs.free) <= FREE_MAX
    /\ fs.next \in Nat
    /\ fs.cell \in [1 .. DATA_POOL_SIZE - 1 -> Byte]

\* Two regions of the pool share no byte.
Apart(a, m, b, n) == a + m <= b \/ b + n <= a

\* A region lies in the part of the pool handed out so far.
Inside(s, off, n) == 0 < off /\ off + n <= s.next /\ off + n <= DATA_POOL_SIZE

ExtentOK(s, e) ==
    /\ e.size <= e.cap
    /\ IF e.cap = 0 THEN e.off = 0 ELSE Inside(s, e.off, e.cap)

FilesApart(s) ==
    \A i, j \in Live(s) :
        i # j => Apart(s.ext[i].off, s.ext[i].cap, s.ext[j].off, s.ext[j].cap)

FilesOffFree(s) ==
    \A i \in Live(s), k \in DOMAIN s.free :
        Apart(s.ext[i].off, s.ext[i].cap, s.free[k].off, s.free[k].size)

FreeApart(s) ==
    \A k, l \in DOMAIN s.free :
        k # l => Apart(s.free[k].off, s.free[k].size, s.free[l].off, s.free[l].size)

\* The pool is never shared: whatever the order of writes, rewrites and
\* removals, the reservations of the files and the blocks of the free list
\* lie in the pool and no two overlap, with the first-fit split, the swap
\* with the last block, the reuse in place and the failed bump of ramfs.rs.
PoolNotShared ==
    /\ TypeOK
    /\ \A i \in Live(fs) : ExtentOK(fs, fs.ext[i])
    /\ \A k \in DOMAIN fs.free :
          fs.free[k].size > 0 /\ Inside(fs, fs.free[k].off, fs.free[k].size)
    /\ FilesApart(fs)
    /\ FilesOffFree(fs)
    /\ FreeApart(fs)

\* A directory's list and its children's parent fields tell the same story:
\* every listed child is live, listed once and points back, every live
\* vnode whose directory is live is listed by it, and no two children of a
\* directory have the same name (create_node, unlink, rename of vfs.rs).
TreeOK ==
    \A d \in Live(fs) :
        LET kids == fs.tree[d].kids
        IN  /\ \A i \in DOMAIN kids :
                  /\ kids[i] \in Live(fs) \ {ROOT_ID}
                  /\ fs.tree[kids[i]].parent = d
            /\ \A i, j \in DOMAIN kids :
                  fs.tree[kids[i]].name = fs.tree[kids[j]].name => i = j
            /\ d # ROOT_ID /\ fs.tree[d].parent \in Live(fs) =>
                  \E i \in DOMAIN fs.tree[fs.tree[d].parent].kids :
                      fs.tree[fs.tree[d].parent].kids[i] = d
            /\ Len(kids) <= MAX_CHILDREN

\* A removal never cuts off what is below it: a vnode whose directory is live
\* keeps a live directory as long as it lives (vfs::unlink refuses a
\* directory with children).
NeverCutOff ==
    [][\A i \in Live(fs) \cap Live(fs') :
          get_parent(fs, i) \in Live(fs) => get_parent(fs', i) \in Live(fs')]_fs

\* No call disturbs a file it does not name: a file that is live before and
\* after a step reads the same after it, unless the step is a write_file of
\* that file.
NoInterference ==
    [][\A i \in Live(fs) \cap Live(fs') :
          \/ read_file(fs', i) = read_file(fs, i)
          \/ \E d \in Data : Write(i, d)]_fs

\* A write_file reads back in full when it reports its length, and leaves the
\* file as it was when it reports 0 for data that was not empty.
WriteIsAllOrNothing ==
    [][\A i \in Issued, d \in Data : Write(i, d) /\ i \in Live(fs) =>
          read_file(fs', i) =
              IF written(fs, i, d) = 0 /\ WriteLen(d) > 0
              THEN read_file(fs, i)
              ELSE SubSeq(d, 1, WriteLen(d))]_fs

\* A step changes the bytes of no file but the one it writes, cuts off nothing
\* below what it removes, and a write is stored in full or not at all.
WritesOnlyTheirOwn == NoInterference /\ WriteIsAllOrNothing /\ NeverCutOff
=============================================================================
