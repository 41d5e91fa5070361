------------------------------- MODULE DiskFs -------------------------------
(***************************************************************************)
(* barryFS (kernel/src/fs/diskfs.rs) below the RAM file system: save       *)
(* writes the whole tree to the disk, a reboot loads it back over the      *)
(* built-in sample tree (kernel/src/fs/mod.rs), and power may fail between *)
(* any two sectors.                                                        *)
(*                                                                         *)
(* A data block is one cell of the disk and holds BLOCK_SIZE bytes. The    *)
(* inode table is written sector by sector, INODES_PER_SECTOR inodes in    *)
(* each. Owners and modes are left out, as in RamFs.                       *)
(***************************************************************************)
EXTENDS RamFs

CONSTANTS BLOCK_SIZE, BLOCK_COUNT, INODES_PER_SECTOR,
          Sample          \* the RAM file system as create_test_files leaves it

ASSUME DiskFsSizes ==
    /\ BLOCK_SIZE \in Nat \ {0}
    /\ BLOCK_COUNT \in Nat
    /\ INODES_PER_SECTOR \in Nat \ {0}

VARIABLES disk,     \* [super, inodes, bitmap, data]
          mounted,  \* MOUNT_DRIVE is set: the tree came from the disk
          pending,  \* the sector writes left of the save that is running
          saved,    \* history: the image of the last save that finished,
                    \* CutShort when a later one did not
          target    \* history: the image of the save that is running

vars == <<fs, disk, mounted, pending, saved, target>>

CutShort == {}

DATA_START_BLOCK == 3

DataBlocks == DATA_START_BLOCK .. BLOCK_COUNT - 1

Blank == [used |-> FALSE, vtype |-> "File", name |-> BadName, parent |-> 0,
          size |-> 0, first |-> 0, count |-> 0]

RootInode == [Blank EXCEPT !.used = TRUE, !.vtype = "Dir"]

NoBytes == [i \in 1 .. BLOCK_SIZE |-> "zero"]

RootOnly == [k \in 1 .. MAX_VNODES |-> IF k = 1 THEN RootInode ELSE Blank]

\* A disk without a superblock. Inode k of the code is k + 1 here.
NoSuper == -1

BlankDisk ==
    [super |-> NoSuper, inodes |-> RootOnly, bitmap |-> {},
     data |-> [b \in DataBlocks |-> NoBytes]]

-----------------------------------------------------------------------------
(* save *)

\* The tree breadth first: the k-th step appends the children of the k-th id.
collect_order(s) ==
    LET q[k \in 0 .. MAX_VNODES] ==
            IF k = 0 THEN <<ROOT_ID>>
            ELSE IF k <= Len(q[k - 1]) THEN q[k - 1] \o s.tree[q[k - 1][k]].kids
            ELSE q[k - 1]
    IN  q[MAX_VNODES]

BlocksFor(size) == (size + BLOCK_SIZE - 1) \div BLOCK_SIZE

\* Byte i of block b of a file, zero past its end.
Chunk(bytes, b) ==
    [i \in 1 .. BLOCK_SIZE |-> IF (b - 1) * BLOCK_SIZE + i <= Len(bytes)
                               THEN bytes[(b - 1) * BLOCK_SIZE + i]
                               ELSE "zero"]

DataWrite(block, bytes) == [to |-> "data", at |-> block, what |-> bytes]

\* The loop of save so far: the next free data block, the inodes and the
\* writes of the data blocks; failed once the data area is full.
LaidOut(s) ==
    LET order == collect_order(s)
        inode(a, id) ==
            LET node   == s.tree[id]
                size   == s.ext[id].size
                index  == {k \in DOMAIN a.inodes : order[k] = node.parent}
            IN  [used   |-> TRUE, vtype |-> node.vtype, name |-> node.name,
                 parent |-> IF index = {} THEN 1 ELSE Least(index),
                 size   |-> size,
                 first  |-> IF size > 0 THEN DATA_START_BLOCK + a.next ELSE 0,
                 count  |-> BlocksFor(size)]
        step(a, id) ==
            LET d == inode(a, id)
            IN  IF a.failed THEN a
                ELSE IF a.next + d.count > BLOCK_COUNT - DATA_START_BLOCK
                THEN [a EXCEPT !.failed = TRUE]
                ELSE [failed |-> FALSE,
                      next   |-> a.next + d.count,
                      inodes |-> Append(a.inodes, d),
                      writes |-> a.writes \o
                          [b \in 1 .. d.count |->
                              DataWrite(d.first + b - 1, Chunk(read_file(s, id), b))]]
        loop[k \in 0 .. Len(order)] ==
            IF k = 0
            THEN [failed |-> FALSE, next |-> 0, inodes |-> <<>>, writes |-> <<>>]
            ELSE step(loop[k - 1], order[k])
    IN  loop[Len(order)]

\* The inode table, padded with unused inodes, cut into sectors.
TableWrites(inodes) ==
    LET table == [k \in 1 .. MAX_VNODES |-> IF k <= Len(inodes) THEN inodes[k] ELSE Blank]
        sectors == (MAX_VNODES + INODES_PER_SECTOR - 1) \div INODES_PER_SECTOR
    IN  [n \in 1 .. sectors |->
            [to |-> "inodes", at |-> n,
             what |-> [k \in {j \in 1 .. MAX_VNODES :
                                 (j - 1) \div INODES_PER_SECTOR = n - 1} |-> table[k]]]]

BitmapOneMore(n) ==
    [to |-> "bitmap", at |-> 0, what |-> DATA_START_BLOCK .. DATA_START_BLOCK + n]

BitmapWrite(n) ==
    [to |-> "bitmap", at |-> 0, what |-> DATA_START_BLOCK .. DATA_START_BLOCK + n - 1]

SuperWrite(generation) == [to |-> "super", at |-> 0, what |-> generation]

\* A save that runs out of data blocks has written what came before. The
\* generation is one more than the disk's.
save(s, generation) ==
    LET a == LaidOut(s)
    IN  IF a.failed THEN a.writes
        ELSE a.writes \o TableWrites(a.inodes) \o
                 <<BitmapWrite(a.next), SuperWrite(generation + 1)>>

\* The root alone, nothing allocated.
format == TableWrites(<<RootInode>>) \o <<BitmapWrite(0), SuperWrite(0)>>

Written(d, w) ==
    CASE w.to = "data"   -> [d EXCEPT !.data[w.at] = w.what]
      [] w.to = "inodes" -> [d EXCEPT !.inodes =
                                [k \in DOMAIN @ |-> IF k \in DOMAIN w.what
                                                    THEN w.what[k] ELSE @[k]]]
      [] w.to = "bitmap" -> [d EXCEPT !.bitmap = w.what]
      [] w.to = "super"  -> [d EXCEPT !.super = w.what]

-----------------------------------------------------------------------------
(* load *)

\* vfs::reset: an empty tree, and the pool as it was.
reset(s) == [s EXCEPT !.tree = Empty.tree, !.ext = Empty.ext, !.nextId = 2]

\* Every block read from the start of the run.
BytesOfFirstBlock(d, inode) ==
    [i \in 1 .. (IF inode.size <= MAX_FILE_SIZE THEN inode.size ELSE MAX_FILE_SIZE) |->
        d.data[inode.first][((i - 1) % BLOCK_SIZE) + 1]]

\* The bytes of an inode, read block by block.
Bytes(d, inode) ==
    [i \in 1 .. (IF inode.size <= MAX_FILE_SIZE THEN inode.size ELSE MAX_FILE_SIZE) |->
        d.data[inode.first + (i - 1) \div BLOCK_SIZE][((i - 1) % BLOCK_SIZE) + 1]]

\* One inode other than the root: its vnode, its contents, its id. An inode
\* whose parent was not loaded is skipped; the result of write_file is not
\* looked at.
LoadInode(a, d, k) ==
    LET inode == d.inodes[k]
        dir   == a.idOf[inode.parent]
        s1    == create_node(a.s, dir, inode.name, inode.vtype)
        id    == s1.nextId - 1
    IN  IF ~ inode.used \/ dir = 0
        THEN a
        ELSE IF id \notin Live(s1) \ Live(a.s)
        THEN [a EXCEPT !.s = s1]
        ELSE [s |-> IF inode.vtype = "File" /\ inode.size > 0
                    THEN write_file(s1, id, Bytes(d, inode)) ELSE s1,
              idOf |-> [a.idOf EXCEPT ![k] = id]]

load(s, d) ==
    LET loop[k \in 1 .. MAX_VNODES] ==
            IF k = 1
            THEN [s |-> reset(s),
                  idOf |-> [j \in 1 .. MAX_VNODES |->
                               IF j = 1 /\ d.inodes[1].used THEN ROOT_ID ELSE 0]]
            ELSE LoadInode(loop[k - 1], d, k)
    IN  loop[MAX_VNODES].s

is_present(d) == d.super # NoSuper

\* fs::init: the sample tree is made first, then a disk with a file system is
\* mounted over it.
boot(d) == IF is_present(d) THEN load(Sample, d) ELSE Sample

-----------------------------------------------------------------------------

\* What a tree holds, whatever its ids and offsets are: the path, the type
\* and the bytes of everything that is reached from the root.
Image(s) ==
    LET order == collect_order(s)
        ids   == {order[k] : k \in DOMAIN order}
        path[i \in ids] ==
            IF i = ROOT_ID THEN <<>> ELSE Append(path[s.tree[i].parent], s.tree[i].name)
    IN  {<<path[i], s.tree[i].vtype, read_file(s, i)>> : i \in ids}

\* The first boot, from the install medium.
DiskInit ==
    /\ disk = BlankDisk
    /\ fs = boot(BlankDisk)
    /\ mounted = FALSE
    /\ pending = <<>>
    /\ saved = CutShort
    /\ target = {}

\* Any call of the RAM file system, with a directory that exists.
Edit ==
    /\ pending = <<>>
    /\ \/ \E p \in Live(fs), n \in Name, t \in VnodeType : is_dir(fs, p) /\ Create(p, n, t)
       \/ \E id \in Live(fs), d \in Data : Write(id, d)
       \/ \E p \in Live(fs), n \in Name : Unlink(p, n)
       \/ \E p \in Live(fs), m, n \in Name : Rename(p, m, n)
    /\ UNCHANGED <<disk, mounted, pending, saved, target>>

\* The save runs to its end before anything else does, so what it is going to
\* write is settled here.
sync ==
    /\ pending = <<>>
    /\ mounted
    /\ pending' = save(fs, disk.super)
    /\ target' = IF pending' = <<>> THEN {} ELSE Image(fs)
    /\ UNCHANGED <<fs, disk, mounted, saved>>

\* run_install: a format, which gives up what was there, and a save.
Install ==
    /\ pending = <<>>
    /\ pending' = format \o save(fs, 0)
    /\ target' = Image(fs)
    /\ saved' = CutShort
    /\ UNCHANGED <<fs, disk, mounted>>

\* The save is over: finished when its superblock was written.
EndSave(finished) ==
    /\ pending' = <<>>
    /\ saved' = IF pending = <<>> THEN saved ELSE IF finished THEN target ELSE CutShort
    /\ target' = {}

\* One sector reaches the disk.
WriteSector ==
    /\ pending # <<>>
    /\ disk' = Written(disk, Head(pending))
    /\ IF Len(pending) = 1
       THEN EndSave(Head(pending).to = "super" /\ Head(pending).what > 0)
       ELSE pending' = Tail(pending) /\ UNCHANGED <<saved, target>>
    /\ UNCHANGED <<fs, mounted>>

\* The drive reports an error: save returns false.
WriteFails ==
    /\ pending # <<>>
    /\ EndSave(FALSE)
    /\ UNCHANGED <<fs, disk, mounted>>

\* A reboot, or a power failure while a save is running.
Reboot ==
    /\ fs' = boot(disk)
    /\ mounted' = is_present(disk)
    /\ EndSave(FALSE)
    /\ disk' = disk

DiskNext == Edit \/ sync \/ Install \/ WriteSector \/ WriteFails \/ Reboot

DiskSpec == DiskInit /\ [][DiskNext]_vars

-----------------------------------------------------------------------------
(* Properties *)

\* The disk holds a finished image and nothing is being written over it.
AtRest == pending = <<>> /\ saved # CutShort

\* A reboot brings back what the last save wrote, to the byte, when that save
\* finished: save, the block layout, the parent indices and load undo each
\* other, whatever earlier saves left behind. It takes a pool that holds the
\* files beside the sample tree's: reset does not give the bytes of those back,
\* and load does not look at what write_file returns.  The tree is well formed
\* whatever an interrupted save left to be loaded.
SurvivesReboot ==
    /\ TreeOK
    /\ AtRest /\ boot(disk).next <= DATA_POOL_SIZE => Image(boot(disk)) = saved

\* A save that stops at any sector leaves the image that was there or the new
\* one (the comment in save: "superblock last, so an interrupted save leaves
\* the old one pointing at a consistent image").
InterruptedSaveIsConsistent ==
    pending # <<>> /\ saved # CutShort => Image(boot(disk)) \in {saved, target}

\* The inodes of a finished image share no data block, stay inside the data
\* area, and the bitmap names exactly their blocks.
BlocksNotShared ==
    LET run(k)  == disk.inodes[k].first .. disk.inodes[k].first + disk.inodes[k].count - 1
        inUse   == {k \in DOMAIN disk.inodes : disk.inodes[k].used}
    IN  AtRest => /\ \A j, k \in inUse : j # k => run(j) \cap run(k) = {}
                  /\ UNION {run(k) : k \in inUse} = disk.bitmap
                  /\ disk.bitmap \subseteq DataBlocks
=============================================================================
