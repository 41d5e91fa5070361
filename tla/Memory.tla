------------------------------- MODULE Memory -------------------------------
(***************************************************************************)
(* Physical memory and the threads that live in it: the memory map the     *)
(* boot loader leaves (mem/memmap.rs, mem/efi.rs), the bitmap of frames    *)
(* (mem/frame_alloc.rs), everybody who takes frames while the kernel comes *)
(* up (mem/heap.rs, dev/framebuffer.rs, proc/thread.rs, net/e1000.rs) and  *)
(* afterwards (compat/pe_loader.rs), and the process table the scheduler   *)
(* turns round (proc/process.rs, proc/scheduler.rs, proc/syscall.rs).      *)
(*                                                                         *)
(* An address is the number of its frame.  held records every block a      *)
(* caller was given and believes it has; lost the frames of a block that   *)
(* starts at frame 0, whose address the callers take for a failure.        *)
(***************************************************************************)
EXTENDS Integers, Sequences, FiniteSets, FiniteSetsExt

CONSTANTS
    MAX_FRAMES, MAX_REGIONS,
    KERNEL_BASE, IMAGE_END, KERNEL_STACK_TOP, RAM_END,   \* in frames
    HEAP_PAGES, STACK_PAGES, MAX_PROCESSES,
    RING_PAGES,    \* the four blocks of rings_init
    BootInfos,     \* what the loader may pass
    ScreenPages,   \* sizes of the backbuffer; 0 when there is no framebuffer
    ImagePages,    \* sizes of the programs that are run
    Ticks,         \* bound: ticks of proc::init
    MaxCalls       \* bound: system calls and frames taken once the kernel is up

Frames == 0 .. MAX_FRAMES - 1
Slots == 0 .. MAX_PROCESSES - 1
Kernel == KERNEL_BASE .. KERNEL_STACK_TOP - 1

ASSUME MemorySizes ==
    /\ MAX_FRAMES \in Nat \ {0} /\ MAX_REGIONS \in Nat /\ MAX_PROCESSES \in Nat \ {0}
    /\ KERNEL_BASE \in Nat /\ IMAGE_END \in Nat /\ KERNEL_STACK_TOP \in Nat /\ RAM_END \in Nat
    /\ HEAP_PAGES \in Nat /\ STACK_PAGES \in Nat
    /\ RING_PAGES \in Seq(Nat) /\ ScreenPages \subseteq Nat /\ ImagePages \subseteq Nat
    /\ Ticks \in Nat /\ MaxCalls \in Nat

VARIABLES
    stage,   \* how far rust_main has come
    mm,      \* BI: the regions of the memory map
    fa,      \* FA and BITMAP
    held,    \* the blocks that were handed out and are in use
    lost,    \* frames of blocks whose caller saw a failure
    procs,   \* PROC_TABLE, CURRENT_SLOT, NEXT_PID
    left     \* bounds: ticks and calls left

vars == <<stage, mm, fa, held, lost, procs, left>>

(***************************************************************************)
(* The memory map                                                          *)
(***************************************************************************)
LoaderData == 2
ConventionalMemory == 7
Reserved == 0

from_u32(v) == IF v \in 0 .. 14 THEN v ELSE Reserved

is_usable(kind) == kind = ConventionalMemory

Descriptor(start, pages, type) == [start |-> start, pages |-> pages, type |-> type]

bios_fallback ==
    <<Descriptor(KERNEL_BASE, IMAGE_END - KERNEL_BASE, LoaderData),
      Descriptor(IMAGE_END, RAM_END - IMAGE_END, ConventionalMemory)>>

\* push drops what does not fit.
pushed(map) ==
    [i \in 1 .. Min({Len(map), MAX_REGIONS}) |->
        [start |-> map[i].start, pages |-> map[i].pages, kind |-> from_u32(map[i].type)]]

\* A loader that passes nothing, nothing valid or no map is a BIOS one.
parse_into(boot_info) ==
    pushed(IF boot_info.there /\ boot_info.magic /\ boot_info.memmap # <<>>
           THEN boot_info.memmap ELSE bios_fallback)

Span(r) == {f \in Frames : r.start <= f /\ f < r.start + r.pages}

UsableRegions(map) == {i \in DOMAIN map : is_usable(map[i].kind)}

Usable(map) == UNION {Span(map[i]) : i \in UsableRegions(map)}

Apart(map) ==
    \A i, j \in UsableRegions(map) : i # j => Span(map[i]) \cap Span(map[j]) = {}

\* The loader passes a table, and the regions firmware calls usable are apart.
ASSUME MemoryMaps ==
    \A b \in BootInfos :
        /\ b.memmap \in Seq([start : Nat, pages : Nat, type : Nat])
        /\ Apart(parse_into(b))

(***************************************************************************)
(* The frame allocator.  A function of the allocator returns the new one   *)
(* and the address.                                                        *)
(***************************************************************************)
\* Region by region: a frame of two regions would count twice.
frames_usable(map) ==
    LET upto[i \in 0 .. Len(map)] ==
            IF i = 0 THEN 0
            ELSE upto[i - 1] + (IF is_usable(map[i].kind) THEN Cardinality(Span(map[i])) ELSE 0)
    IN upto[Len(map)]

\* The kernel's frames are taken out of the bitmap and not of the count.
init_frames(map) ==
    [bitmap |-> (Frames \ Usable(map)) \cup (Kernel \cap Frames),
     usable |-> frames_usable(map), used |-> MAX_FRAMES - frames_usable(map), hint |-> 0]

FreeFrames(a) == Frames \ a.bitmap

\* The first free frame from the hint on, round the end of the bitmap.
alloc(a) ==
    LET I == {i \in Frames : (a.hint + i) % MAX_FRAMES \in FreeFrames(a)}
        f == (a.hint + Min(I)) % MAX_FRAMES
    IN IF I = {} THEN [fa |-> a, at |-> 0, n |-> 0]
       ELSE [fa |-> [a EXCEPT !.bitmap = @ \cup {f}, !.used = @ + 1,
                              !.hint = (f + 1) % MAX_FRAMES],
             at |-> f, n |-> 1]

Runs(a, n) == {s \in Frames : s + n <= MAX_FRAMES /\ s .. s + n - 1 \subseteq FreeFrames(a)}

alloc_contig_joined(a, n) ==
    LET ends == {i \in Frames : Cardinality({f \in FreeFrames(a) : f <= i}) >= n}
        s == Min(ends) - n + 1
    IN IF n = 0 \/ ends = {} THEN [fa |-> a, at |-> 0, n |-> 0]
       ELSE [fa |-> [a EXCEPT !.bitmap = @ \cup s .. s + n - 1, !.used = @ + n,
                              !.hint = (s + n) % MAX_FRAMES],
             at |-> s, n |-> n]

\* The first run of n free frames, whatever the hint says.
alloc_contig(a, n) ==
    LET s == Min(Runs(a, n))
    IN IF n = 0 \/ Runs(a, n) = {} THEN [fa |-> a, at |-> 0, n |-> 0]
       ELSE [fa |-> [a EXCEPT !.bitmap = @ \cup s .. s + n - 1, !.used = @ + n,
                              !.hint = (s + n) % MAX_FRAMES],
             at |-> s, n |-> n]

free(a, f) ==
    IF f \in a.bitmap
    THEN [a EXCEPT !.bitmap = @ \ {f}, !.used = @ - 1, !.hint = IF f < @ THEN f ELSE @]
    ELSE a

\* The loop of alloc_contig: the length of the run of free frames that ends
\* at i, and the first i where it reaches n.
scan(a, n) ==
    LET run[i \in -1 .. MAX_FRAMES - 1] ==
            IF i = -1 \/ i \in a.bitmap THEN 0 ELSE run[i - 1] + 1
        ends == {i \in Frames : run[i] = n}
    IN IF ends = {} THEN -1 ELSE Min(ends) - n + 1

(***************************************************************************)
(* The callers.  Address 0 is a failure to every one of them.              *)
(***************************************************************************)
Block(id, by, at, n) == [id |-> id, by |-> by, at |-> at, n |-> n]
Of(b) == b.at .. b.at + b.n - 1

NextId == 1 + Max({0} \cup {b.id : b \in held})

Given(got, by, id) == IF got.at = 0 THEN {} ELSE {Block(id, by, got.at, got.n)}

Missed(got) == IF got.at = 0 THEN 0 .. got.n - 1 ELSE {}

Take(got, by) ==
    /\ fa' = got.fa
    /\ held' = held \cup Given(got, by, NextId)
    /\ lost' = lost \cup Missed(got)

NoProc == [state |-> "Free", pid |-> 0, stack |-> 0, switches |-> 0]

Init ==
    /\ stage = "memory" /\ mm = <<>> /\ held = {} /\ lost = {}
    /\ fa = [bitmap |-> {}, usable |-> 0, used |-> 0, hint |-> 0]
    /\ procs = [table |-> [s \in Slots |-> NoProc], cur |-> 0, next_pid |-> 1, enabled |-> FALSE]
    /\ left = [threads |-> 3, rings |-> Len(RING_PAGES), ticks |-> Ticks, calls |-> MaxCalls]

\* mem::init: the map, the bitmap, the page tables (which take no frames)
\* and the heap.
mem_init(boot_info) ==
    /\ stage = "memory" /\ stage' = "screen"
    /\ mm' = parse_into(boot_info)
    /\ LET got == alloc_contig(init_frames(parse_into(boot_info)), HEAP_PAGES)
       IN /\ fa' = got.fa /\ held' = Given(got, "heap", 1) /\ lost' = Missed(got)
    /\ UNCHANGED <<procs, left>>

init_backbuffer(pages) ==
    /\ stage = "screen" /\ stage' = "idle"
    /\ Take(alloc_contig(fa, pages), "screen")
    /\ UNCHANGED <<mm, procs, left>>

(***************************************************************************)
(* proc/                                                                   *)
(***************************************************************************)
create_idle ==
    /\ stage = "idle" /\ stage' = "threads"
    /\ procs' = [procs EXCEPT !.table[0] = [@ EXCEPT !.state = "Ready"]]
    /\ UNCHANGED <<mm, fa, held, lost, left>>

FreeSlots == {s \in Slots : procs.table[s].state = "Free"}

\* A slot, then a stack, then a pid; without the first two, nothing.
spawn ==
    LET slot == Min(FreeSlots)
        got == alloc_contig(fa, STACK_PAGES)
    IN IF FreeSlots = {} THEN UNCHANGED <<fa, held, lost, procs>>
       ELSE /\ Take(got, "stack")
            /\ procs' = IF got.at = 0 THEN procs
                 ELSE [procs EXCEPT
                         !.table[slot] = [state |-> "Ready", pid |-> procs.next_pid,
                                          stack |-> got.at, switches |-> 0],
                         !.next_pid = @ + 1]

\* proc::init spawns its three test threads and enables the scheduler.
Spawn ==
    /\ stage = "threads" /\ left.threads > 0
    /\ spawn
    /\ left' = [left EXCEPT !.threads = @ - 1]
    /\ UNCHANGED <<stage, mm>>

enable ==
    /\ stage = "threads" /\ left.threads = 0
    /\ stage' = "ticks"
    /\ procs' = [procs EXCEPT !.enabled = TRUE]
    /\ UNCHANGED <<mm, fa, held, lost, left>>

find_next_lowest(p, from) ==
    LET ready == {s \in Slots \ {from} : p.table[s].state = "Ready"}
    IN IF ready = {} THEN 0 ELSE Min(ready)

\* The next Ready slot after from, round the table; else the idle one.
find_next(p, from) ==
    LET ready == {i \in 1 .. MAX_PROCESSES :
                    p.table[(from + i) % MAX_PROCESSES].state = "Ready"}
    IN IF ready = {} THEN 0 ELSE (from + Min(ready)) % MAX_PROCESSES

tick(p) ==
    LET next == find_next(p, p.cur)
        yielded == IF p.table[p.cur].state = "Running" THEN "Ready" ELSE p.table[p.cur].state
    IN IF ~ p.enabled \/ next = p.cur THEN p
       ELSE [p EXCEPT !.table[p.cur].state = yielded,
                      !.table[next].state = "Running", !.table[next].switches = @ + 1,
                      !.cur = next]

\* The ticks proc::init runs, and then the syscall test, which only writes.
Tick ==
    /\ stage = "ticks" /\ left.ticks > 0
    /\ procs' = tick(procs)
    /\ left' = [left EXCEPT !.ticks = @ - 1]
    /\ UNCHANGED <<stage, mm, fa, held, lost>>

SYS_EXIT == 1
SYS_YIELD == 3

\* exit only yields; write, getpid, getticks and an unknown number change
\* nothing.
syscall_handler(nr) ==
    procs' = IF nr \in {SYS_EXIT, SYS_YIELD} THEN tick(procs) ELSE procs

(***************************************************************************)
(* The network card, and the kernel that is up                             *)
(***************************************************************************)
\* The four blocks of rings_init, one after the other: all are asked for even
\* if one is missing, and then the card is not used.
rings_init ==
    /\ stage = "rings" /\ left.rings > 0
    /\ Take(alloc_contig(fa, RING_PAGES[Len(RING_PAGES) + 1 - left.rings]), "ring")
    /\ left' = [left EXCEPT !.rings = @ - 1]
    /\ UNCHANGED <<stage, mm, procs>>

\* The stages of rust_main that take no frames.
NextStage(from, to, n) ==
    /\ stage = from /\ n = 0 /\ stage' = to
    /\ UNCHANGED <<mm, fa, held, lost, procs, left>>

Called ==
    /\ stage = "up" /\ left.calls > 0
    /\ left' = [left EXCEPT !.calls = @ - 1]
    /\ UNCHANGED <<stage, mm>>

\* A program's image is never given back.
run_image(pages) ==
    /\ Called
    /\ Take(alloc_contig(fa, pages), "image")
    /\ UNCHANGED procs

TakeFrame ==
    /\ Called
    /\ Take(alloc(fa), "page")
    /\ UNCHANGED procs

FreeFrame(b) ==
    /\ Called
    /\ b.by = "page"
    /\ fa' = free(fa, b.at) /\ held' = held \ {b}
    /\ UNCHANGED <<lost, procs>>

Syscall(nr) ==
    /\ Called
    /\ syscall_handler(nr)
    /\ UNCHANGED <<fa, held, lost>>

Next ==
    \/ \E b \in BootInfos : mem_init(b)
    \/ \E p \in ScreenPages : init_backbuffer(p)
    \/ create_idle \/ Spawn \/ enable \/ Tick \/ rings_init
    \/ NextStage("ticks", "rings", left.ticks)
    \/ NextStage("rings", "up", left.rings)
    \/ \E p \in ImagePages : run_image(p)
    \/ TakeFrame
    \/ \E b \in held : FreeFrame(b)
    \/ \E nr \in 0 .. 5 : Syscall(nr)

Spec == Init /\ [][Next]_vars

(***************************************************************************)
(* Properties                                                              *)
(***************************************************************************)
Booted == stage # "memory"

HeldBy(H) == UNION {Of(b) : b \in H}

\* The types; a stack recorded in the table is one a caller was given.
TypeOK ==
    /\ fa.bitmap \subseteq Frames /\ fa.used \in Int /\ fa.hint \in Frames
    /\ lost \subseteq Frames
    /\ \A s \in Slots : procs.table[s].stack # 0 =>
          \E b \in held : b.by = "stack" /\ b.at = procs.table[s].stack
    /\ procs.cur \in Slots

\* Whatever order alloc, alloc_contig and free are called in, no frame is
\* handed to two callers, and none of the kernel's image and stack, none the
\* firmware keeps and none past the bitmap is handed out (frame_alloc.rs
\* reserves the span from KERNEL_BASE to KERNEL_STACK_TOP).
HeldOnce ==
    /\ \A b \in held : Of(b) \subseteq (Usable(mm) \ Kernel) \cap fa.bitmap
    /\ \A b, c \in held : b # c => Of(b) \cap Of(c) = {}

\* A frame that is marked used is the firmware's, the kernel's or somebody's:
\* the only frames that nobody holds and nobody gets are those of a block
\* at frame 0, whose address reads as a failure.
NothingLeaks ==
    Booted => /\ fa.bitmap = (Frames \ Usable(mm)) \cup (Kernel \cap Frames)
                             \cup HeldBy(held) \cup lost
              /\ lost # {} => 0 \in lost

\* Every frame has at most one owner, and one that has none can be given.
FramesKept == HeldOnce /\ NothingLeaks

\* frames_used counts every used frame except the kernel's own that the map
\* calls usable: init reserves those without counting them.
Accounting ==
    Booted => fa.used + Cardinality(Kernel \cap Usable(mm)) = Cardinality(fa.bitmap)

\* The scan of alloc_contig finds the first run of n free frames, and fails
\* only if there is none, for every bitmap that is reached and every n.
ScanIsFirstRun ==
    Booted => \A n \in 1 .. MAX_FRAMES :
        scan(fa, n) = IF Runs(fa, n) = {} THEN -1 ELSE Min(Runs(fa, n))

\* One process runs, the one CURRENT_SLOT names, and every process has had as
\* many turns as any other, or one more or less (find_next starts after the
\* current slot; tick makes the process that ran Ready again).
FairTurns ==
    /\ \A s \in Slots : procs.table[s].state = "Running" => s = procs.cur
    /\ \A s, t \in Slots \ FreeSlots :
          procs.table[s].switches - procs.table[t].switches \in -1 .. 1

\* What alloc_contig, frames_used and find_next say of the tables is true of
\* them.
ScansTrue == TypeOK /\ Accounting /\ ScanIsFirstRun /\ FairTurns
=============================================================================
