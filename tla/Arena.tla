------------------------------- MODULE Arena --------------------------------
(***************************************************************************)
(* The heap (mem/heap.rs) and its one user that gives memory back: a page  *)
(* load (apps/browser.rs) and the script engine under it (apps/web/js).    *)
(* The heap only grows; heap::reset_to(mark) frees everything above a mark *)
(* without looking.  What must not happen is that something a static still *)
(* points to is used after its memory has been handed out again.           *)
(*                                                                         *)
(* Memory is counted in blocks.  A block holds the tag of the last object  *)
(* allocated there; a pointer is the block and the tag it was made with,   *)
(* so following it is right exactly when the tag is still there.           *)
(***************************************************************************)
EXTENDS Integers, Sequences, FiniteSets

CONSTANTS
    HEAP_SIZE,    \* blocks
    KERNEL,       \* blocks the rest of the kernel took before the browser
    Sizes,        \* how large what a page allocates may be
    MaxLoads,     \* bound: page loads
    MaxPictures   \* bound: pictures of a page

VARIABLES
    heap,     \* next, the blocks, LOAD_MARK
    st,       \* the statics that hold heap pointers
    load      \* STAGE, and the ghosts about earlier loads

arena_vars == <<heap, st, load>>

None == [at |-> 0, tag |-> 0]

Held == {"PROTOS", "ELEMENT_PROTO", "HOST", "PAGE_OBJ", "PENDING_NAV", "Q"}
Interpreter == {"PROTOS", "ELEMENT_PROTO", "HOST"}

\* Starts after heap::init and init_state.
ArenaInit ==
    /\ heap = [next |-> KERNEL, mem |-> [b \in 0 .. HEAP_SIZE - 1 |-> 0], tags |-> 0, mark |-> KERNEL]
    /\ st = [s \in Held |-> None]
    /\ load = [stage |-> "Idle", n |-> 0, pictures |-> 0, wild |-> {}, left |-> FALSE,
               halted |-> FALSE, tests |-> {}]

(***************************************************************************)
(* mem/heap.rs                                                             *)
(***************************************************************************)
Room(h, size) == h.next + size <= HEAP_SIZE

\* GlobalAlloc::alloc; the pointer is the new object's.
alloc(h, size) ==
    [h EXCEPT !.next = @ + size, !.tags = @ + 1,
              !.mem = [b \in DOMAIN @ |-> IF b \in h.next .. h.next + size - 1 THEN h.tags + 1 ELSE @[b]]]

Pointer(h) == [at |-> h.next, tag |-> h.tags + 1]

mark(h) == h.next

\* A mark outside the heap is ignored.
reset_to(h, m) == IF m \in 0 .. HEAP_SIZE THEN [h EXCEPT !.next = m] ELSE h

Intact(h, p) == p = None \/ h.mem[p.at] = p.tag

\* The statics among S that point at memory that is something else by now.
Wild(h, s, S) == {x \in S : ~ Intact(h, s[x])}

Clear(s, S) == [x \in Held |-> IF x \in S THEN None ELSE s[x]]

Halt == load' = [load EXCEPT !.halted = TRUE] /\ UNCHANGED <<heap, st>>

(***************************************************************************)
(* A page load                                                             *)
(***************************************************************************)
forget_nothing(s) == s

\* value::forget_prototypes and domjs::forget.
forget(s) == Clear(s, Interpreter)

\* The reset, and only then the mark.
Fresh(h) == [reset_to(h, h.mark) EXCEPT !.mark = mark(reset_to(h, h.mark))]

\* start_load, at any stage of the load before: the queue's strings are
\* dropped, the heap reset, and the old page and navigation dropped after it.
\* The interpreter's statics are not forgotten.
StartLoad(h, s, wild, refused) ==
    LET dropped == Clear(s, {"Q"})
    IN /\ heap' = Fresh(h)
       /\ st' = Clear(dropped, {"PAGE_OBJ", "PENDING_NAV"})
       /\ load' = [load EXCEPT
             !.stage = IF refused THEN "Idle" ELSE "Document", !.n = @ + 1, !.pictures = 0,
             !.left = @ \/ \E x \in Interpreter : s[x] # None,
             !.wild = wild \cup Wild(h, s, {"Q"}) \cup Wild(Fresh(h), dropped, {"PAGE_OBJ", "PENDING_NAV"})]

start_load(refused) ==
    /\ ~ load.halted /\ load.n < MaxLoads
    /\ StartLoad(heap, st, load.wild, refused)

\* The document is parsed into a tree.
capture(size) ==
    /\ ~ load.halted /\ load.stage = "Document"
    /\ IF ~ Room(heap, size) THEN Halt
       ELSE /\ heap' = alloc(heap, size)
            /\ st' = [st EXCEPT !["PAGE_OBJ"] = Pointer(heap)]
            /\ load' = [load EXCEPT !.stage = "Resources"]

\* The bodies of style sheets and scripts, kept in the queue.
sub_arrived(size) ==
    /\ ~ load.halted /\ load.stage = "Resources" /\ st["Q"] = None
    /\ IF ~ Room(heap, size) THEN Halt
       ELSE /\ heap' = alloc(heap, size)
            /\ st' = [st EXCEPT !["Q"] = Pointer(heap)]
            /\ UNCHANGED load

\* js::run: the built-ins are installed, which drops what the statics held;
\* the host is there only while scripts run.
run_scripts(h, s) ==
    LET protos == alloc(h, 1)
        element == alloc(protos, 1)
    IN [heap |-> element,
        st |-> [s EXCEPT !["PROTOS"] = Pointer(h), !["ELEMENT_PROTO"] = Pointer(protos),
                         !["HOST"] = None],
        wild |-> Wild(element, s, Interpreter)]

\* The scripts run; one of them, or a meta tag, may ask to go elsewhere.
after_resources(goes) ==
    /\ ~ load.halted /\ load.stage = "Resources"
    /\ IF ~ Room(heap, 3) THEN Halt
       ELSE LET ran == run_scripts(heap, st)
            IN /\ heap' = IF goes THEN alloc(ran.heap, 1) ELSE ran.heap
               /\ st' = [ran.st EXCEPT !["PENDING_NAV"] = IF goes THEN Pointer(ran.heap) ELSE None]
               /\ load' = [load EXCEPT !.stage = "Pictures",
                     !.wild = @ \cup ran.wild \cup Wild(heap, st, {"PAGE_OBJ", "Q"})]

picture_arrived(size) ==
    /\ ~ load.halted /\ load.stage = "Pictures" /\ load.pictures < MaxPictures
    /\ IF ~ Room(heap, size) THEN Halt
       ELSE /\ heap' = alloc(heap, size)
            /\ load' = [load EXCEPT !.pictures = @ + 1, !.wild = @ \cup Wild(heap, st, {"PAGE_OBJ"})]
            /\ UNCHANGED st

\* The page is laid out and dropped, everything is forgotten and the heap
\* reset; a navigation taken before is resolved after it, into new memory,
\* and starts the next load unless it leads to the same address.
layout_now(size, same, refused) ==
    /\ ~ load.halted /\ load.stage = "Pictures"
    /\ IF ~ Room(heap, size) THEN Halt
       ELSE LET nav == st["PENDING_NAV"]
                laid == alloc(heap, size)
                gone == Clear(forget(st), {"PAGE_OBJ", "PENDING_NAV", "Q"})
                down == reset_to(laid, laid.mark)
                seen == load.wild \cup Wild(laid, st, Held)
                resolved == IF nav = None THEN down ELSE alloc(down, 1)
                wild == seen \cup (IF Intact(resolved, nav) THEN {} ELSE {"PENDING_NAV"})
            IN IF nav = None \/ same \/ load.n >= MaxLoads
               THEN /\ heap' = resolved
                    /\ st' = gone
                    /\ load' = [load EXCEPT !.stage = "Idle", !.wild = wild]
               ELSE StartLoad(resolved, gone, wild, refused)

\* The renderer's and the network's own tests at boot: a page with scripts
\* between a mark and a reset, with the statics forgotten first.
selftest(which, size) ==
    /\ ~ load.halted /\ load.n = 0 /\ which \notin load.tests
    /\ IF ~ Room(heap, size + 2) THEN Halt
       ELSE LET m == mark(heap)
                ran == run_scripts(alloc(heap, size), st)
            IN /\ heap' = reset_to(ran.heap, m)
               /\ st' = forget(ran.st)
               /\ load' = [load EXCEPT !.tests = @ \cup {which}, !.wild = @ \cup ran.wild]

ArenaNext ==
    \/ \E refused \in BOOLEAN : start_load(refused)
    \/ \E size \in Sizes : capture(size) \/ sub_arrived(size) \/ picture_arrived(size)
    \/ \E goes \in BOOLEAN : after_resources(goes)
    \/ \E size \in Sizes, same, refused \in BOOLEAN : layout_now(size, same, refused)
    \/ \E which \in {"web", "net"}, size \in Sizes : selftest(which, size)

ArenaSpec == ArenaInit /\ [][ArenaNext]_arena_vars

(***************************************************************************)
(* Properties                                                              *)
(***************************************************************************)
\* LOAD_MARK never moves, the rest of the kernel's memory is never handed out
\* again, and a finished load leaves nothing behind but the address it was
\* asked to go to: any number of pages can be loaded one after another.
LoadsGiveBack ==
    /\ heap.mark = KERNEL /\ heap.next \in KERNEL .. HEAP_SIZE
    /\ \A b \in 0 .. KERNEL - 1 : heap.mem[b] = 0
    /\ load.stage \in {"Idle", "Document"} /\ ~ load.halted => heap.next <= KERNEL + 1

\* Nothing is followed into memory that has been handed out again, unless an
\* earlier load was replaced after its scripts had run; the page, the queue
\* and the pending navigation never are, though two of them are dropped only
\* after the reset.
WildOnlyIfAbandoned ==
    /\ load.wild \cap {"PAGE_OBJ", "Q", "PENDING_NAV"} = {}
    /\ load.wild # {} => load.left

\* A load can take its memory back at any time without being missed.
HeapSafe == LoadsGiveBack /\ WildOnlyIfAbandoned
=============================================================================
