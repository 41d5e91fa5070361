------------------------------- MODULE Loader -------------------------------
(***************************************************************************)
(* Running a file from the terminal (apps/terminal.rs cmd_run): a script   *)
(* is fed back through the command parser, a PE image is loaded            *)
(* (compat/pe_loader.rs), bound to the Win32 functions the kernel has      *)
(* (compat/win32.rs) and called; and the package readers of compat/        *)
(* (deb.rs, rpm.rs, appimage.rs).                                          *)
(*                                                                         *)
(* An address is counted in cells: a cell is one 64-bit word of the image, *)
(* or one entry of one of its tables.  Images are the ones a linker makes  *)
(* (Link, at the end of the loader's part).                                *)
(***************************************************************************)
EXTENDS Integers, Sequences, FiniteSets, SequencesExt

CONSTANTS
    FileKinds,       \* what a path names: see cmd_run
    Bases,           \* where the frame allocator may put an image
    MAX_RUN_DEPTH,
    IMAGE_MAX,       \* the largest image that is loaded
    HALF,            \* how many values half a word has
    CHUNK,           \* how much WriteFile copies at a time
    WRITE_MAX,       \* the most it writes
    MaxRuns,         \* bound: commands typed at the prompt
    MaxTicks,        \* bound: timer ticks
    Packages         \* the packages read

VARIABLES
    calls,    \* the scripts that are running, the innermost last
    pe,       \* the image that is loaded and what the CPU is doing with it
    w32,      \* what the Win32 functions keep, and what they printed
    env       \* images still holding their memory, ticks, and the bounds

run_vars == <<calls, pe, w32, env>>

(***************************************************************************)
(* The file as the loader reads it                                         *)
(***************************************************************************)
Cell(k, a, b, s, es) == [k |-> k, a |-> a, b |-> b, s |-> s, es |-> es]
Zero == Cell("zero", 0, 0, "", <<>>)
Word(v) == IF v = 0 THEN Zero ELSE Cell("word", v, 0, "", <<>>)
Function(name) == Cell("function", 0, 0, name, <<>>)

\* A name table, with room for the terminator.
Table(cells) == Append(cells, Zero)

Exported == {"GetStdHandle", "WriteFile", "WriteConsoleA", "ReadFile",
    "SetConsoleTextAttribute", "GetLastError", "SetLastError", "GetTickCount",
    "GetTickCount64", "GetModuleHandleA", "GetCommandLineA", "GetProcessHeap",
    "HeapAlloc", "HeapFree", "Sleep", "lstrlenA", "ExitProcess"}

resolve(name) == name \in Exported

Failed(why) == [ok |-> FALSE, why |-> why, mem |-> <<>>]
Loaded(mem) == [ok |-> TRUE, why |-> "", mem |-> mem]

\* The headers' own checks, in their order.
parse(f) ==
    IF ~ f.mz THEN "not an executable (no MZ)"
    ELSE IF ~ f.pe THEN "no PE signature"
    ELSE IF f.truncated THEN "truncated header"
    ELSE IF <<f.magic, f.machine>> \notin {<<"PE32+", "amd64">>, <<"PE32", "i386">>}
         THEN "machine"
    ELSE IF f.size = 0 \/ f.size > IMAGE_MAX THEN "implausible image size"
    ELSE ""

NoOffset == -1

\* A section spans the larger of its two sizes, though only raw_size cells of
\* it are in the file.
rva_to_offset(f, rva) ==
    LET In(s) == rva >= s.va /\ rva < s.va + (IF s.vsize > s.raw THEN s.vsize ELSE s.raw)
        I == {i \in DOMAIN f.sections : In(f.sections[i])}
        s == f.sections[CHOOSE i \in I : \A j \in I : i <= j]
    IN IF rva < f.headers THEN rva
       ELSE IF I = {} THEN NoOffset
       ELSE IF s.ptr + (rva - s.va) >= Len(f.cells) THEN NoOffset
       ELSE s.ptr + (rva - s.va)

At(f, offset) == f.cells[offset + 1]

\* Everything is zeroed, the headers copied, then each section that has data.
map_sections(f) ==
    [a \in 0 .. f.size - 1 |->
        LET I == {i \in DOMAIN f.sections :
                    /\ f.sections[i].raw # 0 /\ f.sections[i].ptr # 0
                    /\ a >= f.sections[i].va /\ a < f.sections[i].va + f.sections[i].raw
                    /\ f.sections[i].ptr + (a - f.sections[i].va) < Len(f.cells)}
            s == f.sections[CHOOSE i \in I : \A j \in I : i >= j]
        IN IF I # {} THEN At(f, s.ptr + (a - s.va))
           ELSE IF a < f.headers /\ a < Len(f.cells) THEN At(f, a)
           ELSE Zero]

REL_ABSOLUTE == 0
REL_HIGHLOW == 3
REL_DIR64 == 10

Fixup_abs(mem, target, kind, delta) == [mem EXCEPT ![target] = Word(@.a + delta)]

\* A padding entry, a whole word, or only its low half.
Fixup(mem, target, kind, delta) ==
    CASE kind = REL_ABSOLUTE -> mem
      [] kind = REL_DIR64 -> [mem EXCEPT ![target] = Word(@.a + delta)]
      [] kind = REL_HIGHLOW ->
           [mem EXCEPT ![target] = Word(((@.a + delta) % HALF) + (@.a \div HALF) * HALF)]

\* Block by block as long as reloc_size reaches; an entry of another kind ends
\* the load.
apply_relocations(f, mem, base) ==
    LET delta == base - f.base
        start == rva_to_offset(f, f.reloc_rva)
        blocks == [i \in 1 .. f.reloc_size |-> At(f, start + i - 1)]
        fixups == FlattenSeq([i \in DOMAIN blocks |->
            [e \in DOMAIN blocks[i].es |->
                [to |-> blocks[i].a + blocks[i].es[e].off, kind |-> blocks[i].es[e].kind]]])
        after[i \in 0 .. Len(fixups)] ==
            IF i = 0 THEN mem ELSE Fixup(after[i - 1], fixups[i].to, fixups[i].kind, delta)
    IN IF f.reloc_rva = 0 \/ f.reloc_size = 0
       THEN IF delta = 0 THEN Loaded(mem) ELSE Failed("no relocation table")
       ELSE IF delta = 0 THEN Loaded(mem)
       ELSE IF start = NoOffset THEN Failed("rva")
       ELSE IF \E i \in DOMAIN fixups : fixups[i].kind \notin {REL_ABSOLUTE, REL_HIGHLOW, REL_DIR64}
            THEN Failed("unsupported relocation type")
       ELSE Loaded(after[Len(fixups)])

\* The cells from an offset to the terminator.
UpToZero(f, from) ==
    LET n == CHOOSE k \in 0 .. Len(f.cells) - from :
                 /\ At(f, from + k) = Zero
                 /\ \A j \in 0 .. k - 1 : At(f, from + j) # Zero
    IN [i \in 1 .. n |-> At(f, from + i - 1)]

\* The name table, or the address table where there is only that.
thunk_table(d) == IF d.a # 0 THEN d.a ELSE d.b

\* Each descriptor's names, looked up and written into its address table.
bind_imports(f, mem) ==
    LET dlls == UpToZero(f, rva_to_offset(f, f.import_rva))
        names(d) == UpToZero(f, rva_to_offset(f, thunk_table(d)))
        fn(t) == IF t.k = "ordinal" THEN "" ELSE At(f, rva_to_offset(f, t.a)).s
        Slots == {<<i, j>> \in (DOMAIN dlls) \X (1 .. Len(f.cells)) : j \in DOMAIN names(dlls[i])}
        at(p) == dlls[p[1]].b + p[2] - 1
        bound(p) == fn(names(dlls[p[1]])[p[2]])
    IN IF f.import_rva = 0 THEN Loaded(mem)
       ELSE IF \E p \in Slots : ~ resolve(bound(p))
            THEN Failed("an import could not be resolved")
       ELSE Loaded([a \in DOMAIN mem |->
              IF \E p \in Slots : at(p) = a
              THEN Function(bound(CHOOSE p \in Slots : at(p) = a)) ELSE mem[a]])

\* Map, then relocate, then bind; the frames stay taken whatever happens next.
load(f, base) ==
    LET moved == apply_relocations(f, map_sections(f), base)
    IN IF ~ moved.ok THEN moved ELSE bind_imports(f, moved.mem)

(***************************************************************************)
(* The linker (external): a source is what each cell of the program should *)
(* be - a number, the address of another of its cells, or nothing yet -    *)
(* and the functions it calls.  One page holds PAGE cells.                 *)
(***************************************************************************)
PAGE == 2
HEADERS == 1

Content(p, c) ==
    CASE c.k = "number" -> Word(c.v)
      [] c.k = "address" -> Word(p.base + HEADERS + c.v)
      [] OTHER -> Zero

Pages(p) == {(HEADERS + i - 1) \div PAGE : i \in {i \in DOMAIN p.cells : p.cells[i].k = "address"}}

Block(p, page) ==
    LET at == {i \in DOMAIN p.cells : p.cells[i].k = "address" /\ (HEADERS + i - 1) \div PAGE = page}
        entry(i) == [kind |-> REL_DIR64, off |-> HEADERS + i - 1 - page * PAGE]
        es == [k \in 1 .. Cardinality(at) |-> entry(SetToSortSeq(at, <)[k])]
    IN Cell("block", page * PAGE, 0, "", Append(es, [kind |-> p.pad, off |-> 0]))

\* One data section that is longer in memory than in the file, one for the
\* import tables, one for the relocations.
Link(p) ==
    LET n == Len(p.cells)
        imp == HEADERS + n + p.bss
        m == Len(p.calls)
        iat == imp + 2 + (IF p.orig THEN m + 1 ELSE 0)
        names == iat + m + 1
        thunks == Table([i \in 1 .. m |-> IF p.calls[i] = "" THEN Cell("ordinal", i, 0, "", <<>>)
                                          ELSE Cell("thunk", names + i - 1, 0, "", <<>>)])
        tables == <<Cell("descriptor", IF p.orig THEN imp + 2 ELSE 0, iat, "", <<>>), Zero>>
                  \o (IF p.orig THEN thunks ELSE <<>>) \o thunks
                  \o [i \in 1 .. m |-> Cell("hint", 0, 0, p.calls[i], <<>>)]
        blocks == [k \in 1 .. Cardinality(Pages(p)) |-> Block(p, SetToSortSeq(Pages(p), <)[k])]
        rel == imp + Len(tables)
    IN [mz |-> TRUE, pe |-> p.sig, truncated |-> FALSE, magic |-> p.magic, machine |-> p.machine, base |-> p.base,
        headers |-> HEADERS, size |-> rel + Len(blocks),
        cells |-> <<Cell("header", 0, 0, "", <<>>)>> \o [i \in 1 .. n |-> Content(p, p.cells[i])]
                  \o tables \o blocks,
        sections |-> <<[va |-> HEADERS, vsize |-> n + p.bss, raw |-> n, ptr |-> HEADERS],
                       [va |-> imp, vsize |-> Len(tables), raw |-> Len(tables), ptr |-> HEADERS + n],
                       [va |-> rel, vsize |-> Len(blocks), raw |-> Len(blocks),
                        ptr |-> HEADERS + n + Len(tables)]>>,
        import_rva |-> IF m = 0 THEN 0 ELSE imp,
        reloc_rva |-> IF p.relocs THEN rel ELSE 0,
        reloc_size |-> IF p.relocs THEN Len(blocks) ELSE 0,
        iat |-> iat]

(***************************************************************************)
(* Running                                                                 *)
(***************************************************************************)
NoImage == [at |-> "idle", src |-> <<>>, base |-> 0, mem |-> <<>>, iat |-> 0, pc |-> 0,
            rsp |-> 0, since |-> 0, code |-> 0, why |-> ""]

RunInit ==
    /\ calls = <<>>
    /\ pe = NoImage
    /\ w32 = [out |-> <<>>, want |-> <<>>, last_error |-> 0]
    /\ env = [depth |-> 0, taken |-> {}, ticks |-> 0, typed |-> 0,
              stack |-> <<"caller">>, regs |-> "kernel", given |-> <<>>, got |-> <<>>]

\* run_pe_image, run and call_image: the frames of the image are never given
\* back.  The registers are pushed and pe_rsp remembers where.
run_pe(src, base) ==
    LET f == Link(src)
        done == load(f, base)
        why == IF parse(f) # "" THEN parse(f)
               ELSE IF f.magic # "PE32+" THEN "32-bit executable"
               ELSE IF base = 0 THEN "could not allocate the image"
               ELSE done.why
    IN /\ pe' = IF why # "" THEN [NoImage EXCEPT !.why = why]
                ELSE [NoImage EXCEPT !.at = "image", !.src = src, !.base = base, !.iat = f.iat,
                                     !.mem = done.mem, !.pc = 1, !.rsp = Len(env.stack) + 1]
       /\ env' = [env EXCEPT
              !.taken = IF parse(f) = "" /\ f.magic = "PE32+" /\ base # 0 THEN @ \cup {base} ELSE @,
              !.stack = IF why = "" THEN Append(@, "regs") ELSE @,
              !.typed = IF calls = <<>> THEN @ + 1 ELSE @]

Script(path, cs) == Append(cs, [path |-> path, line |-> 1])

Enters(path) == env.depth < MAX_RUN_DEPTH

\* The checks of cmd_run, then an image or a script; cs is what is running
\* once this line has been read.
cmd_run(path, cs) ==
    LET k == FileKinds[path]
        may == k.kind = "file" /\ k.x /\ k.r
    IN \/ /\ ~ may
          /\ calls' = cs
          /\ env' = [env EXCEPT !.typed = IF calls = <<>> THEN @ + 1 ELSE @]
          /\ UNCHANGED <<pe, w32>>
       \/ /\ may /\ k.what = "pe"
          /\ \E base \in (Bases \ env.taken) \cup (IF Bases \subseteq env.taken THEN {0} ELSE {}) :
                run_pe(k.src, base)
          /\ calls' = cs
          /\ UNCHANGED w32
       \/ /\ may /\ k.what = "script"
          /\ calls' = IF Enters(path) THEN Script(path, cs) ELSE cs
          /\ env' = [env EXCEPT !.depth = IF Enters(path) THEN @ + 1 ELSE @,
                                !.typed = IF calls = <<>> THEN @ + 1 ELSE @]
          /\ UNCHANGED <<pe, w32>>

Prompt ==
    /\ calls = <<>> /\ pe.at = "idle" /\ env.typed < MaxRuns
    /\ \E path \in DOMAIN FileKinds : cmd_run(path, <<>>)

Lines(c) == FileKinds[c.path].lines

\* The next line of the innermost script: another command, or run again.
ScriptLine ==
    /\ calls # <<>> /\ pe.at = "idle"
    /\ LET c == Last(calls)
           on == Append(Front(calls), [c EXCEPT !.line = @ + 1])
       IN /\ c.line <= Len(Lines(c))
          /\ IF Lines(c)[c.line] \in DOMAIN FileKinds
             THEN cmd_run(Lines(c)[c.line], on)
             ELSE calls' = on /\ UNCHANGED <<pe, w32, env>>

ScriptEnds ==
    /\ calls # <<>> /\ pe.at = "idle" /\ Last(calls).line > Len(Lines(Last(calls)))
    /\ calls' = Front(calls)
    /\ env' = [env EXCEPT !.depth = @ - 1]
    /\ UNCHANGED <<pe, w32>>

(***************************************************************************)
(* The image runs, and calls what it imported                              *)
(***************************************************************************)
Op == pe.src.ops[pe.pc]
Runs(op) == pe.at = "image" /\ Op.op = op
On == pe' = [pe EXCEPT !.pc = @ + 1]

\* It uses the stack and the registers as it likes.
ImageWorks ==
    /\ Runs("work")
    /\ env' = [env EXCEPT !.stack = Append(@, "image"), !.regs = "image"]
    /\ On /\ UNCHANGED <<calls, w32>>

ExitProcess(stack) == SubSeq(stack, 1, pe.rsp)

\* pe_restore: the registers come off the stack and ret takes what is next.
\* From a return the code is always zero; the stack is then the image's to
\* have cleaned up.
Leave(stack, code) ==
    /\ env' = [env EXCEPT !.regs = IF Last(stack) = "regs" THEN "kernel" ELSE "lost",
                          !.stack = Front(stack)]
    /\ pe' = [NoImage EXCEPT !.at = IF Last(Front(stack)) = "caller" THEN "idle" ELSE "lost",
                             !.code = code]
    /\ UNCHANGED <<calls, w32>>

ImageLeaves ==
    \/ Runs("exit") /\ Leave(ExitProcess(env.stack), Op.v)
    \/ Runs("return") /\ Leave(SubSeq(env.stack, 1, pe.rsp), 0)

\* Bytes: a letter, or the two halves of a longer character.
Utf8(s) == \A i \in DOMAIN s :
    /\ s[i] = "hi" => i < Len(s) /\ s[i + 1] = "lo"
    /\ s[i] = "lo" => i > 1 /\ s[i - 1] = "hi"

Chunks(s) ==
    [k \in 1 .. (Len(s) + CHUNK - 1) \div CHUNK |->
        SubSeq(s, (k - 1) * CHUNK + 1, IF k * CHUNK < Len(s) THEN k * CHUNK ELSE Len(s))]

\* Chunk by chunk; one that is not text is not shown, and counts as written.
WriteFile ==
    /\ Runs("write")
    /\ LET text == SubSeq(Op.text, 1, IF Len(Op.text) < WRITE_MAX THEN Len(Op.text) ELSE WRITE_MAX)
       IN w32' = IF Op.v = 0 THEN [w32 EXCEPT !.last_error = 6]
                 ELSE [w32 EXCEPT !.out = @ \o FlattenSeq(SelectSeq(Chunks(text), Utf8)),
                                  !.want = @ \o text]
    /\ On /\ UNCHANGED <<calls, env>>

\* No standard input: the end of the file, always.
ReadFile ==
    /\ Runs("read")
    /\ w32' = [w32 EXCEPT !.last_error = 38]
    /\ On /\ UNCHANGED <<calls, env>>

SetLastError ==
    /\ Runs("error")
    /\ w32' = [w32 EXCEPT !.last_error = Op.v]
    /\ On /\ UNCHANGED <<calls, env>>

\* Waits for whole ticks; less than one is no wait.
Sleep ==
    /\ Runs("sleep")
    /\ pe' = IF Op.v = 0 THEN [pe EXCEPT !.pc = @ + 1]
             ELSE [pe EXCEPT !.at = "asleep", !.since = env.ticks]
    /\ UNCHANGED <<calls, w32, env>>

Slept_signed(v) == env.ticks >= pe.since + v

Slept(v) == (env.ticks - pe.since) % (MaxTicks + 1) >= v

SleepEnds ==
    /\ pe.at = "asleep" /\ Slept(Op.v)
    /\ pe' = [pe EXCEPT !.at = "image", !.pc = @ + 1]
    /\ UNCHANGED <<calls, w32, env>>

\* The counter wraps; it is only looked at by a program that sleeps.
Tick ==
    /\ pe.at = "asleep" /\ ~ Slept(Op.v)
    /\ env' = [env EXCEPT !.ticks = (@ + 1) % (MaxTicks + 1)]
    /\ UNCHANGED <<calls, pe, w32>>

(***************************************************************************)
(* Packages                                                                *)
(***************************************************************************)
AR_MAGIC == 8
AR_HEADER == 60

Padded(size) == ((AR_HEADER + size + 1) \div 2) * 2

\* How ar lays members out (external): each starts at an even offset.
MemberStart(p, i) ==
    LET start[k \in 1 .. i] ==
            IF k = 1 THEN AR_MAGIC
            ELSE LET end == start[k - 1] + AR_HEADER + p.members[k - 1].size IN end + (end % 2)
    IN start[i]

\* What the parser takes for the header at an offset.
HeaderAt(p, offset) ==
    IF \E i \in DOMAIN p.members : MemberStart(p, i) = offset
    THEN p.members[CHOOSE i \in DOMAIN p.members : MemberStart(p, i) = offset]
    ELSE [name |-> "", size |-> 0]

\* Member after member while a whole header is left; valid from three on.
deb_parse(p) ==
    LET from[o \in 0 .. p.len] ==
            IF o + AR_HEADER > p.len THEN <<>>
            ELSE LET next == o + Padded(HeaderAt(p, o).size)
                 IN <<HeaderAt(p, o)>> \o (IF next > p.len THEN <<>> ELSE from[next])
        found == IF p.magic THEN from[AR_MAGIC] ELSE <<>>
        size(name) == LET I == {i \in DOMAIN found : found[i].name = name}
                      IN IF I = {} THEN 0 ELSE found[CHOOSE i \in I : \A j \in I : i >= j].size
    IN [valid |-> Len(found) >= 3, control |-> size("control.tar"), data |-> size("data.tar")]

RPM_LEAD == 96

\* The lead only: the name ends at the first zero or fills its field.
rpm_parse(p) ==
    IF p.len < RPM_LEAD \/ ~ p.magic THEN [valid |-> FALSE, name |-> <<>>]
    ELSE [valid |-> TRUE,
          name |-> LET Z == {i \in DOMAIN p.field : p.field[i] = 0}
                   IN IF Z = {} THEN p.field
                      ELSE SubSeq(p.field, 1, (CHOOSE i \in Z : \A j \in Z : i <= j) - 1)]

\* An ELF file with the type-2 mark.  The payload is taken to start at 4096;
\* in a file shorter than that its size wraps.
appimage_detect(p) == [valid |-> p.len >= 12 /\ p.elf /\ p.mark, wraps |-> p.len < 4096]

\* compat::init reads one of each at boot.
ReadPackage ==
    /\ calls = <<>> /\ pe.at = "idle" /\ env.typed = 0 /\ env.given = <<>>
    /\ \E p \in Packages :
          env' = [env EXCEPT !.given = <<p>>,
                             !.got = <<CASE p.kind = "deb" -> deb_parse(p)
                                         [] p.kind = "rpm" -> rpm_parse(p)
                                         [] p.kind = "appimage" -> appimage_detect(p)>>]
    /\ UNCHANGED <<calls, pe, w32>>

(***************************************************************************)
(* Next                                                                    *)
(***************************************************************************)
Works == ImageWorks \/ ImageLeaves \/ WriteFile \/ ReadFile \/ SetLastError \/ Sleep \/ SleepEnds

Goes == ScriptLine \/ ScriptEnds \/ Works \/ Tick

RunNext == ReadPackage \/ Prompt \/ Goes

Busy == calls # <<>> \/ pe.at # "idle"

\* The CPU and the timer go on.  Goes is enabled exactly while Busy, so this
\* is weak fairness of Goes, with its enabling condition written out.
RunFairness == []<>(~ Busy) \/ []<><<Goes>>_run_vars

RunSpec == RunInit /\ [][RunNext]_run_vars /\ RunFairness

(***************************************************************************)
(* Properties                                                              *)
(***************************************************************************)
\* The machine is in one of its states and the CPU's own registers are never
\* lost: whenever the terminal has control again, after a return or an
\* ExitProcess from any depth of the image's stack, the registers are the
\* kernel's and its stack is what it was before the call.
ComesBack ==
    /\ pe.at \in {"idle", "image", "asleep"}
    /\ pe.at = "idle" => env.regs = "kernel" /\ env.stack = <<"caller">>

\* While an image runs, each of its cells is what its source says, wherever
\* it was loaded: numbers as they were, addresses moved by as much as the
\* image, memory without data zero, and every slot of the import address
\* table the function of that name.
LoadedAsLinked ==
    pe.at = "image" =>
        LET p == pe.src
            n == Len(p.cells)
            where(i) == pe.mem[HEADERS + i - 1]
        IN /\ \A i \in 1 .. n :
                 where(i) = CASE p.cells[i].k = "number" -> Word(p.cells[i].v)
                              [] p.cells[i].k = "address" -> Word(pe.base + HEADERS + p.cells[i].v)
           /\ \A i \in n + 1 .. n + p.bss : where(i) = Zero
           /\ \A j \in DOMAIN p.calls : pe.mem[pe.iat + j - 1] = Function(p.calls[j])

\* Scripts that run scripts, themselves included, nest at most MAX_RUN_DEPTH
\* deep, and RUN_DEPTH is back at zero at every prompt, whichever way the
\* runs inside them ended.
DepthKept == env.depth = Len(calls) /\ env.depth <= MAX_RUN_DEPTH

Ascii(s) == \A i \in DOMAIN s : s[i] \notin {"hi", "lo"}

\* What programs print arrives in order and whole, as long as it is plain
\* text: no chunk boundary of WriteFile loses or repeats any of it.
PrintedInOrder == Ascii(w32.want) => w32.out = w32.want

\* The readers find what the packing tools wrote: the sizes of the two
\* archives of a whole .deb, the name of an .rpm.
PackagesRead ==
    \A i \in DOMAIN env.given :
        LET p == env.given[i]
            g == env.got[i]
        IN /\ p.kind = "deb" /\ p.magic /\ p.whole =>
                 /\ g.valid = (Len(p.members) >= 3)
                 /\ \A k \in DOMAIN p.members :
                       /\ p.members[k].name = "control.tar" => g.control = p.members[k].size
                       /\ p.members[k].name = "data.tar" => g.data = p.members[k].size
           /\ p.kind = "rpm" /\ g.valid => g.name = p.name

\* A program runs as it was linked, prints what it prints, and the terminal is
\* as before when it ends.
ProgramsRun == ComesBack /\ LoadedAsLinked /\ DepthKept /\ PrintedInOrder /\ PackagesRead

\* Every command comes back to the prompt: nested and self-calling scripts
\* end, and a sleeping program wakes even when the tick counter wraps.
RunEnds == Busy ~> ~ Busy
=============================================================================
