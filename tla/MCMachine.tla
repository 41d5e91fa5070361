----------------------------- MODULE MCMachine -----------------------------
(***************************************************************************)
(* The machine under the applications: frames and processes (Memory), the  *)
(* heap a page load gives back (Arena), running files (Loader), disks and  *)
(* the installer (Installer), the network adapter (E1000) and the          *)
(* hypervisor's channel (Backdoor).  They share no state in these modules, *)
(* so a behaviour follows one of them and the others stay as they began.   *)
(***************************************************************************)
EXTENDS Memory

CONSTANTS
    HEAP_SIZE, KERNEL, Sizes, MaxLoads, MaxPictures,
    MAX_RUN_DEPTH, IMAGE_MAX, HALF, CHUNK, WRITE_MAX, Bases, MaxRuns, MaxTicks,
    STAGE2_SECTORS, KERNEL_SECTORS, CHUNK_SECTORS, FS_LBA, MaxFaults, MaxStarts, MaxInstalls,
    MAX_DEVICES, TX_DESC, RX_DESC, MaxFrames,
    TRIES, RPC_BUF, Lengths, MaxCommands,
    FileKinds, Packages, Attached, Buses, Times

VARIABLES
    who,                      \* which of the six moves
    heap, st, load,           \* Arena
    calls, pe, w32, env,      \* Loader
    power, hw, ui, job,       \* Installer
    nic, cpu, tx, rx,         \* E1000
    bd, rpc, host, shown      \* Backdoor

(***************************************************************************)
(* Memory: the BIOS path, and two UEFI memory maps                         *)
(***************************************************************************)
MCRings == <<1, 1>>

D(t, s, p) == Descriptor(s, p, t)

MCBootInfos ==
    {[there |-> FALSE, magic |-> FALSE, memmap |-> <<>>],
     [there |-> TRUE, magic |-> TRUE, memmap |-> <<D(7, 0, 2), D(4, 2, 1), D(7, 3, 4), D(99, 7, 1), D(7, 10, 9)>>],
     [there |-> TRUE, magic |-> TRUE, memmap |-> <<D(6, 0, 1), D(7, 1, 9), D(11, 10, 1), D(7, 11, 5), D(0, 16, 1), D(7, 17, 1)>>]}

(***************************************************************************)
(* Loader: two programs, images of them a linker could make and the loader *)
(* must refuse or accept, scripts that run each other and themselves       *)
(***************************************************************************)
Num(v) == [k |-> "number", v |-> v]
Addr(v) == [k |-> "address", v |-> v]
Do(op, v, text) == [op |-> op, v |-> v, text |-> text]

Program(base, cells, fns, ops) ==
    [magic |-> "PE32+", machine |-> "amd64", sig |-> TRUE, base |-> base, cells |-> cells, bss |-> 1,
     calls |-> fns, orig |-> TRUE, relocs |-> TRUE, pad |-> 0, ops |-> ops]

\* One prints and exits from inside a call; the other sleeps and returns.
Prints == Program(30, <<Num(7), Addr(0), Addr(3), Num(9)>>, <<"WriteFile", "ExitProcess">>,
    <<Do("work", 0, <<>>), Do("write", 1, <<"a", "b", "c">>), Do("write", 0, <<"d">>),
      Do("work", 0, <<>>), Do("exit", 5, <<>>)>>)
Sleeps == Program(10, <<Addr(1), Addr(2), Addr(0)>>, <<"Sleep", "ReadFile">>,
    <<Do("sleep", 2, <<>>), Do("sleep", 0, <<>>), Do("read", 0, <<>>), Do("error", 3, <<>>),
      Do("write", 1, <<"a", "hi", "lo", "b">>), Do("work", 0, <<>>), Do("return", 0, <<>>)>>)

Images ==
    [prints |-> Prints, sleeps |-> Sleeps,
     iat_only |-> [Prints EXCEPT !.orig = FALSE],
     fixed |-> [Prints EXCEPT !.relocs = FALSE, !.base = 20],
     pe32 |-> [Prints EXCEPT !.magic = "PE32", !.machine = "i386"],
     mixed |-> [Prints EXCEPT !.machine = "i386"],
     unsigned |-> [Prints EXCEPT !.sig = FALSE],
     unknown |-> [Prints EXCEPT !.calls = <<"WriteFile", "CreateFileA">>],
     ordinal |-> [Prints EXCEPT !.calls = <<"", "WriteFile">>],
     highlow |-> [Prints EXCEPT !.pad = 4],
     alone |-> [Prints EXCEPT !.calls = <<>>]]

Scripts ==
    [self |-> <<"self", "# text", "self">>, both |-> <<"sleeps", "noexec", "both", "prints">>,
     noexec |-> <<>>, dir |-> <<>>]

MCFiles ==
    [path \in DOMAIN Images \cup DOMAIN Scripts |->
        [kind |-> IF path = "dir" THEN "dir" ELSE "file", x |-> path # "noexec", r |-> TRUE,
         what |-> IF path \in DOMAIN Images THEN "pe" ELSE "script",
         src |-> IF path \in DOMAIN Images THEN Images[path] ELSE Prints,
         lines |-> IF path \in DOMAIN Images THEN <<>> ELSE Scripts[path]]]

Member(name, size) == [name |-> name, size |-> size]
Deb(ms, len, whole) == [kind |-> "deb", magic |-> TRUE, members |-> ms, len |-> len, whole |-> whole]
Rpm(len, field, name) == [kind |-> "rpm", magic |-> TRUE, len |-> len, field |-> field, name |-> name]

\* The second is the one deb::test_parse makes.
MCPackages ==
    {Deb(<<Member("debian-binary", 4), Member("control.tar", 7), Member("data.tar", 5)>>, 205, TRUE),
     Deb(<<Member("debian-binary", 4), Member("control.tar", 128), Member("data.tar", 64)>>, 256, FALSE),
     Deb(<<Member("debian-binary", 4)>>, 72, TRUE),
     Rpm(128, <<3, 4, 0>>, <<3, 4>>), Rpm(128, <<3, 4, 5>>, <<3, 4, 5>>), Rpm(90, <<3, 4, 0>>, <<3, 4>>),
     [kind |-> "appimage", len |-> 64, elf |-> TRUE, mark |-> TRUE]}

(***************************************************************************)
(* Installer: nothing, a CD drive and two disks                            *)
(***************************************************************************)
Drive(k, n) == [kind |-> k, sectors |-> n]
MCAttached == <<Drive("none", 0), Drive("atapi", 0), Drive("disk", 8), Drive("disk", 9)>>

(***************************************************************************)
(* E1000: no adapter, several of them behind a full table, one without BAR *)
(***************************************************************************)
Fn(v, d, c, multi, bar) ==
    [vendor |-> v, device |-> d, class |-> c, multi |-> multi, bar |-> bar,
     ral |-> <<1, 2, 3, 4>>, rah |-> <<5, 6>>, eeprom |-> <<<<1, 2>>, <<3, 4>>, <<5, 6>>>>,
     mac |-> <<1, 2, 3, 4, 5, 6>>]

MCBuses ==
    LET bridge == Fn(32902, 1, "bridge", TRUE, 0)
        usb == Fn(5549, 2, "usb", FALSE, 1)
        older == Fn(32902, 4110, "ethernet", FALSE, 1)
        newer == Fn(32902, 4307, "ethernet", FALSE, 1)
        other == Fn(4332, 9, "ethernet", FALSE, 1)
    IN {<<>>, <<<<bridge, usb>>, <<>>, <<other>>, <<newer>>, <<older>>>>,
        <<<<usb, newer>>, <<other>>>>, <<<<Fn(32902, 4111, "ethernet", FALSE, 0)>>>>}

(***************************************************************************)
(* Backdoor: days around the ends of months, years and leap days           *)
(***************************************************************************)
MCTimes ==
    {-1, 0, 68169599, 951782400, 1709164800} \cup {86400 * d : d \in {59, 790, 24836}}

arena_vars == <<heap, st, load>>
run_vars == <<calls, pe, w32, env>>
disk_vars == <<power, hw, ui, job>>
nic_vars == <<nic, cpu, tx, rx>>
bd_vars == <<bd, rpc, host, shown>>

A == INSTANCE Arena
L == INSTANCE Loader
I == INSTANCE Installer
E == INSTANCE E1000
B == INSTANCE Backdoor

MCInit ==
    /\ Init /\ A!ArenaInit /\ L!RunInit /\ I!DiskInit /\ E!NicInit /\ B!BdInit
    /\ who \in {"memory", "arena", "loader", "installer", "adapter", "hypervisor"}

MCNext ==
    /\ UNCHANGED who
    /\ \/ who = "memory" /\ Next
          /\ UNCHANGED <<arena_vars, run_vars, disk_vars, nic_vars, bd_vars>>
       \/ who = "arena" /\ A!ArenaNext
          /\ UNCHANGED <<vars, run_vars, disk_vars, nic_vars, bd_vars>>
       \/ who = "loader" /\ L!RunNext
          /\ UNCHANGED <<vars, arena_vars, disk_vars, nic_vars, bd_vars>>
       \/ who = "installer" /\ I!DiskNext
          /\ UNCHANGED <<vars, arena_vars, run_vars, nic_vars, bd_vars>>
       \/ who = "adapter" /\ E!NicNext
          /\ UNCHANGED <<vars, arena_vars, run_vars, disk_vars, bd_vars>>
       \/ who = "hypervisor" /\ B!BdNext
          /\ UNCHANGED <<vars, arena_vars, run_vars, disk_vars, nic_vars>>

MCSpec ==
    /\ MCInit
    /\ [][MCNext]_<<vars, arena_vars, run_vars, disk_vars, nic_vars, bd_vars, who>>
    /\ L!RunFairness /\ I!DiskFairness /\ B!BdFairness

\* Arena!HeapSafe: a load gives its memory back, and nothing is followed into
\* it afterwards unless the load was replaced after its scripts had run.
HeapSafe == A!HeapSafe

\* Loader!ProgramsRun: a program runs as it was linked, prints in order, and the
\* terminal has its registers, stack and depth back when it ends.
ProgramsRun == L!ProgramsRun

\* Installer: a disk gets a boot sector only when the rest of the install is on
\* it, "done" means that it is there (run_install, write_sectors), and only the
\* disk that was confirmed is written to (on_click, start_install).
InstallsWhole ==
    /\ [](I!DiskTypeOK /\ I!BootsWhole /\ I!DoneMeansWritten)
    /\ [][I!AskedStep]_disk_vars

\* E1000!AdapterOK and Backdoor!ChannelOK: frames pass the adapter in order and
\* whole, and the hypervisor's answers are shown for what was asked.
DevicesTrue == E!AdapterOK /\ B!ChannelOK

\* Every wait for a program, a drive or the host ends, whatever it does (cmd_run
\* and Sleep, wait_not_busy and wait_drq, rpci_command's tries).
WaitsEnd == L!RunEnds /\ I!NotBusyForever /\ B!CommandEnds
=============================================================================
