----------------------------- MODULE Installer -----------------------------
(***************************************************************************)
(* The ATA driver (dev/ata.rs) and the installer (apps/installer.rs) that  *)
(* writes the running system to a disk through it, with drives that report *)
(* errors, answer late or lose power.                                      *)
(*                                                                         *)
(* A sector's content is the part of the system it belongs to and the      *)
(* install that wrote it.  A drive keeps what it was sent in a cache until *)
(* a flush is over; when the power fails any part of the cache may have    *)
(* reached the platter.                                                    *)
(***************************************************************************)
EXTENDS Integers, Sequences, FiniteSets, SequencesExt

CONSTANTS
    STAGE2_SECTORS, KERNEL_SECTORS, CHUNK_SECTORS, FS_LBA,
    Attached,    \* the four IDE positions: nothing, a CD drive or a disk
    MaxFaults,   \* bound: faults of the drives
    MaxStarts,   \* bound: times the machine is started
    MaxInstalls  \* bound: installs

KERNEL_LBA == 1 + STAGE2_SECTORS

VARIABLES
    power,   \* on, and how often it was switched on
    hw,      \* what the drives hold
    ui,      \* the window: SELECTED, BUSY, PENDING, DONE
    job      \* how far run_install is

disk_vars == <<power, hw, ui, job>>

Positions == DOMAIN Attached

(***************************************************************************)
(* dev/ata.rs                                                              *)
(***************************************************************************)
\* A position that does not answer, or answers like a CD drive, is no drive.
identify(p) == Attached[p].kind = "disk"

Disks == {p \in Positions : identify(p)}

Drives == SelectSeq([p \in Positions |-> p], identify)

count == Len(Drives)

Sectors(p) == Attached[p].sectors

\* An access past the end is refused; so is one while the drive is busy.
issue(p, w) == w.lba + w.n <= Sectors(p)

(***************************************************************************)
(* apps/installer.rs: what is written, in order                            *)
(***************************************************************************)
Write(what, lba, n) == [what |-> what, lba |-> lba, n |-> n]

\* format and save write one block at a time: the inode table, the bitmap and
\* the superblock; then the files, the inode table, the bitmap and the
\* superblock.
format == <<Write("empty", FS_LBA + 1, 1), Write("empty", FS_LBA + 2, 1), Write("empty", FS_LBA, 1)>>
save == <<Write("fs", FS_LBA + 3, 1), Write("fs", FS_LBA + 1, 1), Write("fs", FS_LBA + 2, 1),
          Write("fs", FS_LBA, 1)>>

write_image(what, lba, len) ==
    [i \in 1 .. (len + CHUNK_SECTORS - 1) \div CHUNK_SECTORS |->
        LET done == (i - 1) * CHUNK_SECTORS
        IN Write(what, lba + done,
                 IF len - done < CHUNK_SECTORS THEN len - done ELSE CHUNK_SECTORS)]

run_install_mbr_first ==
    write_image("mbr", 0, 1) \o format \o save
    \o write_image("kernel", KERNEL_LBA, KERNEL_SECTORS) \o write_image("loader", 1, STAGE2_SECTORS)

\* The boot sector is the last thing that is written.
run_install ==
    format \o save
    \o write_image("kernel", KERNEL_LBA, KERNEL_SECTORS) \o write_image("loader", 1, STAGE2_SECTORS)
    \o write_image("mbr", 0, 1)

Installed ==
    [l \in {0} \cup 1 .. STAGE2_SECTORS \cup KERNEL_LBA .. KERNEL_LBA + KERNEL_SECTORS - 1
              \cup FS_LBA .. FS_LBA + 3 |->
        IF l = 0 THEN "mbr" ELSE IF l < KERNEL_LBA THEN "loader"
        ELSE IF l >= FS_LBA THEN "fs" ELSE "kernel"]

(***************************************************************************)
(* Starting the machine, and losing power                                  *)
(***************************************************************************)
Blank == [what |-> "blank", gen |-> 0]
NoJob == [on |-> FALSE, drive |-> 0, at |-> 0, s |-> 0, issued |-> FALSE]
NoUi == [sel |-> 0, busy |-> FALSE, pending |-> FALSE, done |-> FALSE]

DiskInit ==
    /\ power = [on |-> FALSE, starts |-> 0]
    /\ hw = [platter |-> [p \in Positions |-> [l \in 0 .. Sectors(p) - 1 |-> Blank]],
             cache |-> [p \in Positions |-> <<>>], flushing |-> {}, dropped |-> {},
             faults |-> MaxFaults, gen |-> 0, had |-> {}, asked |-> 0, whole |-> 0]
    /\ ui = NoUi /\ job = NoJob

\* The window opens with the largest disk selected.
open ==
    /\ ~ power.on /\ power.starts < MaxStarts
    /\ power' = [on |-> TRUE, starts |-> power.starts + 1]
    /\ ui' = [NoUi EXCEPT !.sel =
                 IF count = 0 THEN 0
                 ELSE CHOOSE i \in 1 .. count :
                        /\ \A j \in 1 .. count : Sectors(Drives[j]) <= Sectors(Drives[i])
                        /\ \A j \in 1 .. i - 1 : Sectors(Drives[j]) < Sectors(Drives[i])]
    /\ UNCHANGED <<hw, job>>

\* The sectors of c in S are on the platter, over what was there.
Stored(platter, c, S) ==
    [l \in DOMAIN platter |-> IF l \in S THEN c[l] ELSE platter[l]]

Off == power' = [power EXCEPT !.on = FALSE] /\ ui' = NoUi /\ job' = NoJob

PowerFails ==
    /\ power.on
    /\ \E S \in [Positions -> SUBSET UNION {DOMAIN hw.cache[p] : p \in Positions}] :
          /\ \A p \in Positions : S[p] \subseteq DOMAIN hw.cache[p]
          /\ hw' = [hw EXCEPT
                !.platter = [p \in Positions |-> Stored(@[p], hw.cache[p], S[p])],
                !.cache = [p \in Positions |-> <<>>], !.flushing = {}, !.whole = 0]
    /\ Off

(***************************************************************************)
(* The window                                                              *)
(***************************************************************************)
OnClick == power.on /\ ~ job.on /\ ~ ui.busy /\ UNCHANGED <<power, job>>

select(row) ==
    /\ OnClick
    /\ row <= count
    /\ ui' = [ui EXCEPT !.sel = row] /\ UNCHANGED hw

start_install ==
    /\ OnClick /\ hw.gen < MaxInstalls
    /\ ui' = [ui EXCEPT !.busy = TRUE, !.pending = TRUE]
    /\ hw' = [hw EXCEPT !.asked = ui.sel]

\* The machine is reset; the drives keep their power and finish what they have.
reboot ==
    /\ power.on /\ ~ job.on /\ ~ ui.busy
    /\ hw' = [hw EXCEPT
          !.platter = [p \in Positions |-> Stored(@[p], hw.cache[p], DOMAIN hw.cache[p])],
          !.cache = [p \in Positions |-> <<>>], !.flushing = {}, !.whole = 0]
    /\ Off

NoBootSector(p) == hw.platter[p][0] = Blank /\ 0 \notin DOMAIN hw.cache[p]

\* run_install starts on the disk that is selected now; without one it is over.
tick ==
    /\ power.on /\ ui.pending /\ UNCHANGED power
    /\ IF ui.sel = 0
       THEN ui' = [ui EXCEPT !.pending = FALSE, !.busy = FALSE] /\ UNCHANGED <<hw, job>>
       ELSE /\ ui' = [ui EXCEPT !.pending = FALSE]
            /\ job' = [NoJob EXCEPT !.on = TRUE, !.drive = Drives[ui.sel], !.at = 1]
            /\ hw' = [hw EXCEPT !.gen = @ + 1, !.whole = 0,
                         !.had = IF NoBootSector(Drives[ui.sel])
                                 THEN @ \ {Drives[ui.sel]} ELSE @ \cup {Drives[ui.sel]}]

(***************************************************************************)
(* write_sectors, one sector at a time                                     *)
(***************************************************************************)
Writing == power.on /\ job.on /\ UNCHANGED power

Current == run_install[job.at]

\* Whatever fails, run_install returns and tick clears BUSY.
Fail == job' = NoJob /\ ui' = [ui EXCEPT !.busy = FALSE]

Fault == hw.faults > 0

issue_refused ==
    /\ Writing /\ ~ job.issued
    /\ ~ issue(job.drive, Current)
    /\ Fail /\ UNCHANGED hw

\* The drive is still busy after POLL_LIMIT polls, is gone, or reports ERR.
issue_fails ==
    /\ Writing /\ ~ job.issued
    /\ job.drive \in hw.flushing \/ Fault
    /\ hw' = [hw EXCEPT !.faults = IF job.drive \in hw.flushing THEN @ ELSE @ - 1]
    /\ Fail

\* issue waits until a flush that took too long is over.
issue_ok ==
    /\ Writing /\ ~ job.issued /\ issue(job.drive, Current)
    /\ job.drive \notin hw.flushing
    /\ job' = [job EXCEPT !.issued = TRUE]
    /\ UNCHANGED <<hw, ui>>

\* wait_drq, then the 256 words of a sector.
sector ==
    /\ Writing /\ job.issued /\ job.s < Current.n
    /\ LET l == Current.lba + job.s
           c == [what |-> Current.what, gen |-> hw.gen]
       IN hw' = [hw EXCEPT
             !.cache[job.drive] = [x \in DOMAIN @ \cup {l} |-> IF x = l THEN c ELSE @[x]]]
    /\ job' = [job EXCEPT !.s = @ + 1]
    /\ UNCHANGED ui

\* The drive reports an error, or does not ask for the sector in time.
wait_drq_fails ==
    /\ Writing /\ job.issued /\ job.s < Current.n /\ Fault
    /\ hw' = [hw EXCEPT !.faults = @ - 1]
    /\ Fail

Flushed(h, p) ==
    [h EXCEPT !.platter[p] = Stored(@, h.cache[p], DOMAIN h.cache[p]),
              !.cache[p] = <<>>, !.flushing = @ \ {p}]

\* The last sector has no later wait_drq that would see its error: the drive
\* may lose it and the write counts as done.
Dropped(h, p, l) ==
    [h EXCEPT !.faults = @ - 1, !.dropped = @ \cup {<<p, l>>},
              !.cache[p] = [x \in DOMAIN @ \ {l} |-> @[x]]]

IsLast == job.at = Len(run_install)

\* CMD_FLUSH and the wait for it, whose outcome is not looked at; then the next
\* write, or the end of the install.
flush ==
    /\ Writing /\ job.issued /\ job.s = Current.n
    /\ LET p == job.drive
           l == Current.lba + Current.n - 1
           after == IF IsLast THEN [hw EXCEPT !.whole = p] ELSE hw
       IN /\ hw' \in {Flushed(after, p)}
                     \cup (IF Fault THEN {[after EXCEPT !.faults = @ - 1, !.flushing = @ \cup {p}],
                                          Flushed(Dropped(after, p, l), p)} ELSE {})
          /\ IF IsLast THEN job' = NoJob /\ ui' = [ui EXCEPT !.busy = FALSE, !.done = TRUE]
             ELSE job' = [job EXCEPT !.at = @ + 1, !.s = 0, !.issued = FALSE] /\ UNCHANGED ui

\* The drive is done with a flush that nobody waits for any more.
FlushEnds(p) ==
    /\ power.on /\ p \in hw.flushing
    /\ hw' = Flushed(hw, p)
    /\ UNCHANGED <<power, ui, job>>

Step == issue_refused \/ issue_fails \/ issue_ok \/ sector \/ wait_drq_fails \/ flush

DiskNext ==
    \/ open \/ PowerFails \/ start_install \/ reboot \/ tick
    \/ \E row \in 1 .. count : select(row)
    \/ issue_refused \/ issue_fails \/ issue_ok \/ sector \/ wait_drq_fails \/ flush
    \/ \E p \in Positions : FlushEnds(p)

Working == power.on /\ (ui.pending \/ job.on)

\* The input loop calls tick on every pass, and run_install never waits
\* without a limit.  tick or Step is enabled exactly while Working, so this is
\* weak fairness of the two, with its enabling condition written out.
DiskFairness == []<>(~ Working) \/ []<><<tick \/ Step>>_disk_vars

DiskSpec == DiskInit /\ [][DiskNext]_disk_vars /\ DiskFairness

(***************************************************************************)
(* Properties                                                              *)
(***************************************************************************)
\* No sector past the end of a drive is ever sent to it (issue refuses it).
DiskTypeOK ==
    /\ \A p \in Disks : DOMAIN hw.cache[p] \subseteq 0 .. Sectors(p) - 1
    /\ ui.sel \in 0 .. count /\ hw.faults \in 0 .. MaxFaults
    /\ job.on => job.at \in 1 .. Len(run_install) /\ ui.busy

Holds(p, l, g) == hw.platter[p][l] = [what |-> Installed[l], gen |-> g]

Excused(p) == {l \in DOMAIN Installed : <<p, l>> \in hw.dropped}

\* A disk that had no boot sector when an install began gets one only when all
\* the rest of that install is on its platter, whenever the power fails, the
\* drive reports an error or a flush takes longer than it is waited for
\* (installer.rs writes the MBR last; issue waits for the drive).  The one
\* exception is a sector the drive loses after the last wait of a write.
BootsWhole ==
    \A p \in Disks :
        LET mbr == hw.platter[p][0]
        IN mbr.what = "mbr" /\ p \notin hw.had =>
             \A l \in DOMAIN Installed \ Excused(p) : Holds(p, l, mbr.gen)

\* When the window says that the install is done, everything but the boot
\* sector is on the platter, and the boot sector is there or on its way.
DoneMeansWritten ==
    hw.whole # 0 =>
        \A l \in DOMAIN Installed \ Excused(hw.whole) :
            \/ Holds(hw.whole, l, hw.gen)
            \/ l = 0 /\ l \in DOMAIN hw.cache[hw.whole]

\* Only the disk that was selected when Install was pressed is written to,
\* whatever is clicked before the install starts.
AskedStep ==
    \A p \in Disks :
        hw'.cache[p] # hw.cache[p] /\ DOMAIN hw'.cache[p] # {} => p = Drives[hw.asked]

OnlyAsked == [][AskedStep]_disk_vars

\* The window does not stay busy: every wait of the driver ends, and whatever
\* the drive answers the installer is given back to the user.
NotBusyForever == ui.busy ~> ~ ui.busy
=============================================================================
