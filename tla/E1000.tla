------------------------------- MODULE E1000 -------------------------------
(***************************************************************************)
(* The network adapter: how it is found (dev/pci.rs), brought up, and how  *)
(* the two descriptor rings pass frames between the driver and the card    *)
(* (net/e1000.rs).  The card runs beside the driver: it takes transmit     *)
(* descriptors from TDH up to TDT and fills receive descriptors from RDH   *)
(* up to RDT, at any moment and at any speed.                              *)
(*                                                                         *)
(* A frame is a number, in the order of sending or of arrival.             *)
(***************************************************************************)
EXTENDS Integers, Sequences, FiniteSets

CONSTANTS
    MAX_DEVICES,
    TX_DESC, RX_DESC,
    Buses,       \* what may answer on the PCI bus
    MaxFrames    \* bound: frames sent, and frames that arrive

VARIABLES
    nic,     \* the devices, PRESENT, MMIO_BASE and the address
    cpu,     \* where the driver is
    tx,      \* the transmit ring, its two cursors and the card's work
    rx       \* the receive ring and its two cursors

nic_vars == <<nic, cpu, tx, rx>>

(***************************************************************************)
(* dev/pci.rs                                                              *)
(***************************************************************************)
INTEL == 32902   \* 0x8086
Ids == <<4110, 4111, 4307>>   \* 82540EM, 82545EM, 82574L

\* A slot is the functions it has; only one that says so has more than one.
Functions(slot) == IF slot = <<>> THEN <<>> ELSE IF slot[1].multi THEN slot ELSE <<slot[1]>>

AllFunctions(bus) ==
    LET upto[i \in 0 .. Len(bus)] == IF i = 0 THEN <<>> ELSE upto[i - 1] \o Functions(bus[i])
    IN upto[Len(bus)]

\* The scan goes on when the table is full; what does not fit is not recorded.
pci_init(bus) ==
    LET all == AllFunctions(bus)
    IN [i \in 1 .. (IF Len(all) < MAX_DEVICES THEN Len(all) ELSE MAX_DEVICES) |-> all[i]]

FirstOf(I) == IF I = {} THEN 0 ELSE CHOOSE i \in I : \A j \in I : i <= j

find(devices, vendor, device) ==
    FirstOf({i \in DOMAIN devices : devices[i].vendor = vendor /\ devices[i].device = device})

find_class(devices, class) == FirstOf({i \in DOMAIN devices : devices[i].class = class})

\* The three models that are known, in this order; else any Ethernet adapter.
find_adapter(devices) ==
    LET known == {k \in 1 .. 3 : find(devices, INTEL, Ids[k]) # 0}
    IN IF known = {} THEN find_class(devices, "ethernet")
       ELSE find(devices, INTEL, Ids[CHOOSE k \in known : \A j \in known : k <= j])

(***************************************************************************)
(* Bringing the adapter up                                                 *)
(***************************************************************************)
NoMac == <<>>

\* The address is in RAL/RAH, or is read from the EEPROM word by word.  A
\* number is written as its bytes, the lowest first.
mac_of(lo, hi) == <<lo[1], lo[2], lo[3], lo[4], hi[1], hi[2]>>

eeprom_mac(w) == mac_of(<<w[1][1], w[1][2], w[2][1], w[2][2]>>, w[3])

RxSlot(f, dd) == [frame |-> f, dd |-> dd]

NicInit ==
    /\ nic = [up |-> FALSE, present |-> FALSE, mac |-> NoMac, at |-> 0, devices |-> <<>>, bus |-> <<>>]
    /\ cpu = [at |-> "idle", slot |-> 0, frame |-> 0]
    /\ tx = [ring |-> [i \in 0 .. TX_DESC - 1 |-> RxSlot(0, FALSE)], tail |-> 0, tdt |-> 0,
             tdh |-> 0, fetched |-> 0, wire |-> <<>>, sent |-> 0, wrapped |-> FALSE, stalls |-> 0]
    /\ rx = [ring |-> [i \in 0 .. RX_DESC - 1 |-> RxSlot(0, FALSE)], cur |-> 0, rdt |-> 0,
             rdh |-> 0, taken |-> <<>>, arrived |-> 0, delivered |-> <<>>]

\* init: without an adapter, a BAR, an address or memory for the rings there
\* is no adapter.  rings_init gives the card all receive descriptors but one.
nic_init(bus, ral, eeprom_answers, memory) ==
    LET devices == pci_init(bus)
        at == find_adapter(devices)
        d == devices[at]
        mac == IF ral THEN mac_of(d.ral, d.rah)
               ELSE IF eeprom_answers THEN eeprom_mac(d.eeprom) ELSE NoMac
        ok == at # 0 /\ (IF at = 0 THEN FALSE ELSE d.bar # 0 /\ mac # NoMac /\ memory)
    IN /\ ~ nic.up
       /\ nic' = [up |-> TRUE, present |-> ok, mac |-> IF ok THEN mac ELSE NoMac,
                  at |-> at, devices |-> devices, bus |-> bus]
       /\ rx' = IF ok THEN [rx EXCEPT !.rdt = RX_DESC - 1] ELSE rx
       /\ UNCHANGED <<cpu, tx>>

(***************************************************************************)
(* send_frame                                                              *)
(***************************************************************************)
\* The frame is copied into the next buffer and its descriptor filled in,
\* whether the card is done with that slot or not.
send_frame ==
    /\ nic.present /\ cpu.at = "idle" /\ tx.sent < MaxFrames
    /\ tx' = [tx EXCEPT !.ring[tx.tail] = RxSlot(tx.sent + 1, FALSE), !.sent = @ + 1]
    /\ cpu' = [cpu EXCEPT !.at = "ring", !.slot = tx.tail]
    /\ UNCHANGED <<nic, rx>>

SetTail_late(t) == [t EXCEPT !.tail = (@ + 1) % TX_DESC, !.tdt = t.tail]

SetTail(t) ==
    LET next == (t.tail + 1) % TX_DESC
    IN [t EXCEPT !.tail = next, !.tdt = next, !.wrapped = @ \/ next = t.tdh]

send_tail ==
    /\ cpu.at = "ring"
    /\ tx' = SetTail(tx)
    /\ cpu' = [cpu EXCEPT !.at = "wait"]
    /\ UNCHANGED <<nic, rx>>

\* The done bit, or a million spins: true in either case.
send_done ==
    /\ cpu.at = "wait"
    /\ tx' = IF tx.ring[cpu.slot].dd THEN tx ELSE [tx EXCEPT !.stalls = @ + 1]
    /\ cpu' = [cpu EXCEPT !.at = "idle"]
    /\ UNCHANGED <<nic, rx>>

\* The card starts on the descriptor at TDH.
CardFetches ==
    /\ nic.present /\ tx.fetched = 0 /\ tx.tdh # tx.tdt
    /\ tx' = [tx EXCEPT !.fetched = tx.ring[tx.tdh].frame]
    /\ UNCHANGED <<nic, cpu, rx>>

Torn == 0

\* What goes out is the frame it started on, unless the buffer was written
\* over meanwhile.
CardSends ==
    /\ tx.fetched # 0
    /\ tx' = [tx EXCEPT
          !.wire = Append(@, IF tx.ring[tx.tdh].frame = tx.fetched THEN tx.fetched ELSE Torn),
          !.ring[tx.tdh].dd = TRUE, !.tdh = (@ + 1) % TX_DESC, !.fetched = 0]
    /\ UNCHANGED <<nic, cpu, rx>>

(***************************************************************************)
(* recv_frame                                                              *)
(***************************************************************************)
\* The card fills the descriptor at RDH; with none left the frame is dropped.
FrameArrives ==
    /\ nic.present /\ rx.arrived < MaxFrames
    /\ rx' = IF rx.rdh = rx.rdt THEN [rx EXCEPT !.arrived = @ + 1]
             ELSE [rx EXCEPT !.arrived = @ + 1, !.ring[rx.rdh] = RxSlot(rx.arrived + 1, TRUE),
                             !.taken = Append(@, rx.arrived + 1), !.rdh = (@ + 1) % RX_DESC]
    /\ UNCHANGED <<nic, cpu, tx>>

\* A descriptor with the done bit: the frame is copied out.
recv_frame ==
    /\ nic.present /\ cpu.at = "idle" /\ rx.ring[rx.cur].dd
    /\ cpu' = [cpu EXCEPT !.at = "copied", !.slot = rx.cur, !.frame = rx.ring[rx.cur].frame]
    /\ UNCHANGED <<nic, tx, rx>>

recv_clear ==
    /\ cpu.at = "copied"
    /\ rx' = [rx EXCEPT !.ring[cpu.slot].dd = FALSE]
    /\ cpu' = [cpu EXCEPT !.at = "cleared"]
    /\ UNCHANGED <<nic, tx>>

\* RDT is the descriptor that was just read, so one always stays with the CPU.
GiveBack(r, cur) == [r EXCEPT !.cur = (cur + 1) % RX_DESC, !.rdt = cur]

recv_give ==
    /\ cpu.at = "cleared"
    /\ rx' = [GiveBack(rx, cpu.slot) EXCEPT !.delivered = Append(@, cpu.frame)]
    /\ cpu' = [cpu EXCEPT !.at = "idle"]
    /\ UNCHANGED <<nic, tx>>

NicNext ==
    \/ \E bus \in Buses, ral, eeprom, memory \in BOOLEAN : nic_init(bus, ral, eeprom, memory)
    \/ send_frame \/ send_tail \/ send_done \/ CardFetches \/ CardSends
    \/ FrameArrives \/ recv_frame \/ recv_clear \/ recv_give

NicSpec == NicInit /\ [][NicNext]_nic_vars

(***************************************************************************)
(* Properties                                                              *)
(***************************************************************************)
\* The cursors are inside the rings, and the address is the adapter's,
\* whichever way it was read.
NicTypeOK ==
    /\ tx.tail \in 0 .. TX_DESC - 1 /\ tx.tdt \in 0 .. TX_DESC - 1 /\ tx.tdh \in 0 .. TX_DESC - 1
    /\ rx.cur \in 0 .. RX_DESC - 1 /\ rx.rdt \in 0 .. RX_DESC - 1 /\ rx.rdh \in 0 .. RX_DESC - 1
    /\ nic.present => nic.mac = nic.devices[nic.at].mac

Increasing(s) == \A i, j \in DOMAIN s : i < j => s[i] < s[j]

Whole(s) == SelectSeq(s, LAMBDA f : f # Torn)

\* However long the card stalls and however often send_frame gives up waiting,
\* frames leave in the order they were sent and none leaves twice; and unless
\* the driver has gone once round the ring behind a stalled card, none is torn
\* or lost: what is not on the wire is between TDH and TDT.
TxInOrder ==
    /\ Increasing(Whole(tx.wire))
    /\ ~ tx.wrapped =>
         /\ tx.wire = [i \in 1 .. Len(tx.wire) |-> i]
         /\ tx.sent - (IF cpu.at = "ring" THEN 1 ELSE 0) - Len(tx.wire)
              = (tx.tdt - tx.tdh) % TX_DESC

\* What is delivered is what the card took in, in that order, without a gap
\* and without a frame twice (recv_frame hands a descriptor back only after
\* the copy, and stops at the first one that is not done).
RxInOrder ==
    \A i \in DOMAIN rx.delivered : i \in DOMAIN rx.taken /\ rx.delivered[i] = rx.taken[i]

\* The card is out of descriptors only while there are frames the driver has
\* not taken: a driver that has caught up never leaves the card without one.
RxNeverStarves ==
    nic.present /\ rx.rdh = rx.rdt => rx.ring[rx.cur].dd \/ cpu.at \in {"copied", "cleared"}

\* The adapter that is used is the first of the best known kind on the whole
\* bus as far as the table goes, also on a bus with more functions than the
\* table has room for.
AdapterFound ==
    nic.up =>
        LET all == AllFunctions(nic.bus)
            seen == {i \in DOMAIN all : i <= MAX_DEVICES}
            kind(i) == IF all[i].vendor = INTEL /\ \E k \in 1 .. 3 : all[i].device = Ids[k]
                       THEN CHOOSE k \in 1 .. 3 : all[i].device = Ids[k]
                       ELSE IF all[i].class = "ethernet" THEN 4 ELSE 5
        IN IF nic.at = 0 THEN \A i \in seen : kind(i) = 5
           ELSE \A i \in seen : kind(nic.at) < kind(i) \/ (kind(nic.at) = kind(i) /\ nic.at <= i)

\* The right adapter is driven, and no frame is torn, repeated, reordered or
\* stuck between it and the driver.
AdapterOK == NicTypeOK /\ TxInOrder /\ RxInOrder /\ RxNeverStarves /\ AdapterFound
=============================================================================
