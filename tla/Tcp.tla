-------------------------------- MODULE Tcp --------------------------------
(***************************************************************************)
(* The TCP client of kernel/src/net/tcp.rs: one connection, eight transmit *)
(* slots, a receive ring.  The environment is arbitrary: Handle takes any  *)
(* segment whatsoever, so what holds here holds against every peer and     *)
(* every network.  TcpNet adds a conforming peer and a lossy network.      *)
(*                                                                         *)
(* Sequence numbers are u32 in the code; here they wrap at SeqMod.         *)
(* The transmit slots TX_HEAD..TX_TAIL are the sequence txq, the receive   *)
(* ring RX_HEAD..RX_TAIL is the sequence rx.  TIMER_TICKS - LAST_SEND is   *)
(* abstracted to "quiet": at least RETRY_TICKS have passed since emit.     *)
(***************************************************************************)
EXTENDS Integers, Sequences

CONSTANTS SeqMod,       \* sequence numbers are modulo SeqMod (2^32 in the code)
          TX_SLOTS,     \* transmit queue slots
          RX_CAP,       \* bytes in the receive ring
          WND_MAX,      \* largest advertisable window (0xFFFF in the code)
          MAX_RETRIES,
          Byte,         \* what a payload is made of
          Writes,       \* payloads the layer above hands to send
          ISSs,         \* initial sequence numbers connect may draw
          Hops,         \* whether the next hop can be resolved: a subset of BOOLEAN
          Segment       \* the segments that may arrive

ASSUME TcpConstants ==
  /\ SeqMod \in Nat /\ SeqMod > 1
  /\ TX_SLOTS \in Nat /\ TX_SLOTS > 0
  /\ RX_CAP \in Nat /\ WND_MAX \in Nat /\ MAX_RETRIES \in Nat

ASSUME TcpInputs ==
  /\ Writes \subseteq Seq(Byte) /\ <<>> \notin Writes
  /\ ISSs \subseteq 0..(SeqMod - 1)
  /\ Hops \subseteq BOOLEAN

ASSUME TcpSegments ==
  \A s \in Segment :
    /\ s.seq \in 0..(SeqMod - 1) /\ s.ack \in 0..(SeqMod - 1)
    /\ s.data \in Seq(Byte)
    /\ s.syn \in BOOLEAN /\ s.ackf \in BOOLEAN /\ s.fin \in BOOLEAN /\ s.rst \in BOOLEAN

VARIABLES active,       \* ACTIVE
          state,        \* STATE
          iss,          \* ISS
          sndUna,       \* SND_UNA: oldest byte not yet acked
          sndNxt,       \* SND_NXT: next byte we will send
          rcvNxt,       \* RCV_NXT: next byte we expect
          retries,      \* RETRIES
          quiet,        \* RETRY_TICKS have passed since LAST_SEND
          txq,          \* TX_SLOT_* from TX_HEAD to TX_TAIL
          rx,           \* RX_BUF from RX_HEAD to RX_TAIL
          truncated,    \* RX_TRUNCATED
          peerClosed,   \* PEER_CLOSED
          out           \* the segments this step put on the wire

vars == <<active, state, iss, sndUna, sndNxt, rcvNxt, retries, quiet, txq, rx,
          truncated, peerClosed, out>>

State == {"Closed", "SynSent", "Established", "FinWait", "FinSent", "Failed"}
Open == {"Established", "FinWait", "FinSent"}   \* the states handle and send_ack treat alike
SeqNo == 0..(SeqMod - 1)
Half == SeqMod \div 2

Least(a, b) == IF a <= b THEN a ELSE b
Add(a, n) == (a + n) % SeqMod
Sub(a, b) == (a - b) % SeqMod

----------------------------------------------------------------------------
(* Segments going out.                                                      *)

window(len) == Least(RX_CAP - len, WND_MAX)

Seg(seq, ack, flags, data, len) ==
  [seq |-> seq, ack |-> ack, syn |-> "syn" \in flags, ackf |-> "ack" \in flags,
   fin |-> "fin" \in flags, rst |-> FALSE, data |-> data, wnd |-> window(len)]

\* LAST_SEND is stamped whether or not ipv4::send finds the next hop.
emit(segs, hop) ==
  /\ quiet' = FALSE
  /\ out' = IF hop THEN segs ELSE {}

Silent == quiet' = quiet /\ out' = {}

emit_slot(e, ack, len) ==
  Seg(e.seq, ack, IF e.fin THEN {"ack", "fin"} ELSE {"ack"}, e.data, len)

send_ack(seq, ack, len) == Seg(seq, ack, {"ack"}, <<>>, len)

NewSlotAtUna(data, fin) == [seq |-> sndUna, data |-> data, fin |-> fin]

NewSlot(data, fin) == [seq |-> sndNxt, data |-> data, fin |-> fin]

\* The queue after TX_SLOT_*[TX_TAIL % TX_SLOTS] is overwritten and TX_TAIL moves on.
queue_slot(e) ==
  IF Len(txq) < TX_SLOTS
  THEN Append(txq, e)
  ELSE Append([txq EXCEPT ![Len(txq) - TX_SLOTS + 1] = e], e)

----------------------------------------------------------------------------
(* Calls from above.                                                        *)

Init ==
  /\ active = FALSE /\ state = "Closed"
  /\ iss = 0 /\ sndUna = 0 /\ sndNxt = 0 /\ rcvNxt = 0
  /\ retries = 0 /\ quiet = FALSE
  /\ txq = <<>> /\ rx = <<>>
  /\ truncated = FALSE /\ peerClosed = FALSE
  /\ out = {}

ClearBuffers ==
  /\ txq' = <<>> /\ rx' = <<>>
  /\ truncated' = FALSE /\ peerClosed' = FALSE
  /\ retries' = 0

reset ==
  /\ active' = FALSE /\ state' = "Closed"
  /\ ClearBuffers
  /\ Silent
  /\ UNCHANGED <<iss, sndUna, sndNxt, rcvNxt>>

connect(i, hop) ==
  /\ ClearBuffers
  /\ iss' = i /\ sndUna' = i /\ sndNxt' = Add(i, 1) /\ rcvNxt' = 0
  /\ state' = "SynSent" /\ active' = TRUE
  /\ emit({Seg(i, 0, {"syn"}, <<>>, 0)}, hop)

send(data, hop) ==
  /\ state = "Established"
  /\ Len(txq) < TX_SLOTS
  /\ LET e == NewSlot(data, FALSE)
     IN /\ txq' = queue_slot(e)
        /\ emit({emit_slot(e, rcvNxt, Len(rx))}, hop)
  /\ sndNxt' = Add(sndNxt, Len(data))
  /\ retries' = 0
  /\ UNCHANGED <<active, state, iss, sndUna, rcvNxt, rx, truncated, peerClosed>>

close(hop) ==
  /\ state = "Established"
  /\ LET e == NewSlot(<<>>, TRUE)
     IN /\ txq' = queue_slot(e)
        /\ emit({emit_slot(e, rcvNxt, Len(rx))}, hop)
  /\ sndNxt' = Add(sndNxt, 1)
  /\ state' = "FinWait"
  /\ retries' = 0
  /\ UNCHANGED <<active, iss, sndUna, rcvNxt, rx, truncated, peerClosed>>

rx_release(n, hop) ==
  /\ n \in 1..Len(rx)
  /\ rx' = SubSeq(rx, n + 1, Len(rx))
  /\ IF Len(rx) >= RX_CAP /\ state \in Open
     THEN emit({send_ack(sndNxt, rcvNxt, Len(rx'))}, hop)
     ELSE Silent
  /\ UNCHANGED <<active, state, iss, sndUna, sndNxt, rcvNxt, retries, txq,
                 truncated, peerClosed>>

----------------------------------------------------------------------------
(* Segments coming in.                                                      *)

Span(e) == Len(e.data) + (IF e.fin THEN 1 ELSE 0)

\* An acknowledgement of ack retires exactly the first k slots: each of them
\* passes the code's test and the next one fails it.
Retires(ack, k) ==
  /\ \A j \in 1..k : Sub(ack, txq[j].seq) >= Span(txq[j])
  /\ k < Len(txq) => Sub(ack, txq[k + 1].seq) < Span(txq[k + 1])

ack_advance(ack) ==
  \E k \in 0..Len(txq) :
    /\ Retires(ack, k)
    /\ txq' = SubSeq(txq, k + 1, Len(txq))
    /\ sndUna' = IF k = Len(txq) THEN sndNxt ELSE txq[k + 1].seq

TakeAck(seg) ==
  IF seg.ackf /\ Sub(seg.ack, sndUna) < Half
  THEN ack_advance(seg.ack) /\ retries' = 0
  ELSE UNCHANGED <<txq, sndUna, retries>>

InAnyOrder(seg) == seg.data # <<>>

InOrder(seg) == seg.data # <<>> /\ seg.seq = rcvNxt

append_rx(data) == rx \o SubSeq(data, 1, Least(Len(data), RX_CAP - Len(rx)))

\* What is kept, what is dropped, and where RCV_NXT ends: it advances past dropped bytes too.
TakePayload(seg, extra) ==
  IF InOrder(seg)
  THEN /\ rx' = append_rx(seg.data)
       /\ rcvNxt' = Add(rcvNxt, Len(seg.data) + extra)
       /\ truncated' = (truncated \/ Len(seg.data) > RX_CAP - Len(rx))
  ELSE /\ rcvNxt' = Add(rcvNxt, extra)
       /\ UNCHANGED <<rx, truncated>>

HandleRst(seg) ==
  /\ active /\ seg.rst
  /\ state' = "Failed"
  /\ Silent
  /\ UNCHANGED <<active, iss, sndUna, sndNxt, rcvNxt, retries, txq, rx, truncated, peerClosed>>

HandleSynAck(seg, hop) ==
  /\ active /\ ~seg.rst /\ state = "SynSent" /\ seg.syn /\ seg.ackf
  /\ rcvNxt' = Add(seg.seq, 1)
  /\ sndUna' = seg.ack /\ sndNxt' = seg.ack
  /\ state' = "Established"
  /\ retries' = IF Sub(seg.ack, sndUna) < Half THEN 0 ELSE retries
  /\ emit({send_ack(seg.ack, rcvNxt', Len(rx))}, hop)
  /\ UNCHANGED <<active, iss, txq, rx, truncated, peerClosed>>

\* An acknowledgement outside the open states: nothing but the queue is looked at.
HandleStray(seg) ==
  /\ active /\ ~seg.rst
  /\ state \notin Open /\ ~(state = "SynSent" /\ seg.syn /\ seg.ackf)
  /\ TakeAck(seg)
  /\ Silent
  /\ UNCHANGED <<active, state, iss, sndNxt, rcvNxt, rx, truncated, peerClosed>>

StateAfterNoAck == state

\* FinWait ends when the queue, the FIN in it included, has been retired.
StateAfterAck == IF state = "FinWait" /\ txq' = <<>> THEN "FinSent" ELSE state

HandleData(seg, hop) ==
  /\ active /\ ~seg.rst /\ state \in Open /\ ~seg.fin
  /\ TakeAck(seg)
  /\ TakePayload(seg, 0)
  /\ IF seg.data # <<>>
     THEN emit({send_ack(sndNxt, rcvNxt', Len(rx'))}, hop)
     ELSE Silent
  /\ state' = StateAfterAck
  /\ UNCHANGED <<active, iss, sndNxt, peerClosed>>

HandleFin(seg, hop) ==
  /\ active /\ ~seg.rst /\ state \in Open /\ seg.fin
  /\ TakeAck(seg)
  /\ TakePayload(seg, 1)
  /\ peerClosed' = TRUE
  /\ emit({send_ack(sndNxt, rcvNxt', Len(rx'))}, hop)
  /\ IF state \in {"FinWait", "FinSent"}
     THEN state' = "Closed" /\ active' = FALSE
     ELSE state' = "FinSent" /\ active' = active
  /\ UNCHANGED <<iss, sndNxt>>

handle(seg, hop) ==
  \/ HandleRst(seg)
  \/ HandleSynAck(seg, hop)
  \/ HandleStray(seg)
  \/ HandleData(seg, hop)
  \/ HandleFin(seg, hop)

----------------------------------------------------------------------------
(* The retransmission timer.                                                *)

OutstandingInQueue == {emit_slot(txq[i], rcvNxt, Len(rx)) : i \in 1..Len(txq)}

\* Everything outstanding, from the oldest; the SYN is not in the queue.
Outstanding ==
  IF state = "SynSent"
  THEN {Seg(iss, rcvNxt, {"syn"}, <<>>, Len(rx))}
  ELSE {emit_slot(txq[i], rcvNxt, Len(rx)) : i \in 1..Len(txq)}

GiveUp == state' = "Failed" /\ active' = FALSE

tick(hop) ==
  /\ active /\ quiet
  /\ Outstanding # {}
  /\ emit(Outstanding, hop)
  /\ IF hop
     THEN /\ retries' = retries + 1
          /\ IF retries + 1 > MAX_RETRIES
             THEN GiveUp
             ELSE UNCHANGED <<state, active>>
     ELSE UNCHANGED <<retries, state, active>>
  /\ UNCHANGED <<iss, sndUna, sndNxt, rcvNxt, txq, rx, truncated, peerClosed>>

\* RETRY_TICKS timer interrupts pass.
Clock ==
  /\ ~quiet
  /\ quiet' = TRUE /\ out' = {}
  /\ UNCHANGED <<active, state, iss, sndUna, sndNxt, rcvNxt, retries, txq, rx,
                 truncated, peerClosed>>

Calls ==
  \/ reset
  \/ \E hop \in Hops : \/ \E i \in ISSs : connect(i, hop)
                       \/ \E d \in Writes : send(d, hop)
                       \/ close(hop)
                       \/ \E n \in 1..RX_CAP : rx_release(n, hop)

Next ==
  \/ Calls
  \/ Clock
  \/ \E hop \in Hops : tick(hop) \/ \E seg \in Segment : handle(seg, hop)

Spec == Init /\ [][Next]_vars

----------------------------------------------------------------------------
Slot == [seq : SeqNo, data : Seq(Byte), fin : BOOLEAN]

\* The control block's types, and the limits of its two buffers: the ring never
\* holds more than RX_CAP bytes, the queue at most one slot more than it has
\* (close does not look for room), and tick stops counting past MAX_RETRIES.
TypeOK ==
  /\ active \in BOOLEAN /\ state \in State
  /\ iss \in SeqNo /\ sndUna \in SeqNo /\ sndNxt \in SeqNo /\ rcvNxt \in SeqNo
  /\ retries \in 0..(MAX_RETRIES + 1)
  /\ quiet \in BOOLEAN /\ truncated \in BOOLEAN /\ peerClosed \in BOOLEAN
  /\ txq \in Seq(Slot) /\ Len(txq) <= TX_SLOTS + 1
  /\ rx \in Seq(Byte) /\ Len(rx) <= RX_CAP

\* Slots i and i + 1 hold adjacent ranges of sequence numbers.
Adjacent(i) == txq[i + 1].seq = Add(txq[i].seq, Span(txq[i]))

\* The first slot that is certainly intact: with one slot too many the oldest was overwritten.
Intact == IF Len(txq) > TX_SLOTS THEN 2 ELSE 1

Unbroken ==
  /\ \A i \in Intact..(Len(txq) - 1) : Adjacent(i)
  /\ txq = <<>> => sndUna = sndNxt
  /\ txq # <<>> => sndNxt = Add(txq[Len(txq)].seq, Span(txq[Len(txq)]))
  /\ (txq # <<>> /\ Len(txq) <= TX_SLOTS) => sndUna = txq[1].seq

\* The queue is one unbroken run of sequence numbers from SND_UNA to SND_NXT, so
\* retransmitting "everything outstanding, from the oldest" leaves no hole the
\* peer could wait for (ack_advance, send and tick together).  A close on a full
\* queue breaks it until the overwritten slot is retired.
QueueUnbroken == state \in Open => Unbroken

FinLast == \A i \in Intact..Len(txq) : txq[i].fin => i = Len(txq)
NoFin == \A i \in 1..Len(txq) : ~txq[i].fin

\* A FIN is the last thing in the queue, and it stays there while the connection
\* waits for it to be acknowledged: close leaves Established, which send requires,
\* and handle leaves FinWait in the same step that retires the FIN.  So tick goes
\* on repeating the FIN until the peer has it.
FinIsLast ==
  /\ FinLast
  /\ state = "Established" => NoFin
  /\ state = "FinWait" => txq # <<>> /\ txq[Len(txq)].fin

\* The retry budget: a connection that is still active has not used it up, and one
\* torn down by tick (inactive and Failed) stays so until the next connect or reset.
GivenUpIsDead ==
  /\ active => retries <= MAX_RETRIES
  /\ ~active => state \in {"Closed", "Failed"}
============================================================================
