---------------------------- MODULE TcpNetProofs ----------------------------
(***************************************************************************)
(* Proofs about the TCP client, for every sequence space, queue and ring   *)
(* size.                                                                   *)
(*                                                                         *)
(* 1. The control block alone (Tcp), against every sequence of segments    *)
(*    that can arrive: the queue is one unbroken run, a FIN is last.       *)
(*                                                                         *)
(* 2. With a peer, over a network that loses, repeats and reorders         *)
(*    (TcpNet): what the client sends arrives in order and unchanged.  The *)
(*    argument is about positions: the n-th byte written travels under the *)
(*    sequence number Add(iss, n), the FIN under the one behind the last   *)
(*    byte, and as the stream fits the sequence space (TcpNetSpace) a      *)
(*    number stands for one position.  So the segment the peer waits for   *)
(*    carries the byte it waits for, however old the segment is.           *)
(*                                                                         *)
(* 3. What is in flight: the queue holds the positions from u to t - 1 of  *)
(*    the client's stream, one slot each, and the peer has every position  *)
(*    below u, as it acknowledges only what it has (Sender).               *)
(***************************************************************************)
EXTENDS TcpNet, TLAPS

----------------------------------------------------------------------------
(* 1. The control block.                                                    *)


\* Strengthening: no slot is queued before the handshake is over, and only close
\* can put one slot too many in the queue.
IInv ==
  /\ TypeOK /\ QueueUnbroken /\ FinIsLast /\ GivenUpIsDead
  /\ state = "SynSent" => txq = <<>>
  /\ state = "Established" => Len(txq) <= TX_SLOTS

\* TypeOK in two parts: the flags are first-order, the rest needs arithmetic.
Flags == active \in BOOLEAN /\ quiet \in BOOLEAN /\ truncated \in BOOLEAN /\ peerClosed \in BOOLEAN
Fields ==
  /\ state \in State /\ retries \in 0..(MAX_RETRIES + 1)
  /\ iss \in SeqNo /\ sndUna \in SeqNo /\ sndNxt \in SeqNo /\ rcvNxt \in SeqNo
  /\ txq \in Seq(Slot) /\ Len(txq) <= TX_SLOTS + 1
  /\ rx \in Seq(Byte) /\ Len(rx) <= RX_CAP

LEMMA TypeParts == (TypeOK <=> Flags /\ Fields) /\ (TypeOK' <=> Flags' /\ Fields')
  BY Zenon DEF TypeOK, Flags, Fields

LEMMA AddType == ASSUME NEW a \in SeqNo, NEW n \in Nat PROVE Add(a, n) \in SeqNo
  BY TcpConstants DEF Add, SeqNo

LEMMA ZeroType == 0 \in SeqNo
  BY TcpConstants DEF SeqNo

\* What is left of a sequence when its first k elements are dropped.
LEMMA DropFirst ==
  ASSUME NEW S, NEW s \in Seq(S), NEW k \in 0..Len(s)
  PROVE  LET t == SubSeq(s, k + 1, Len(s))
         IN /\ t \in Seq(S)
            /\ Len(t) = Len(s) - k
            /\ \A i \in 1..(Len(s) - k) : t[i] = s[i + k]
  OBVIOUS

\* What an acknowledgement does to the queue: whatever it retires, the rest is the
\* end of the old queue and still one unbroken run up to SND_NXT.
LEMMA AckStep ==
  ASSUME TypeOK, NEW seg \in Segment, TakeAck(seg), sndNxt' = sndNxt
  PROVE  /\ txq' \in Seq(Slot) /\ Len(txq') <= Len(txq)
         /\ sndUna' \in SeqNo
         /\ retries' \in {0, retries}
         /\ txq' # <<>> => txq'[Len(txq')] = txq[Len(txq)]
         /\ Unbroken => Unbroken'
         /\ FinLast => FinLast'
         /\ NoFin => NoFin'
  <1>1. CASE UNCHANGED <<txq, sndUna, retries>>
    BY <1>1 DEF TypeOK, Unbroken, FinLast, NoFin, Intact, Adjacent
  <1>2. CASE ack_advance(seg.ack) /\ retries' = 0
    <2>1. PICK k \in 0..Len(txq) :
            /\ txq' = SubSeq(txq, k + 1, Len(txq))
            /\ sndUna' = IF k = Len(txq) THEN sndNxt ELSE txq[k + 1].seq
      BY <1>2 DEF ack_advance
    <2>2. /\ txq' \in Seq(Slot) /\ Len(txq') = Len(txq) - k
          /\ \A i \in 1..(Len(txq) - k) : txq'[i] = txq[i + k]
      BY <2>1, DropFirst DEF TypeOK
    <2>3. sndUna' \in SeqNo
      <3>1. CASE k = Len(txq)
        BY <2>1, <3>1 DEF TypeOK
      <3>2. CASE k # Len(txq)
        <4>1. k + 1 \in 1..Len(txq)
          BY <3>2 DEF TypeOK
        <4>2. txq[k + 1] \in Slot
          BY <4>1 DEF TypeOK
        <4> QED BY <2>1, <3>2, <4>2 DEF Slot
      <3> QED BY <3>1, <3>2
    <2>4. txq' = <<>> <=> k = Len(txq)
      BY <2>2 DEF TypeOK
    <2>5. txq' # <<>> => txq'[Len(txq')] = txq[Len(txq)]
      BY <2>2, <2>4 DEF TypeOK
    <2>6. \A i \in (Intact')..Len(txq') : i + k \in Intact..Len(txq)
      BY <2>2, TcpConstants DEF Intact, TypeOK
    <2>7. ASSUME Unbroken PROVE Unbroken'
      <3>1. \A i \in (Intact')..(Len(txq') - 1) : Adjacent(i)'
        <4> SUFFICES ASSUME NEW i \in (Intact')..(Len(txq') - 1)
                     PROVE  txq'[i + 1].seq = Add(txq'[i].seq, Span(txq'[i]))
          BY Zenon DEF Adjacent, Span
        <4>1. Intact' \in 1..2 /\ i \in Int /\ i >= 1
          BY DEF Intact
        <4>2. i + k \in Intact..(Len(txq) - 1)
          BY <2>2, <2>6, <4>1 DEF TypeOK, Intact
        <4>3. txq'[i] = txq[i + k] /\ txq'[i + 1] = txq[(i + k) + 1]
          <5>1. Len(txq) \in Nat /\ Intact \in 1..2
            BY DEF TypeOK, Intact
          <5>2. i \in 1..(Len(txq) - k) /\ i + 1 \in 1..(Len(txq) - k) /\ (i + 1) + k = (i + k) + 1
            BY <4>1, <4>2, <5>1
          <5> QED
            BY <2>2, <5>2
        <4>4. Adjacent(i + k)
          BY <2>7, <4>2 DEF Unbroken
        <4> QED BY <4>3, <4>4 DEF Adjacent
      <3>2. txq' = <<>> => sndUna' = sndNxt'
        BY <2>1, <2>4
      <3>3. txq' # <<>> => sndNxt' = Add(txq'[Len(txq')].seq, Span(txq'[Len(txq')]))
        BY <2>5, <2>4, <2>7 DEF Unbroken, TypeOK
      <3>4. txq' # <<>> => sndUna' = txq'[1].seq
        BY <2>1, <2>2, <2>4 DEF TypeOK
      <3> QED BY <3>1, <3>2, <3>3, <3>4 DEF Unbroken
    <2>8. ASSUME FinLast PROVE FinLast'
      <3> SUFFICES ASSUME NEW i \in (Intact')..Len(txq'), txq'[i].fin
                   PROVE  i = Len(txq')
        BY DEF FinLast
      <3>1. i \in 1..(Len(txq) - k) /\ i + k \in Intact..Len(txq)
        BY <2>2, <2>6 DEF Intact, TypeOK
      <3>2. txq[i + k].fin
        BY <2>2, <3>1
      <3> QED BY <2>2, <2>8, <3>1, <3>2 DEF FinLast, TypeOK
    <2>9. ASSUME NoFin PROVE NoFin'
      BY <2>2, <2>9 DEF NoFin, TypeOK
    <2> QED BY <1>2, <2>2, <2>3, <2>5, <2>7, <2>8, <2>9
  <1> QED BY <1>1, <1>2 DEF TakeAck

\* What queueing one more slot at SND_NXT does: the run grows by the slot's span,
\* and on a full queue only the oldest slot is lost.
LEMMA QueueStep ==
  ASSUME TypeOK, Unbroken, NoFin, Len(txq) <= TX_SLOTS,
         NEW e \in Slot, e.seq = sndNxt,
         txq' = queue_slot(e), sndUna' = sndUna, sndNxt' = Add(sndNxt, Span(e))
  PROVE  /\ txq' \in Seq(Slot) /\ Len(txq') = Len(txq) + 1
         /\ txq' # <<>> /\ txq'[Len(txq')] = e
         /\ Unbroken' /\ FinLast'
         /\ (Len(txq) < TX_SLOTS /\ ~e.fin) => NoFin'
  <1> DEFINE n == Len(txq)
  <1>1. /\ txq' \in Seq(Slot) /\ Len(txq') = n + 1 /\ txq'[n + 1] = e
        /\ \A i \in (Intact')..n : i \in 1..n /\ txq'[i] = txq[i]
        /\ n < TX_SLOTS => Intact' = 1
    <2>1. CASE n < TX_SLOTS
      BY <2>1, TcpConstants DEF queue_slot, TypeOK, Intact
    <2>2. CASE n = TX_SLOTS
      <3>1. /\ txq \in Seq(Slot) /\ n \in Nat /\ 1 \in 1..n
            /\ txq' = Append([txq EXCEPT ![1] = e], e)
        BY <2>2, TcpConstants DEF queue_slot, TypeOK
      <3>2. /\ [txq EXCEPT ![1] = e] \in Seq(Slot)
            /\ Len([txq EXCEPT ![1] = e]) = n
            /\ \A i \in 2..n : [txq EXCEPT ![1] = e][i] = txq[i]
        BY <3>1
      <3>3. Len(txq') = n + 1 /\ txq' \in Seq(Slot) /\ txq'[n + 1] = e
        BY <3>1, <3>2
      <3>4. \A i \in 2..n : txq'[i] = txq[i]
        BY <3>1, <3>2
      <3>5. Intact' = 2
        BY <2>2, <3>3, TcpConstants DEF Intact
      <3> QED BY <2>2, <3>1, <3>3, <3>4, <3>5
    <2> QED BY <2>1, <2>2, TcpConstants DEF TypeOK
  <1>2. n \in Nat /\ Intact' \in 1..2 /\ txq' # <<>> /\ Intact = 1
    BY <1>1, TcpConstants DEF TypeOK, Intact
  <1>3. Unbroken'
    <2>1. \A i \in (Intact')..(Len(txq') - 1) : txq'[i + 1].seq = Add(txq'[i].seq, Span(txq'[i]))
      <3> SUFFICES ASSUME NEW i \in (Intact')..n
                   PROVE  txq'[i + 1].seq = Add(txq'[i].seq, Span(txq'[i]))
        BY <1>1, <1>2
      <3>1. i \in 1..n /\ txq'[i] = txq[i]
        BY <1>1
      <3>2. CASE i = n
        <4>1. txq # <<>>
          BY <3>1 DEF TypeOK
        <4>2. sndNxt = Add(txq[i].seq, Span(txq[i]))
          BY <3>2, <4>1 DEF Unbroken
        <4>3. txq'[i + 1] = e
          BY <3>2, <1>1
        <4> QED BY <3>1, <4>2, <4>3
      <3>3. CASE i # n
        <4>1. i + 1 \in (Intact')..n /\ i \in Intact..(n - 1)
          BY <1>2, <3>1, <3>3
        <4>2. txq'[i + 1] = txq[i + 1] /\ Adjacent(i)
          BY Zenon, <1>1, <4>1 DEF Unbroken
        <4> QED BY Zenon, <3>1, <4>2 DEF Adjacent
      <3> QED BY <3>2, <3>3
    <2>2. sndNxt' = Add(txq'[Len(txq')].seq, Span(txq'[Len(txq')]))
      BY <1>1
    <2>3. Len(txq') <= TX_SLOTS => sndUna' = txq'[1].seq
      <3>1. CASE n = 0
        <4>1. txq = <<>>
          BY <3>1 DEF TypeOK
        <4> QED BY <1>1, <3>1, <4>1 DEF Unbroken
      <3>2. CASE n # 0 /\ Len(txq') <= TX_SLOTS
        <4>1. txq # <<>> /\ Intact' = 1 /\ 1 \in 1..n
          BY <1>1, <1>2, <3>2, TcpConstants
        <4> QED BY Zenon, <1>1, <4>1 DEF Unbroken
      <3> QED BY <3>1, <3>2
    <2> QED BY Zenon, <1>2, <2>1, <2>2, <2>3 DEF Unbroken, Adjacent, Span
  <1>4. FinLast'
    BY <1>1, <1>2 DEF FinLast, NoFin
  <1>5. (n < TX_SLOTS /\ ~e.fin) => NoFin'
    BY <1>1, <1>2 DEF NoFin
  <1> QED BY <1>1, <1>2, <1>3, <1>4, <1>5

\* The payload of a segment never overfills the ring.
LEMMA PayloadStep ==
  ASSUME TypeOK, NEW seg \in Segment, NEW extra \in {0, 1}, TakePayload(seg, extra)
  PROVE  /\ rx' \in Seq(Byte) /\ Len(rx') <= RX_CAP
         /\ rcvNxt' \in SeqNo /\ truncated' \in BOOLEAN
  <1> DEFINE n == Least(Len(seg.data), RX_CAP - Len(rx))
  <1>1. /\ seg.data \in Seq(Byte) /\ rx \in Seq(Byte) /\ Len(rx) <= RX_CAP
        /\ rcvNxt \in SeqNo /\ truncated \in BOOLEAN
    BY TcpSegments DEF TypeOK
  <1>2. n \in 0..Len(seg.data) /\ n <= RX_CAP - Len(rx)
    BY <1>1, TcpConstants DEF Least
  <1>3. /\ SubSeq(seg.data, 1, n) \in Seq(Byte)
        /\ Len(SubSeq(seg.data, 1, n)) = n
    BY <1>1, <1>2
  <1>4. append_rx(seg.data) \in Seq(Byte) /\ Len(append_rx(seg.data)) <= RX_CAP
    BY <1>1, <1>2, <1>3, TcpConstants DEF append_rx
  <1>5. rcvNxt' \in SeqNo
    <2>1. Len(seg.data) + extra \in Nat /\ extra \in Nat
      BY <1>1
    <2> QED BY <1>1, <2>1, AddType DEF TakePayload
  <1>6. truncated' \in BOOLEAN
    BY Zenon, <1>1 DEF TakePayload
  <1> QED BY <1>1, <1>4, <1>5, <1>6 DEF TakePayload

LEMMA InitIInv == Init => IInv
  <1> SUFFICES ASSUME Init PROVE IInv
    OBVIOUS
  <1>1. Flags
    BY Zenon DEF Init, Flags
  <1>2. Fields
    BY TcpConstants, ZeroType DEF Init, Fields, State
  <1>3. QueueUnbroken /\ FinIsLast
    BY TcpConstants DEF Init, QueueUnbroken, Open, FinIsLast, FinLast, Intact
  <1>4. GivenUpIsDead
    BY TcpConstants DEF Init, GivenUpIsDead
  <1> QED BY <1>1, <1>2, <1>3, <1>4, TypeParts DEF Init, IInv

LEMMA NextIInv == IInv /\ [Next]_vars => IInv'
  <1> SUFFICES ASSUME IInv, [Next]_vars PROVE IInv'
    OBVIOUS
  <1> USE DEF IInv
  <1>0. Flags /\ Fields
    BY TypeParts
  <1>1. CASE reset
    <2> USE <1>1 DEF reset, ClearBuffers, Silent
    <2>1. Flags'
      BY Zenon, <1>0 DEF Flags
    <2>2. Fields'
      BY <1>0, TcpConstants DEF Fields, State
    <2>3. QueueUnbroken' /\ FinIsLast' /\ txq' = <<>> /\ state' = "Closed"
      BY TcpConstants DEF Open, QueueUnbroken, FinIsLast, FinLast, Intact
    <2>4. GivenUpIsDead'
      BY DEF GivenUpIsDead
    <2> QED BY <2>1, <2>2, <2>3, <2>4, TypeParts
  <1>2. ASSUME NEW i \in ISSs, NEW hop \in Hops, connect(i, hop) PROVE IInv'
    <2>1. Add(i, 1) \in SeqNo /\ i \in SeqNo /\ 0 \in SeqNo
      <3>1. i \in SeqNo
        BY TcpInputs DEF SeqNo
      <3> QED BY <3>1, AddType, ZeroType
    <2> USE <1>2 DEF connect, emit, ClearBuffers
    <2>2. Flags'
      BY Zenon DEF Flags
    <2>3. Fields'
      BY <2>1, TcpConstants DEF Fields, State
    <2>4. QueueUnbroken' /\ FinIsLast' /\ txq' = <<>> /\ state' = "SynSent"
      BY TcpConstants DEF Open, QueueUnbroken, FinIsLast, FinLast, Intact
    <2>5. GivenUpIsDead'
      BY TcpConstants DEF GivenUpIsDead
    <2> QED BY <2>2, <2>3, <2>4, <2>5, TypeParts
  <1>3. ASSUME NEW d \in Writes, NEW hop \in Hops, send(d, hop) PROVE IInv'
    <2> DEFINE e == NewSlot(d, FALSE)
    <2>1. e \in Slot /\ e.seq = sndNxt /\ ~e.fin /\ Span(e) = Len(d) /\ d \in Seq(Byte)
      BY TcpInputs DEF NewSlot, Slot, TypeOK, Span
    <2>2. /\ txq' = queue_slot(e) /\ sndUna' = sndUna /\ sndNxt' = Add(sndNxt, Span(e))
          /\ state = "Established" /\ state' = state /\ Len(txq) < TX_SLOTS
      BY Zenon, <1>3, <2>1 DEF send
    <2>2a. /\ sndUna' = sndUna /\ iss' = iss /\ rcvNxt' = rcvNxt /\ rx' = rx /\ retries' = 0
           /\ state' = state /\ Len(txq) < TX_SLOTS
      BY Zenon, <1>3 DEF send
    <2>3. Unbroken /\ NoFin
      BY <2>2 DEF QueueUnbroken, Open, FinIsLast
    <2>4. /\ txq' \in Seq(Slot) /\ Len(txq') = Len(txq) + 1 /\ Unbroken' /\ FinLast' /\ NoFin'
      BY Zenon, <2>1, <2>2, <2>3, QueueStep
    <2>4a. txq' \in Seq(Slot) /\ Len(txq') = Len(txq) + 1
      BY <2>4
    <2>5. sndNxt' \in SeqNo
      <3>1. Len(d) \in Nat /\ sndNxt \in SeqNo
        BY <2>1 DEF TypeOK
      <3> QED BY Zenon, <2>1, <2>2, <3>1, AddType
    <2>6. TypeOK'
      <3>1. Flags'
        BY Zenon, <1>3, <1>0 DEF send, emit, Flags
      <3>2. Fields'
        BY <1>0, <2>5, <2>4a, <2>2a, TcpConstants DEF Fields
      <3> QED BY <3>1, <3>2, TypeParts
    <2>7. GivenUpIsDead'
      BY <1>3, TcpConstants DEF send, GivenUpIsDead
    <2>8. Len(txq') <= TX_SLOTS
      BY <1>0, <2>4a, <2>2a, TcpConstants DEF Fields
    <2> QED BY Zenon, <2>2, <2>4, <2>6, <2>7, <2>8 DEF QueueUnbroken, FinIsLast
  <1>4. ASSUME NEW hop \in Hops, close(hop) PROVE IInv'
    <2> DEFINE e == NewSlot(<<>>, TRUE)
    <2>1. e \in Slot /\ e.seq = sndNxt /\ e.fin /\ Span(e) = 1
      BY DEF NewSlot, Slot, TypeOK, Span
    <2>2. /\ txq' = queue_slot(e) /\ sndUna' = sndUna /\ sndNxt' = Add(sndNxt, Span(e))
          /\ state = "Established" /\ state' = "FinWait" /\ Len(txq) <= TX_SLOTS
      BY Zenon, <1>4, <2>1 DEF close
    <2>2a. /\ sndUna' = sndUna /\ iss' = iss /\ rcvNxt' = rcvNxt /\ rx' = rx /\ retries' = 0
           /\ state' = "FinWait" /\ Len(txq) <= TX_SLOTS
      BY <1>4 DEF close
    <2>3. Unbroken /\ NoFin
      BY <2>2 DEF QueueUnbroken, Open, FinIsLast
    <2>4. /\ txq' \in Seq(Slot) /\ Len(txq') = Len(txq) + 1 /\ Unbroken' /\ FinLast'
          /\ txq' # <<>> /\ txq'[Len(txq')] = e
      BY Zenon, <2>1, <2>2, <2>3, QueueStep
    <2>4a. txq' \in Seq(Slot) /\ Len(txq') = Len(txq) + 1
      BY <2>4
    <2>5. sndNxt' \in SeqNo
      <3>1. sndNxt \in SeqNo
        BY DEF TypeOK
      <3> QED BY Zenon, <2>1, <2>2, <3>1, AddType
    <2>6. TypeOK'
      <3>1. Flags'
        BY Zenon, <1>4, <1>0 DEF close, emit, Flags
      <3>2. Fields'
        BY <1>0, <2>5, <2>4a, <2>2a, TcpConstants DEF Fields, State
      <3> QED BY <3>1, <3>2, TypeParts
    <2>7. GivenUpIsDead'
      BY <1>4, TcpConstants DEF close, GivenUpIsDead
    <2> QED BY Zenon, <2>1, <2>2, <2>4, <2>6, <2>7 DEF QueueUnbroken, FinIsLast
  <1>5. ASSUME NEW n \in 1..RX_CAP, NEW hop \in Hops, rx_release(n, hop) PROVE IInv'
    <2>1. rx' \in Seq(Byte) /\ Len(rx') <= RX_CAP
      <3>1. n \in 0..Len(rx) /\ rx' = SubSeq(rx, n + 1, Len(rx)) /\ rx \in Seq(Byte) /\ Len(rx) <= RX_CAP
        BY <1>5 DEF rx_release, TypeOK
      <3> QED BY <3>1, DropFirst, TcpConstants
    <2>2. quiet' \in BOOLEAN
      BY Zenon, <1>5 DEF rx_release, emit, Silent, TypeOK
    <2> QED BY Zenon, <1>5, <2>1, <2>2 DEF rx_release, TypeOK, QueueUnbroken, Unbroken, Adjacent, FinIsLast,
          FinLast, NoFin, GivenUpIsDead, Intact
  <1>6. ASSUME NEW seg \in Segment, HandleRst(seg) PROVE IInv'
    BY Zenon, <1>6 DEF HandleRst, Silent, TypeOK, State, Open, QueueUnbroken, FinIsLast, FinLast,
          GivenUpIsDead, Intact
  <1>7. ASSUME NEW seg \in Segment, NEW hop \in Hops, HandleSynAck(seg, hop) PROVE IInv'
    <2>1. rcvNxt' \in SeqNo /\ seg.ack \in SeqNo
      <3>1. seg.seq \in SeqNo /\ seg.ack \in SeqNo
        BY TcpSegments DEF SeqNo
      <3> QED BY Zenon, <1>7, <3>1, AddType DEF HandleSynAck
    <2>2. txq' = <<>> /\ Len(txq') = 0
      BY <1>7 DEF HandleSynAck
    <2> USE <1>7 DEF HandleSynAck, emit
    <2>3. Flags'
      BY Zenon, <1>0 DEF Flags
    <2>4. Fields'
      BY <2>1, <2>2, TcpConstants, <1>0 DEF Fields, State
    <2>5. QueueUnbroken' /\ FinIsLast' /\ state' = "Established"
      BY <2>2, TcpConstants DEF Open, QueueUnbroken, Unbroken, FinIsLast, FinLast, NoFin, Intact
    <2>6. GivenUpIsDead'
      BY TcpConstants DEF GivenUpIsDead
    <2> QED BY <2>2, <2>3, <2>4, <2>5, <2>6, TypeParts, TcpConstants
  <1>8. ASSUME NEW seg \in Segment, HandleStray(seg) PROVE IInv'
    <2>1. /\ txq' \in Seq(Slot) /\ Len(txq') <= Len(txq) /\ sndUna' \in SeqNo
          /\ retries' \in {0, retries} /\ FinLast'
      BY Zenon, <1>8, AckStep DEF HandleStray, FinIsLast
    <2>2. TypeOK' /\ GivenUpIsDead'
      BY <1>8, <2>1, TcpConstants DEF HandleStray, Silent, TypeOK, GivenUpIsDead
    <2>3. state' = state /\ state \notin Open
      BY <1>8 DEF HandleStray
    <2>4. state = "SynSent" => txq' = <<>>
      BY <2>1
    <2> QED BY Zenon, <2>1, <2>2, <2>3, <2>4 DEF QueueUnbroken, FinIsLast, Open
  <1>9. ASSUME NEW seg \in Segment, NEW hop \in Hops, HandleData(seg, hop) PROVE IInv'
    <2>1. /\ txq' \in Seq(Slot) /\ Len(txq') <= Len(txq) /\ sndUna' \in SeqNo
          /\ retries' \in {0, retries}
          /\ Unbroken' /\ FinLast' /\ (NoFin => NoFin')
          /\ txq' # <<>> => txq'[Len(txq')] = txq[Len(txq)]
      BY Zenon, <1>9, AckStep DEF HandleData, FinIsLast, QueueUnbroken
    <2>2. /\ rx' \in Seq(Byte) /\ Len(rx') <= RX_CAP
          /\ rcvNxt' \in SeqNo /\ truncated' \in BOOLEAN
      BY Zenon, <1>9, PayloadStep DEF HandleData
    <2>3. quiet' \in BOOLEAN
      BY Zenon, <1>9 DEF HandleData, emit, Silent, TypeOK
    <2>4. state' \in Open /\ state \in Open /\ state' \in State
          /\ (state' = "Established" <=> state = "Established")
          /\ (state' = "FinWait" => state = "FinWait" /\ txq' # <<>>)
      BY Zenon, <1>9 DEF HandleData, StateAfterAck, Open, State
    <2>5. TypeOK'
      BY <1>9, <2>1, <2>2, <2>3, <2>4, TcpConstants DEF HandleData, TypeOK
    <2>6. GivenUpIsDead'
      BY <1>9, <2>1, <2>4, TcpConstants DEF HandleData, GivenUpIsDead, Open
    <2> QED BY <2>1, <2>4, <2>5, <2>6, TcpConstants DEF QueueUnbroken, FinIsLast, Open, TypeOK
  <1>10. ASSUME NEW seg \in Segment, NEW hop \in Hops, HandleFin(seg, hop) PROVE IInv'
    <2>1. /\ txq' \in Seq(Slot) /\ Len(txq') <= Len(txq) /\ sndUna' \in SeqNo
          /\ retries' \in {0, retries} /\ Unbroken' /\ FinLast'
      BY Zenon, <1>10, AckStep DEF HandleFin, FinIsLast, QueueUnbroken
    <2>2. /\ rx' \in Seq(Byte) /\ Len(rx') <= RX_CAP
          /\ rcvNxt' \in SeqNo /\ truncated' \in BOOLEAN
      BY Zenon, <1>10, PayloadStep DEF HandleFin
    <2>3. /\ quiet' \in BOOLEAN /\ peerClosed' \in BOOLEAN
          /\ \/ state' = "Closed" /\ active' = FALSE
             \/ state' = "FinSent" /\ active' = active
      BY Zenon, <1>10 DEF HandleFin, emit
    <2>4. TypeOK'
      <3>1. Flags'
        BY Zenon, <1>10, <2>2, <2>3, <1>0 DEF HandleFin, Flags
      <3>2. Fields'
        <4>1. /\ txq' \in Seq(Slot) /\ Len(txq') <= Len(txq) /\ sndUna' \in SeqNo
              /\ retries' \in {0, retries}
          BY <2>1
        <4>2. iss' = iss /\ sndNxt' = sndNxt /\ state' \in {"Closed", "FinSent"}
          BY Zenon, <1>10, <2>3 DEF HandleFin
        <4>3. rx' \in Seq(Byte) /\ Len(rx') <= RX_CAP /\ rcvNxt' \in SeqNo
          BY <2>2
        <4> QED BY <1>0, <4>1, <4>2, <4>3, TcpConstants DEF Fields, State
      <3> QED BY <3>1, <3>2, TypeParts
    <2>5. GivenUpIsDead'
      <3>1. active /\ retries <= MAX_RETRIES
        BY Zenon, <1>10 DEF HandleFin, GivenUpIsDead
      <3>2. retries' <= MAX_RETRIES
        BY <2>1, <3>1, TcpConstants
      <3>3. ~active' => state' = "Closed"
        BY Zenon, <2>3, <3>1
      <3> QED BY Zenon, <3>2, <3>3 DEF GivenUpIsDead
    <2> QED BY Zenon, <2>1, <2>3, <2>4, <2>5 DEF QueueUnbroken, FinIsLast
  <1>11. ASSUME NEW hop \in Hops, tick(hop) PROVE IInv'
    <2>1. TypeOK' /\ GivenUpIsDead'
      <3>1. /\ quiet' = FALSE /\ active /\ UNCHANGED <<iss, rcvNxt, rx, truncated, peerClosed>>
            /\ UNCHANGED <<sndUna, sndNxt, txq>>
            /\ \/ state' = "Failed" /\ active' = FALSE /\ retries' = retries + 1
               \/ state' = state /\ active' = active /\ retries' = retries
               \/ /\ state' = state /\ active' = active /\ retries' = retries + 1
                  /\ ~(retries + 1 > MAX_RETRIES)
        BY Zenon, <1>11 DEF tick, emit, GiveUp
      <3>2. Flags'
        BY Zenon, <3>1, <1>0 DEF Flags
      <3>3. retries \in 0..MAX_RETRIES
        BY <3>1, <1>0, TcpConstants DEF GivenUpIsDead, Fields
      <3>4. Fields'
        <4>1. /\ UNCHANGED <<iss, rcvNxt, rx, sndUna, sndNxt, txq>>
              /\ state' \in {"Failed", state} /\ retries' \in {retries, retries + 1}
          BY Zenon, <3>1
        <4> QED BY <1>0, <3>3, <4>1, TcpConstants DEF Fields, State
      <3>5. active' => retries' <= MAX_RETRIES
        BY <3>1, <3>3, TcpConstants
      <3>6. ~active' => state' = "Failed"
        BY Zenon, <3>1
      <3> QED BY <3>2, <3>4, <3>5, <3>6, TypeParts DEF GivenUpIsDead
    <2>2. state' = state \/ state' = "Failed"
      BY Zenon, <1>11 DEF tick, GiveUp
    <2>3. UNCHANGED <<txq, sndUna, sndNxt>>
      BY Zenon, <1>11 DEF tick
    <2> QED BY Zenon, <2>1, <2>2, <2>3 DEF QueueUnbroken, Unbroken, Adjacent, FinIsLast, FinLast, NoFin, Intact, Open
  <1>12. CASE Clock
    BY Zenon, <1>12 DEF Clock, TypeOK, QueueUnbroken, Unbroken, Adjacent, FinIsLast, FinLast, NoFin,
          GivenUpIsDead, Intact
  <1>13. CASE UNCHANGED vars
    BY Zenon, <1>13 DEF vars, TypeOK, QueueUnbroken, Unbroken, Adjacent, FinIsLast, FinLast, NoFin,
          GivenUpIsDead, Intact
  <1> QED BY Zenon, <1>1, <1>2, <1>3, <1>4, <1>5, <1>6, <1>7, <1>8, <1>9, <1>10, <1>11, <1>12, <1>13
          DEF Next, Calls, handle

\* The control block keeps its types and limits, whatever arrives: the receive
\* ring never holds more than RX_CAP bytes and the queue at most one slot too many.
THEOREM TypeCorrect == Spec => []TypeOK
  BY InitIInv, NextIInv, PTL DEF Spec, IInv

\* The transmit queue is one unbroken run of sequence numbers from SND_UNA to
\* SND_NXT, for every peer and every network.
THEOREM QueueStaysUnbroken == Spec => []QueueUnbroken
  BY InitIInv, NextIInv, PTL DEF Spec, IInv

\* A FIN is last in the queue and stays there for as long as it is waited for.
THEOREM FinStaysLast == Spec => []FinIsLast
  BY InitIInv, NextIInv, PTL DEF Spec, IInv

\* A connection whose retry budget is spent is inactive.
THEOREM GivenUpStaysDead == Spec => []GivenUpIsDead
  BY InitIInv, NextIInv, PTL DEF Spec, IInv

----------------------------------------------------------------------------
(* 2. The bytes on their way to the peer.                                   *)


(* Facts about sequences that the proofs cite.                             *)

LEMMA SeqIs == \A D : Seq(D) = UNION {[1..n -> D] : n \in Nat}
  OBVIOUS

LEMMA SeqItem == ASSUME NEW D, NEW q \in Seq(D), NEW i \in 1..Len(q) PROVE q[i] \in D
  OBVIOUS

LEMMA NoItems ==
  ASSUME NEW D
  PROVE  <<>> \in Seq(D) /\ Len(<<>>) = 0 /\ \A q \in Seq(D) : q # <<>> => Len(q) \in Nat \ {0}
  OBVIOUS

LEMMA SameItems ==
  ASSUME NEW D, NEW q \in Seq(D), NEW r \in Seq(D), Len(q) = Len(r), \A i \in 1..Len(q) : q[i] = r[i]
  PROVE  q = r
  OBVIOUS

LEMMA Joined ==
  ASSUME NEW D, NEW q \in Seq(D), NEW r \in Seq(D)
  PROVE  /\ q \o r \in Seq(D) /\ Len(q \o r) = Len(q) + Len(r)
         /\ \A i \in 1..Len(q) + Len(r) : (q \o r)[i] = IF i <= Len(q) THEN q[i] ELSE r[i - Len(q)]
  OBVIOUS

LEMMA JoinedTwice ==
  ASSUME NEW D, NEW q \in Seq(D), NEW r \in Seq(D), NEW u \in Seq(D)
  PROVE  (q \o r) \o u = q \o (r \o u)
  OBVIOUS

LEMMA PartsJoined ==
  ASSUME NEW D, NEW q \in Seq(D),
         NEW a \in 1..Len(q) + 1, NEW b \in a - 1..Len(q), NEW c \in b..Len(q)
  PROVE  SubSeq(q, a, b) \o SubSeq(q, b + 1, c) = SubSeq(q, a, c)
  OBVIOUS

LEMMA Appended ==
  ASSUME NEW D, NEW q \in Seq(D), NEW e \in D
  PROVE  /\ Append(q, e) \in Seq(D) /\ Append(q, e) # <<>> /\ Len(Append(q, e)) = Len(q) + 1
         /\ \A i \in 1..Len(q) : Append(q, e)[i] = q[i]
         /\ Append(q, e)[Len(q) + 1] = e
  OBVIOUS

-----------------------------------------------------------------------------
(* Sequence numbers.                                                       *)

LEMMA Wraps ==
  ASSUME NEW x \in Nat, x < 2 * SeqMod
  PROVE  x % SeqMod = IF x < SeqMod THEN x ELSE x - SeqMod
<1>1. SeqMod \in Nat /\ SeqMod > 1
  BY TcpConstants
<1> QED
  BY <1>1

LEMMA AddIs ==
  ASSUME NEW a \in SeqNo, NEW n \in SeqNo
  PROVE  Add(a, n) = IF a + n < SeqMod THEN a + n ELSE a + n - SeqMod
<1>1. SeqMod \in Nat /\ SeqMod > 1 /\ a \in Nat /\ n \in Nat /\ a < SeqMod /\ n < SeqMod
  BY TcpConstants DEF SeqNo
<1>2. a + n \in Nat /\ a + n < 2 * SeqMod
  BY <1>1
<1>3. PICK x : x = a + n
  OBVIOUS
<1>4. x % SeqMod = IF x < SeqMod THEN x ELSE x - SeqMod
  BY <1>2, <1>3, Wraps
<1> QED
  BY <1>1, <1>2, <1>3, <1>4 DEF Add

\* Positions that are less than SeqMod apart have different numbers.
LEMMA AddDiffers ==
  ASSUME NEW a \in SeqNo, NEW m \in SeqNo, NEW n \in SeqNo, Add(a, m) = Add(a, n)
  PROVE  m = n
<1>1. SeqMod \in Nat /\ a \in Nat /\ n \in Nat /\ m \in Nat /\ a < SeqMod /\ n < SeqMod /\ m < SeqMod
  BY TcpConstants DEF SeqNo
<1> QED
  BY <1>1, AddIs

LEMMA AddTwice ==
  ASSUME NEW a \in SeqNo, NEW n \in SeqNo, n + 1 \in SeqNo
  PROVE  Add(Add(a, n), 1) = Add(a, n + 1) /\ Add(a, n) \in SeqNo
<1>1. SeqMod \in Nat /\ SeqMod > 1 /\ a \in Nat /\ n \in Nat /\ a < SeqMod /\ n + 1 < SeqMod
  BY TcpConstants DEF SeqNo
<1>2. Add(a, n) \in SeqNo /\ 1 \in SeqNo
  BY <1>1, AddIs DEF SeqNo
<1>3. PICK b \in SeqNo : b = Add(a, n)
  BY <1>2
<1>4. b \in Nat /\ b < SeqMod /\ b = IF a + n < SeqMod THEN a + n ELSE a + n - SeqMod
  BY <1>1, <1>3, AddIs DEF SeqNo
<1>5. Add(b, 1) = IF b + 1 < SeqMod THEN b + 1 ELSE b + 1 - SeqMod
  BY <1>2, AddIs
<1>6. Add(a, n + 1) = IF a + (n + 1) < SeqMod THEN a + (n + 1) ELSE a + (n + 1) - SeqMod
  BY AddIs
<1> QED
  BY <1>1, <1>2, <1>3, <1>4, <1>5, <1>6

----------------------------------------------------------------------------
Entry == [seq : SeqNo, data : Seq(Nat), fin : BOOLEAN]

Before == {"SynSent", "Established"}     \* the states before the client's FIN
Ended == state \notin Before

\* A slot or a segment carries nothing, one byte under its number, or the FIN
\* behind the last byte.
Carries(e, i, w, ended) ==
  \/ ~e.fin /\ e.data = <<>>
  \/ ~e.fin /\ \E k \in 1..w : e.data = <<k>> /\ e.seq = Add(i, k)
  \/ e.fin /\ e.data = <<>> /\ e.seq = Add(i, w + 1) /\ ended

\* Before the first SYN nothing has happened.
Fresh == state = "Closed" /\ ~active /\ s2c = {} /\ writes = 0 /\ txq = <<>> /\ pState = "Listen"

ClientSide ==
  /\ iss \in SeqNo /\ writes \in 0..MaxWrites /\ sent = Stream(writes)
  /\ txq \in Seq(Entry) /\ \A i \in 1..Len(txq) : Carries(txq[i], iss, writes, Ended)
  /\ state = "SynSent" => writes = 0 /\ txq = <<>>
  /\ state = "Established" => sndNxt = Add(iss, writes + 1)

OnWire(seg, i, w, ended) == Carries(seg, i, w, ended) /\ (seg.syn => seg.seq = i)

Wire ==
  /\ \A seg \in c2s : OnWire(seg, iss, writes, Ended)
  /\ \A seg \in s2c : seg.syn => seg.ack = Add(iss, 1)
  /\ c2s = {} => Fresh

PeerSide ==
  /\ pGot = Stream(Len(pGot)) /\ Len(pGot) \in 0..writes /\ pFinGot \in BOOLEAN
  /\ pState = "Listen" => pGot = <<>> /\ ~pFinGot
  /\ pState # "Listen" => pRcv = Add(iss, Len(pGot) + 1 + (IF pFinGot THEN 1 ELSE 0))
  /\ pFinGot => Len(pGot) = writes /\ Ended

Pipe == ClientSide /\ Wire /\ PeerSide

LEMMA Numbers ==
  /\ SeqMod \in Nat /\ SeqMod > 1 /\ MaxWrites \in Nat /\ MaxWrites + 2 < SeqMod
  /\ \A k \in 0..(MaxWrites + 2) : k \in SeqNo
<1>1. SeqMod \in Nat /\ SeqMod > 1 /\ MaxWrites \in Nat /\ MaxWrites + 2 < SeqMod
  BY TcpConstants, TcpNetConstants, TcpNetSpace
<1> QED
  BY <1>1 DEF SeqNo

LEMMA StreamIsSeq ==
  ASSUME NEW n \in Nat
  PROVE  /\ Stream(n) \in Seq(Nat) /\ Len(Stream(n)) = n
         /\ \A i \in 1..n : Stream(n)[i] = i
         /\ Append(Stream(n), n + 1) = Stream(n + 1)
         /\ Stream(n) \o <<n + 1>> = Stream(n + 1)
<1>1. Stream(n) \in Seq(Nat) /\ Len(Stream(n)) = n /\ \A i \in 1..n : Stream(n)[i] = i
  BY DEF Stream
<1>2. Stream(n + 1) \in Seq(Nat) /\ Len(Stream(n + 1)) = n + 1 /\ \A i \in 1..(n + 1) : Stream(n + 1)[i] = i
  BY DEF Stream
<1>3. Append(Stream(n), n + 1) = Stream(n + 1)
  BY <1>1, <1>2
<1> QED
  BY <1>1, <1>2, <1>3

LEMMA StreamPrefix ==
  ASSUME NEW n \in Nat, NEW m \in Nat, m <= n
  PROVE  SubSeq(Stream(n), 1, m) = Stream(m)
<1>1. Stream(n) \in Seq(Nat) /\ Len(Stream(n)) = n /\ \A i \in 1..n : Stream(n)[i] = i
  BY Zenon, StreamIsSeq
<1>2. Stream(m) \in Seq(Nat) /\ Len(Stream(m)) = m /\ \A i \in 1..m : Stream(m)[i] = i
  BY Zenon, StreamIsSeq
<1> QED
  BY <1>1, <1>2

LEMMA PipeStart == NetInit => Pipe
<1> SUFFICES ASSUME NetInit PROVE Pipe
  OBVIOUS
<1>1. iss = 0 /\ writes = 0 /\ sent = <<>> /\ txq = <<>> /\ state = "Closed" /\ ~active
      /\ c2s = {} /\ s2c = {} /\ pState = "Listen" /\ pGot = <<>> /\ pFinGot = FALSE
  BY Zenon DEF NetInit, Init
<1>2. Stream(0) = <<>>
  BY DEF Stream
<1>3. ClientSide
  BY <1>1, <1>2, Numbers DEF ClientSide, SeqNo
<1>4. Wire
  BY Zenon, <1>1 DEF Wire, Fresh
<1>5. PeerSide
  <2>1. Len(pGot) = 0 /\ pGot = Stream(Len(pGot))
    BY <1>1, <1>2
  <2>2. pFinGot \in BOOLEAN /\ ~pFinGot
    BY Zenon, <1>1
  <2> QED
    BY <1>1, <2>1, <2>2 DEF PeerSide
<1> QED
  BY <1>3, <1>4, <1>5 DEF Pipe

----------------------------------------------------------------------------
(* The steps of the client.                                                 *)

\* What a client step may do to the connection without adding to its stream.
Keeps ==
  /\ UNCHANGED <<iss, sndNxt, writes, sent, s2c, pState, pRcv, pGot, pFinGot>>
  /\ state' = state \/ Ended'
  /\ txq' \in Seq(Entry)
  /\ \A i \in 1..Len(txq') : \E j \in 1..Len(txq) : txq'[i] = txq[j]
  /\ c2s' = c2s \cup out' /\ \A seg \in out' : OnWire(seg, iss, writes, Ended)
  /\ c2s = {} => UNCHANGED <<state, active, txq>> /\ out' = {}

LEMMA CarriesOn ==
  ASSUME NEW i, NEW w \in Nat, NEW v \in Nat, w <= v, NEW b, NEW c, b => c /\ w = v,
         NEW e, Carries(e, i, w, b)
  PROVE  Carries(e, i, v, c)
BY DEF Carries

LEMMA KeepsPipe ==
  ASSUME Pipe, Keeps
  PROVE  Pipe'
<1>1. /\ iss' = iss /\ sndNxt' = sndNxt /\ writes' = writes /\ sent' = sent /\ s2c' = s2c
      /\ pState' = pState /\ pRcv' = pRcv /\ pGot' = pGot /\ pFinGot' = pFinGot
      /\ state' = state \/ Ended'
  BY Zenon DEF Keeps
<1>2. writes \in Nat
  BY DEF Pipe, ClientSide
<1>8. Ended => Ended'
  BY <1>1 DEF Ended
<1>3. \A e : Carries(e, iss, writes, Ended) => Carries(e, iss, writes, Ended')
  BY <1>2, <1>8, CarriesOn
<1>4. ClientSide'
  <2>1. txq' \in Seq(Entry) /\ \A i \in 1..Len(txq') : Carries(txq'[i], iss', writes', Ended')
    BY Zenon, <1>1, <1>3 DEF Keeps, Pipe, ClientSide
  <2>2. state' = "SynSent" => writes' = 0 /\ txq' = <<>>
    <3> SUFFICES ASSUME state' = "SynSent" PROVE writes' = 0 /\ txq' = <<>>
      OBVIOUS
    <3>1. state = "SynSent" /\ Len(txq) = 0 /\ writes = 0
      BY Zenon, <1>1 DEF Ended, Before, Pipe, ClientSide
    <3>2. Len(txq') \in Nat /\ ~ (1 \in 1..Len(txq'))
      BY <2>1, <3>1 DEF Keeps
    <3>3. Len(txq') = 0
      BY <3>2
    <3> QED
      BY Zenon, <1>1, <2>1, <3>1, <3>3, NoItems
  <2>3. state' = "Established" => sndNxt' = Add(iss', writes' + 1)
    BY Zenon, <1>1 DEF Ended, Before, Pipe, ClientSide
  <2>4. iss' \in SeqNo /\ writes' \in 0..MaxWrites /\ sent' = Stream(writes')
    BY Zenon, <1>1 DEF Pipe, ClientSide
  <2> QED
    BY Zenon, <2>1, <2>2, <2>3, <2>4 DEF ClientSide
<1>5. Wire'
  <2>1. \A seg \in c2s' : OnWire(seg, iss', writes', Ended')
    BY Zenon, <1>1, <1>3 DEF Keeps, Pipe, Wire, OnWire
  <2>2. c2s' = {} => Fresh'
    BY Zenon, <1>1 DEF Keeps, Pipe, Wire, Fresh
  <2>3. \A seg \in s2c' : seg.syn => seg.ack = Add(iss', 1)
    BY Zenon, <1>1 DEF Pipe, Wire
  <2> QED
    BY Zenon, <2>1, <2>2, <2>3 DEF Wire
<1>6. PeerSide'
  BY Zenon, <1>1, <1>8 DEF Pipe, PeerSide
<1> QED
  BY <1>4, <1>5, <1>6 DEF Pipe

LEMMA SegFields ==
  ASSUME NEW q, NEW a, NEW f, NEW d, NEW n
  PROVE  /\ Seg(q, a, f, d, n).seq = q /\ Seg(q, a, f, d, n).data = d
         /\ Seg(q, a, f, d, n).fin <=> "fin" \in f
         /\ Seg(q, a, f, d, n).syn <=> "syn" \in f
<1>1. Seg(q, a, f, d, n).seq = q /\ Seg(q, a, f, d, n).data = d
  BY Zenon DEF Seg
<1>2. Seg(q, a, f, d, n).fin = ("fin" \in f) /\ Seg(q, a, f, d, n).syn = ("syn" \in f)
  BY Zenon DEF Seg
<1> QED
  BY Zenon, <1>1, <1>2

LEMMA AckOnWire ==
  ASSUME NEW q, NEW a, NEW n, NEW i, NEW w, NEW b
  PROVE  OnWire(send_ack(q, a, n), i, w, b)
BY Zenon DEF send_ack, Seg, OnWire, Carries

LEMMA SlotOnWire ==
  ASSUME NEW e, NEW a, NEW n, NEW i, NEW w, NEW b, e.fin \in BOOLEAN, Carries(e, i, w, b)
  PROVE  OnWire(emit_slot(e, a, n), i, w, b)
<1>1. CASE e.fin
  <2>1. emit_slot(e, a, n) = Seg(e.seq, a, {"ack", "fin"}, e.data, n)
    BY Zenon, <1>1 DEF emit_slot
  <2>2. /\ emit_slot(e, a, n).fin /\ ~ emit_slot(e, a, n).syn
        /\ emit_slot(e, a, n).data = e.data /\ emit_slot(e, a, n).seq = e.seq
    <3>1. PICK F : F = {"ack", "fin"}
      BY Zenon
    <3>2. "fin" \in F /\ "syn" \notin F
      BY <3>1
    <3>3. emit_slot(e, a, n) = Seg(e.seq, a, F, e.data, n)
      BY Zenon, <2>1, <3>1
    <3>4. PICK d : d = Seg(e.seq, a, F, e.data, n)
      BY Zenon
    <3>5. d.seq = e.seq /\ d.data = e.data
      BY <3>4, SegFields
    <3>6. (d.fin <=> "fin" \in F) /\ (d.syn <=> "syn" \in F)
      BY <3>4, SegFields
    <3> QED
      BY Zenon, <3>2, <3>3, <3>4, <3>5, <3>6
  <2> QED
    BY Zenon, <1>1, <2>2 DEF OnWire, Carries
<1>2. CASE ~ e.fin
  <2>1. emit_slot(e, a, n) = Seg(e.seq, a, {"ack"}, e.data, n)
    BY <1>2 DEF emit_slot
  <2>2. /\ ~ emit_slot(e, a, n).fin /\ ~ emit_slot(e, a, n).syn
        /\ emit_slot(e, a, n).data = e.data /\ emit_slot(e, a, n).seq = e.seq
    <3>1. PICK F : F = {"ack"}
      BY Zenon
    <3>2. "fin" \notin F /\ "syn" \notin F
      BY <3>1
    <3>3. emit_slot(e, a, n) = Seg(e.seq, a, F, e.data, n)
      BY Zenon, <2>1, <3>1
    <3>4. PICK d : d = Seg(e.seq, a, F, e.data, n)
      BY Zenon
    <3>5. d.seq = e.seq /\ d.data = e.data
      BY <3>4, SegFields
    <3>6. (d.fin <=> "fin" \in F) /\ (d.syn <=> "syn" \in F)
      BY <3>4, SegFields
    <3> QED
      BY Zenon, <3>2, <3>3, <3>4, <3>5, <3>6
  <2> QED
    BY Zenon, <1>2, <2>2 DEF OnWire, Carries
<1> QED
  BY Zenon, <1>1, <1>2

LEMMA EntryFields ==
  ASSUME Pipe, NEW i \in 1..Len(txq)
  PROVE  txq[i] \in Entry /\ txq[i].fin \in BOOLEAN /\ Carries(txq[i], iss, writes, Ended)
<1>1. txq \in Seq(Entry)
  BY Zenon DEF Pipe, ClientSide
<1>2. txq[i] \in Entry
  BY <1>1, SeqItem
<1> QED
  BY Zenon, <1>2 DEF Entry, Pipe, ClientSide

\* ack_advance only drops slots from the front.
LEMMA AckDrops ==
  ASSUME Pipe, NEW seg, TakeAck(seg)
  PROVE  txq' \in Seq(Entry) /\ \A i \in 1..Len(txq') : \E j \in 1..Len(txq) : txq'[i] = txq[j]
<1>1. txq \in Seq(Entry) /\ Len(txq) \in Nat
  BY DEF Pipe, ClientSide
<1>2. CASE txq' = txq
  BY <1>1, <1>2
<1>3. CASE ack_advance(seg.ack)
  <2>1. PICK k \in 0..Len(txq) : txq' = SubSeq(txq, k + 1, Len(txq))
    BY <1>3 DEF ack_advance
  <2>2. /\ txq' \in Seq(Entry) /\ Len(txq') = Len(txq) - k
        /\ \A i \in 1..(Len(txq) - k) : txq'[i] = txq[i + k]
    BY Zenon, <1>1, <2>1, DropFirst
  <2>3. \A i \in 1..(Len(txq) - k) : i + k \in 1..Len(txq)
    BY <1>1
  <2> QED
    BY Zenon, <2>2, <2>3
<1> QED
  BY Zenon, <1>2, <1>3 DEF TakeAck

LEMMA ReleaseKeeps == ASSUME Pipe, Release PROVE Keeps
<1>1. /\ UNCHANGED <<iss, sndNxt, writes, sent, s2c, pState, pRcv, pGot, pFinGot, state, active, txq>>
      /\ c2s' = c2s \cup out'
  BY Zenon DEF Release, ClientEmits, rx_release, peer
<1>2. \A seg \in out' : OnWire(seg, iss, writes, Ended)
  BY AckOnWire DEF Release, rx_release, emit, Silent
<1>3. c2s = {} => out' = {}
  BY Zenon DEF Release, rx_release, Silent, Pipe, Wire, Fresh, Open
<1>4. txq' \in Seq(Entry) /\ \A i \in 1..Len(txq') : \E j \in 1..Len(txq) : txq'[i] = txq[j]
  BY Zenon, <1>1 DEF Pipe, ClientSide
<1> QED
  BY Zenon, <1>1, <1>2, <1>3, <1>4 DEF Keeps

LEMMA TimerKeeps == ASSUME Pipe, Timer PROVE Keeps
<1>1. /\ UNCHANGED <<iss, sndNxt, writes, sent, s2c, pState, pRcv, pGot, pFinGot, state, active, txq>>
      /\ c2s' = c2s \cup out' /\ out' = {}
  BY Zenon DEF Timer, Clock, peer
<1>2. txq' \in Seq(Entry) /\ \A i \in 1..Len(txq') : \E j \in 1..Len(txq) : txq'[i] = txq[j]
  BY Zenon, <1>1 DEF Pipe, ClientSide
<1> QED
  BY Zenon, <1>1, <1>2 DEF Keeps

LEMMA RetransmitKeeps == ASSUME Pipe, Retransmit PROVE Keeps
<1>1. /\ UNCHANGED <<iss, sndNxt, writes, sent, s2c, pState, pRcv, pGot, pFinGot, txq>>
      /\ c2s' = c2s \cup out' /\ (state' = state \/ state' = "Failed") /\ active
      /\ out' = Outstanding
  BY Zenon DEF Retransmit, ClientEmits, tick, GiveUp, emit, peer
<1>2. \A seg \in Outstanding : OnWire(seg, iss, writes, Ended)
  <2>1. CASE state = "SynSent"
    <3>1. Outstanding = {Seg(iss, rcvNxt, {"syn"}, <<>>, Len(rx))}
      BY Zenon, <2>1 DEF Outstanding
    <3>2. PICK s : s = Seg(iss, rcvNxt, {"syn"}, <<>>, Len(rx))
      OBVIOUS
    <3>3. s.seq = iss /\ s.data = <<>> /\ ~ s.fin /\ s.syn
      BY <3>2, SegFields
    <3> QED
      BY Zenon, <3>1, <3>2, <3>3 DEF OnWire, Carries
  <2>2. CASE state # "SynSent"
    BY <2>2, EntryFields, SlotOnWire DEF Outstanding
  <2> QED
    BY <2>1, <2>2
<1>3. c2s # {}
  BY Zenon, <1>1 DEF Pipe, Wire, Fresh
<1>4. txq' \in Seq(Entry) /\ \A i \in 1..Len(txq') : \E j \in 1..Len(txq) : txq'[i] = txq[j]
  BY Zenon, <1>1 DEF Pipe, ClientSide
<1>5. state' = state \/ Ended'
  BY Zenon, <1>1 DEF Ended, Before
<1> QED
  BY Zenon, <1>1, <1>2, <1>3, <1>4, <1>5 DEF Keeps

\* A segment of the peer, except the one that opens the connection.
LEMMA HandleKeeps ==
  ASSUME Pipe, NEW seg \in s2c, ClientEmits,
         UNCHANGED <<s2c, peer, sent, released, writes, releases>>,
         HandleRst(seg) \/ HandleStray(seg) \/ HandleData(seg, TRUE) \/ HandleFin(seg, TRUE)
  PROVE  Keeps
<1>1. UNCHANGED <<writes, sent, s2c, pState, pRcv, pGot, pFinGot>> /\ c2s' = c2s \cup out'
  BY Zenon DEF ClientEmits, peer
<1>2. c2s # {}
  BY Zenon DEF Pipe, Wire, Fresh
<1>3. UNCHANGED <<iss, sndNxt>>
  BY Zenon DEF HandleRst, HandleStray, HandleData, HandleFin
<1>4. txq' \in Seq(Entry) /\ \A i \in 1..Len(txq') : \E j \in 1..Len(txq) : txq'[i] = txq[j]
  <2>1. CASE HandleRst(seg)
    BY Zenon, <2>1 DEF HandleRst, Pipe, ClientSide
  <2>2. CASE TakeAck(seg)
    BY Zenon, <2>2, AckDrops
  <2> QED
    BY Zenon, <2>1, <2>2 DEF HandleStray, HandleData, HandleFin
<1>5. state' = state \/ Ended'
  BY Zenon DEF HandleRst, HandleStray, HandleData, HandleFin, StateAfterAck, Ended, Before
<1>6. \A s \in out' : OnWire(s, iss, writes, Ended)
  <2>1. out' = {} \/ out' = {send_ack(sndNxt, rcvNxt', Len(rx'))}
    BY Zenon DEF HandleRst, HandleStray, HandleData, HandleFin, emit, Silent
  <2> QED
    BY <2>1, AckOnWire
<1> QED
  BY Zenon, <1>1, <1>2, <1>3, <1>4, <1>5, <1>6 DEF Keeps

LEMMA ConnectPipe == ASSUME Pipe, Connect PROVE Pipe' /\ UNCHANGED <<sent, pGot>>
<1>1. PICK i \in ISSs : connect(i, TRUE)
  BY Zenon DEF Connect
<1>2. UNCHANGED <<s2c, sent, writes, pState, pRcv, pGot, pFinGot>> /\ c2s' = c2s \cup out' /\ c2s = {}
  BY Zenon DEF Connect, ClientEmits, peer
<1>3. Fresh
  BY Zenon, <1>2 DEF Pipe, Wire
<1>4. i \in SeqNo
  BY TcpInputs DEF SeqNo
<1>5. PICK s : s = Seg(i, 0, {"syn"}, <<>>, 0)
  OBVIOUS
<1>6. s.seq = i /\ s.data = <<>> /\ ~ s.fin /\ s.syn
  BY <1>5, SegFields
<1>7. iss' = i /\ state' = "SynSent" /\ txq' = <<>> /\ out' = {s}
  BY Zenon, <1>1, <1>5 DEF connect, ClearBuffers, emit
<1>8. ClientSide'
  BY <1>2, <1>3, <1>4, <1>7 DEF ClientSide, Pipe, Fresh
<1>9. Wire'
  <2>1. \A seg \in c2s' : OnWire(seg, iss', writes', Ended')
    BY Zenon, <1>2, <1>6, <1>7 DEF OnWire, Carries
  <2>2. c2s' # {} /\ s2c' = {}
    BY Zenon, <1>2, <1>3, <1>7 DEF Fresh
  <2> QED
    BY <2>1, <2>2 DEF Wire
<1>10. PeerSide'
  BY Zenon, <1>2, <1>3 DEF PeerSide, Pipe, Fresh
<1> QED
  BY Zenon, <1>2, <1>8, <1>9, <1>10 DEF Pipe

LEMMA SynAckPipe ==
  ASSUME Pipe, NEW seg \in s2c, ClientEmits,
         UNCHANGED <<s2c, peer, sent, released, writes, releases>>, HandleSynAck(seg, TRUE)
  PROVE  Pipe' /\ UNCHANGED <<sent, pGot>>
<1>1. /\ UNCHANGED <<s2c, sent, writes, pState, pRcv, pGot, pFinGot, iss, txq>>
      /\ c2s' = c2s \cup out' /\ sndNxt' = seg.ack /\ state = "SynSent" /\ state' = "Established"
      /\ seg.syn /\ out' = {send_ack(seg.ack, rcvNxt', Len(rx))}
  BY Zenon DEF ClientEmits, peer, HandleSynAck, emit
<1>2. seg.ack = Add(iss, 1) /\ writes = 0
  BY Zenon, <1>1 DEF Pipe, Wire, ClientSide
<1>3. ~ Ended /\ ~ Ended' /\ Ended = FALSE /\ Ended' = FALSE
  BY Zenon, <1>1 DEF Ended, Before
<1>4. ClientSide'
  <2>1. \A i \in 1..Len(txq') : Carries(txq'[i], iss', writes', Ended')
    BY Zenon, <1>1, <1>3 DEF Pipe, ClientSide
  <2>2. sndNxt' = Add(iss', writes' + 1)
    BY <1>1, <1>2
  <2> QED
    BY Zenon, <1>1, <2>1, <2>2 DEF Pipe, ClientSide
<1>5. Wire'
  <2>1. \A s \in c2s' : OnWire(s, iss', writes', Ended')
    BY Zenon, <1>1, <1>3, AckOnWire DEF Pipe, Wire
  <2>2. c2s' # {}
    BY Zenon, <1>1
  <2> QED
    BY Zenon, <1>1, <2>1, <2>2 DEF Pipe, Wire
<1>6. PeerSide'
  BY Zenon, <1>1, <1>3 DEF Pipe, PeerSide
<1> QED
  BY Zenon, <1>1, <1>4, <1>5, <1>6 DEF Pipe

LEMMA QueuedSlots ==
  ASSUME txq \in Seq(Entry), NEW e \in Entry
  PROVE  /\ queue_slot(e) \in Seq(Entry)
         /\ \A i \in 1..Len(queue_slot(e)) : queue_slot(e)[i] = e \/ \E j \in 1..Len(txq) : queue_slot(e)[i] = txq[j]
<1>1. Len(txq) \in Nat /\ TX_SLOTS \in Nat /\ TX_SLOTS > 0
  BY TcpConstants
<1>2. CASE Len(txq) < TX_SLOTS
  <2>1. PICK q : q = Append(txq, e)
    BY Zenon
  <2>2. q \in Seq(Entry) /\ Len(q) = Len(txq) + 1 /\ q[Len(txq) + 1] = e /\ \A i \in 1..Len(txq) : q[i] = txq[i]
    BY <2>1, Appended
  <2>3. queue_slot(e) = q
    BY <1>2, <2>1 DEF queue_slot
  <2>4. \A i \in 1..Len(q) : i = Len(txq) + 1 \/ i \in 1..Len(txq)
    BY <1>1, <2>2
  <2> QED
    BY Zenon, <2>2, <2>3, <2>4
<1>3. CASE ~ (Len(txq) < TX_SLOTS)
  <2>1. PICK k : k = Len(txq) - TX_SLOTS + 1
    OBVIOUS
  <2>2. k \in 1..Len(txq)
    BY <1>1, <1>3, <2>1
  <2>3. PICK r : r = [txq EXCEPT ![k] = e]
    BY Zenon
  <2>4. r \in Seq(Entry) /\ Len(r) = Len(txq) /\ \A i \in 1..Len(txq) : r[i] = IF i = k THEN e ELSE txq[i]
    BY <2>2, <2>3
  <2>5. PICK q : q = Append(r, e)
    BY Zenon
  <2>6. q \in Seq(Entry) /\ Len(q) = Len(txq) + 1 /\ q[Len(txq) + 1] = e /\ \A i \in 1..Len(txq) : q[i] = r[i]
    BY <2>4, <2>5, Appended
  <2>7. queue_slot(e) = q
    BY <1>3, <2>1, <2>3, <2>5 DEF queue_slot
  <2>8. \A i \in 1..Len(q) : i = Len(txq) + 1 \/ i \in 1..Len(txq)
    BY <1>1, <2>6
  <2> QED
    BY Zenon, <2>4, <2>6, <2>7, <2>8
<1> QED
  BY Zenon, <1>2, <1>3

LEMMA WritePipe ==
  ASSUME Pipe, Write
  PROVE  Pipe' /\ ClientToPeer!Write
<1>1. /\ UNCHANGED <<s2c, pState, pRcv, pGot, pFinGot, iss, state>> /\ state = "Established"
      /\ c2s' = c2s \cup out' /\ sent' = Append(sent, writes + 1) /\ writes' = writes + 1
      /\ writes < MaxWrites
  BY Zenon DEF Write, send, ClientEmits, peer
<1>2. writes \in Nat /\ MaxWrites \in Nat /\ writes' \in 0..MaxWrites /\ writes' \in Nat /\ iss \in SeqNo
      /\ writes + 1 \in 1..MaxWrites
  BY <1>1, Numbers DEF Pipe, ClientSide
<1>3. /\ sndNxt = Add(iss, writes + 1) /\ sndNxt \in SeqNo /\ Add(sndNxt, 1) = Add(iss, writes + 2)
  <2>1. writes + 1 \in SeqNo /\ (writes + 1) + 1 \in SeqNo /\ (writes + 1) + 1 = writes + 2
    BY <1>1, <1>2, Numbers
  <2>2. sndNxt = Add(iss, writes + 1)
    BY Zenon, <1>1 DEF Pipe, ClientSide
  <2>3. Add(Add(iss, writes + 1), 1) = Add(iss, (writes + 1) + 1) /\ Add(iss, writes + 1) \in SeqNo
    BY Zenon, <1>2, <2>1, AddTwice
  <2> QED
    BY Zenon, <2>1, <2>2, <2>3
<1>4. ~ Ended /\ ~ Ended' /\ Ended = FALSE /\ Ended' = FALSE
  BY Zenon, <1>1 DEF Ended, Before
<1>5. PICK e : e = NewSlot(<<writes + 1>>, FALSE)
  BY Zenon
<1>6. e.seq = sndNxt /\ e.data = <<writes + 1>> /\ ~ e.fin /\ e.fin = FALSE /\ e \in Entry
  BY <1>2, <1>3, <1>5 DEF NewSlot, Entry
<1>7. txq' = queue_slot(e) /\ out' = {emit_slot(e, rcvNxt, Len(rx))} /\ sndNxt' = Add(sndNxt, Len(<<writes + 1>>))
  BY Zenon, <1>5 DEF Write, send, emit
<1>8. Carries(e, iss', writes', Ended')
  BY <1>1, <1>2, <1>3, <1>6 DEF Carries
<1>9. \A x : Carries(x, iss, writes, Ended) => Carries(x, iss', writes', Ended')
  BY <1>1, <1>2, <1>4, CarriesOn
<1>10. sent' = Stream(writes') /\ sent' = sent \o <<writes + 1>>
  BY Zenon, <1>1, <1>2, StreamIsSeq DEF Pipe, ClientSide
<1>11. ClientSide'
  <2>1. txq' \in Seq(Entry) /\ \A i \in 1..Len(txq') : Carries(txq'[i], iss', writes', Ended')
    BY Zenon, <1>6, <1>7, <1>8, <1>9, QueuedSlots DEF Pipe, ClientSide
  <2>2. sndNxt' = Add(iss', writes' + 1)
    <3>1. Len(<<writes + 1>>) = 1 /\ writes' + 1 = writes + 2
      BY <1>1, <1>2
    <3> QED
      BY Zenon, <1>1, <1>3, <1>7, <3>1
  <2> QED
    BY Zenon, <1>1, <1>2, <1>10, <2>1, <2>2 DEF ClientSide
<1>12. Wire'
  <2>1. OnWire(emit_slot(e, rcvNxt, Len(rx)), iss', writes', Ended')
    <3>1. PICK i, w, b : i = iss' /\ w = writes' /\ b = Ended'
      OBVIOUS
    <3>2. Carries(e, i, w, b) /\ e.fin \in BOOLEAN
      BY Zenon, <1>6, <1>8, <3>1
    <3> QED
      BY <3>1, <3>2, SlotOnWire
  <2>2. \A s \in c2s' : OnWire(s, iss', writes', Ended')
    BY Zenon, <1>1, <1>7, <1>9, <2>1 DEF Pipe, Wire, OnWire
  <2>3. c2s' # {}
    BY Zenon, <1>1, <1>7
  <2> QED
    BY Zenon, <1>1, <2>2, <2>3 DEF Pipe, Wire
<1>13. PeerSide'
  BY <1>1, <1>2, <1>4 DEF Pipe, PeerSide
<1>14. ClientToPeer!Write
  BY Zenon, <1>1, <1>2, <1>10 DEF ClientToPeer!Write
<1> QED
  BY <1>11, <1>12, <1>13, <1>14 DEF Pipe

LEMMA ClosePipe == ASSUME Pipe, Close PROVE Pipe' /\ UNCHANGED <<sent, pGot>>
<1>1. /\ UNCHANGED <<s2c, sent, writes, pState, pRcv, pGot, pFinGot, iss>>
      /\ state = "Established" /\ state' = "FinWait" /\ c2s' = c2s \cup out'
  BY Zenon DEF Close, close, ClientEmits, peer
<1>2. writes \in Nat /\ iss \in SeqNo
  BY DEF Pipe, ClientSide
<1>3. sndNxt = Add(iss, writes + 1) /\ sndNxt \in SeqNo
  <2>1. writes + 1 \in SeqNo /\ (writes + 1) + 1 \in SeqNo
    BY Numbers DEF Pipe, ClientSide
  <2>2. sndNxt = Add(iss, writes + 1)
    BY Zenon, <1>1 DEF Pipe, ClientSide
  <2> QED
    BY Zenon, <1>2, <2>1, <2>2, AddTwice
<1>4. ~ Ended /\ Ended' /\ Ended = FALSE /\ Ended' = TRUE
  BY Zenon, <1>1 DEF Ended, Before
<1>5. PICK e : e = NewSlot(<<>>, TRUE)
  BY Zenon
<1>6. e.seq = sndNxt /\ e.data = <<>> /\ e.fin /\ e.fin \in BOOLEAN /\ e \in Entry
  <2>1. PICK x : x = sndNxt
    BY Zenon
  <2>2. x \in SeqNo /\ e = [seq |-> x, data |-> <<>>, fin |-> TRUE]
    BY Zenon, <1>3, <1>5, <2>1 DEF NewSlot
  <2>3. e.seq = x /\ e.data = <<>> /\ e.fin /\ e.fin \in BOOLEAN /\ e \in [seq : SeqNo, data : Seq(Nat), fin : BOOLEAN]
    BY <2>2
  <2> QED
    BY Zenon, <2>1, <2>3 DEF Entry
<1>7. txq' = queue_slot(e) /\ out' = {emit_slot(e, rcvNxt, Len(rx))}
  BY Zenon, <1>5 DEF Close, close, emit
<1>8. Carries(e, iss', writes', Ended')
  BY Zenon, <1>1, <1>3, <1>4, <1>6 DEF Carries
<1>9. \A x : Carries(x, iss, writes, Ended) => Carries(x, iss', writes', Ended')
  <2> SUFFICES ASSUME NEW x, Carries(x, iss, writes, FALSE) PROVE Carries(x, iss, writes, TRUE)
    BY Zenon, <1>1, <1>4
  <2> QED
    BY Zenon DEF Carries
<1>11. ClientSide'
  <2>1. txq' \in Seq(Entry) /\ \A i \in 1..Len(txq') : Carries(txq'[i], iss', writes', Ended')
    BY Zenon, <1>6, <1>7, <1>8, <1>9, QueuedSlots DEF Pipe, ClientSide
  <2> QED
    BY Zenon, <1>1, <2>1 DEF Pipe, ClientSide
<1>12. Wire'
  <2>1. OnWire(emit_slot(e, rcvNxt, Len(rx)), iss', writes', Ended')
    <3>1. PICK i, w, b : i = iss' /\ w = writes' /\ b = Ended'
      OBVIOUS
    <3>2. Carries(e, i, w, b) /\ e.fin \in BOOLEAN
      BY Zenon, <1>6, <1>8, <3>1
    <3> QED
      BY <3>1, <3>2, SlotOnWire
  <2>2. \A s \in c2s' : OnWire(s, iss', writes', Ended')
    BY Zenon, <1>1, <1>7, <1>9, <2>1 DEF Pipe, Wire, OnWire
  <2>3. c2s' # {}
    BY Zenon, <1>1, <1>7
  <2> QED
    BY Zenon, <1>1, <2>2, <2>3 DEF Pipe, Wire
<1>13. PeerSide'
  BY Zenon, <1>1, <1>4 DEF Pipe, PeerSide
<1> QED
  BY Zenon, <1>1, <1>11, <1>12, <1>13 DEF Pipe

----------------------------------------------------------------------------
(* The steps of the peer.                                                   *)

LEMMA PSegFields ==
  ASSUME NEW q, NEW f, NEW d, NEW a
  PROVE  (PSeg(q, f, d, a).syn <=> "syn" \in f) /\ PSeg(q, f, d, a).ack = a
<1>1. PSeg(q, f, d, a).ack = a
  BY Zenon DEF PSeg
<1>2. PSeg(q, f, d, a).syn = ("syn" \in f)
  BY Zenon DEF PSeg
<1> QED
  BY Zenon, <1>1, <1>2

\* The peer's own data: the client's stream is not touched.
LEMMA PeerTalksPipe ==
  ASSUME Pipe, PeerSends \/ PeerProbes \/ PeerResets
  PROVE  Pipe' /\ UNCHANGED <<sent, pGot>>
<1>1. UNCHANGED <<iss, state, active, sndNxt, txq, c2s, sent, writes, pState, pRcv, pGot, pFinGot>> /\ pState = "Up"
  BY Zenon DEF PeerSends, PeerProbes, PeerResets, PeerSendsBytes, vars, peer
<1>2. \E seg : s2c' = s2c \cup {seg} /\ ~ seg.syn
  <2>1. \E q, f, d, a : s2c' = s2c \cup {PSeg(q, f, d, a)} /\ "syn" \notin f
    <3>1. CASE PeerSends \/ PeerProbes
      <4>1. PICK n, fin : PeerSendsBytes(n, fin)
        BY Zenon, <3>1 DEF PeerSends, PeerProbes
      <4>2. PICK f : f = IF fin THEN {"ack", "fin"} ELSE {"ack"}
        BY Zenon
      <4>3. "syn" \notin f
        BY <4>2
      <4> QED
        BY Zenon, <4>1, <4>2, <4>3 DEF PeerSendsBytes, PeerEmits
    <3>2. CASE PeerResets
      <4>1. "syn" \notin {"rst"}
        OBVIOUS
      <4> QED
        BY Zenon, <3>2, <4>1 DEF PeerResets, PeerEmits
    <3> QED
      BY Zenon, <3>1, <3>2
  <2> QED
    BY <2>1, PSegFields
<1>3. Ended' <=> Ended
  BY Zenon, <1>1 DEF Ended
<1>4. ClientSide' /\ PeerSide'
  <2>1. Ended' = Ended
    BY Zenon, <1>1 DEF Ended
  <2> QED
    BY Zenon, <1>1, <2>1 DEF Pipe, ClientSide, PeerSide
<1>5. Wire'
  <2>1. Ended' = Ended
    BY Zenon, <1>1 DEF Ended
  <2>2. c2s # {}
    BY Zenon, <1>1 DEF Pipe, Wire, Fresh
  <2> QED
    BY Zenon, <1>1, <1>2, <2>1, <2>2 DEF Pipe, Wire
<1> QED
  BY Zenon, <1>1, <1>4, <1>5 DEF Pipe

LEMMA AcceptPipe == ASSUME Pipe, PeerAccepts PROVE Pipe' /\ UNCHANGED <<sent, pGot>>
<1>1. UNCHANGED <<iss, state, active, sndNxt, txq, c2s, sent, writes, pGot, pFinGot>> /\ pState = "Listen" /\ pState' = "SynRcvd"
  BY Zenon DEF PeerAccepts, vars
<1>2. PICK seg \in c2s : /\ seg.syn /\ pRcv' = Add(seg.seq, 1)
                         /\ PeerEmits(PSeg(PISS, {"syn", "ack"}, <<>>, Add(seg.seq, 1)))
  BY Zenon DEF PeerAccepts
<1>3. seg.seq = iss
  BY Zenon, <1>2 DEF Pipe, Wire, OnWire
<1>4. \E s : s2c' = s2c \cup {s} /\ s.ack = Add(iss, 1)
  BY <1>2, <1>3, PSegFields DEF PeerEmits
<1>5. Ended' = Ended
  BY Zenon, <1>1 DEF Ended
<1>6. ClientSide'
  BY Zenon, <1>1, <1>5 DEF Pipe, ClientSide
<1>7. Wire'
  BY Zenon, <1>1, <1>2, <1>4, <1>5 DEF Pipe, Wire
<1>8. PeerSide'
  <2>1. pGot = <<>> /\ ~ pFinGot /\ Len(pGot) = 0
    BY Zenon, <1>1 DEF Pipe, PeerSide
  <2>2. pRcv' = Add(iss', Len(pGot') + 1 + (IF pFinGot' THEN 1 ELSE 0))
    BY <1>1, <1>2, <1>3, <2>1
  <2> QED
    BY Zenon, <1>1, <1>5, <2>1, <2>2 DEF Pipe, PeerSide
<1> QED
  BY Zenon, <1>1, <1>6, <1>7, <1>8 DEF Pipe

\* Where the peer is decides which segment can be the one it waits for: the
\* numbers of the bytes and of the FIN all differ.
Waits(n, f, i, w) == /\ i \in SeqNo /\ w \in 0..MaxWrites /\ n \in 0..w /\ f \in {0, 1} /\ (f = 1 => n = w)

LEMMA Awaited ==
  ASSUME NEW n, NEW f, NEW i, NEW w, Waits(n, f, i, w)
  PROVE  /\ \A k \in 1..w : Add(i, k) = Add(i, n + 1 + f) => k = n + 1 /\ f = 0
         /\ Add(i, w + 1) = Add(i, n + 1 + f) => n = w /\ f = 0
         /\ f = 0 => Add(Add(i, n + 1 + f), 1) = Add(i, n + 2)
<1>1. /\ i \in SeqNo /\ w \in Nat /\ w <= MaxWrites /\ n \in Nat /\ n <= w
      /\ f \in {0, 1} /\ (f = 1 => n = w) /\ MaxWrites \in Nat
  BY Numbers DEF Waits
<1>2. n + 1 + f \in 0..(MaxWrites + 2) /\ w + 1 \in 0..(MaxWrites + 2)
  BY <1>1
<1>3. n + 1 + f \in SeqNo /\ w + 1 \in SeqNo
  BY Zenon, <1>2, Numbers
<1>4. ASSUME NEW k \in 1..w, Add(i, k) = Add(i, n + 1 + f)
      PROVE  k = n + 1 /\ f = 0
  <2>1. k \in 0..(MaxWrites + 2)
    BY <1>1
  <2>2. k \in SeqNo
    BY Zenon, <2>1, Numbers
  <2>3. k = n + 1 + f
    BY Zenon, <1>1, <1>3, <1>4, <2>2, AddDiffers
  <2> QED
    BY <1>1, <2>3
<1>5. ASSUME Add(i, w + 1) = Add(i, n + 1 + f)
      PROVE  n = w /\ f = 0
  <2>1. w + 1 = n + 1 + f
    BY Zenon, <1>1, <1>3, <1>5, AddDiffers
  <2> QED
    BY <1>1, <2>1
<1>6. ASSUME f = 0
      PROVE  Add(Add(i, n + 1 + f), 1) = Add(i, n + 2)
  <2>1. n + 1 + f = n + 1 /\ (n + 1) + 1 = n + 2 /\ n + 2 \in 0..(MaxWrites + 2)
    BY <1>1, <1>6
  <2>2. n + 1 \in SeqNo /\ (n + 1) + 1 \in SeqNo
    BY Zenon, <1>3, <2>1, Numbers
  <2> QED
    BY Zenon, <1>1, <2>1, <2>2, AddTwice
<1> QED
  BY Zenon, <1>4, <1>5, <1>6

Got(seg) == seg.seq = pRcv /\ (seg.data # <<>> \/ seg.fin)

\* What a segment does to the peer's side of the stream.
Takes(seg) ==
  /\ seg \in c2s
  /\ pRcv' = IF Got(seg) THEN Add(pRcv, Len(seg.data) + (IF seg.fin THEN 1 ELSE 0)) ELSE pRcv
  /\ pGot' = IF Got(seg) THEN pGot \o seg.data ELSE pGot
  /\ pFinGot' = (pFinGot \/ (Got(seg) /\ seg.fin))
  /\ pState' = "Up" /\ pState # "Listen"
  /\ UNCHANGED <<iss, state, writes, sent>>

LEMMA TakeIsNext ==
  ASSUME Pipe, NEW seg, Takes(seg)
  PROVE  PeerSide' /\ (UNCHANGED <<sent, pGot>> \/ ClientToPeer!Take)
<1>1. /\ seg \in c2s /\ pState' = "Up" /\ pState # "Listen"
      /\ UNCHANGED <<iss, state, writes, sent>>
  BY Zenon DEF Takes
<1>2. Ended' = Ended
  BY Zenon, <1>1 DEF Ended
<1>3. Carries(seg, iss, writes, Ended)
  BY Zenon, <1>1 DEF Pipe, Wire, OnWire
<1>4. PICK n : n = Len(pGot)
  BY Zenon
<1>5. PICK f : f = IF pFinGot THEN 1 ELSE 0
  OBVIOUS
<1>6. Waits(n, f, iss, writes)
  BY <1>4, <1>5 DEF Waits, Pipe, PeerSide, ClientSide
<1>7. /\ pRcv = Add(iss, n + 1 + f) /\ pGot = Stream(n) /\ sent = Stream(writes) /\ pFinGot \in BOOLEAN
      /\ n \in Nat /\ writes \in Nat /\ n <= writes /\ (pFinGot => n = writes /\ Ended)
  BY <1>1, <1>4, <1>5 DEF Pipe, PeerSide, ClientSide
<1>8. CASE ~ Got(seg)
  <2>1. pRcv' = pRcv /\ pGot' = pGot
    BY Zenon, <1>8 DEF Takes
  <2>2. pFinGot' = pFinGot
    BY Zenon, <1>7, <1>8 DEF Takes
  <2> QED
    BY Zenon, <1>1, <1>2, <2>1, <2>2 DEF Pipe, PeerSide
<1>9. CASE Got(seg) /\ ~ seg.fin
  <2>1. seg.data # <<>> /\ seg.seq = pRcv
    BY Zenon, <1>9 DEF Got
  <2>2. PICK k \in 1..writes : seg.data = <<k>> /\ seg.seq = Add(iss, k)
    BY Zenon, <1>3, <1>9, <2>1 DEF Carries
  <2>3. k = n + 1 /\ f = 0
    BY <1>6, <1>7, <2>1, <2>2, Awaited
  <2>4. ~ pFinGot
    BY <1>5, <2>3
  <2>5. Len(seg.data) + (IF seg.fin THEN 1 ELSE 0) = 1
    BY <1>9, <2>2
  <2>6. pRcv' = Add(pRcv, 1) /\ pGot' = pGot \o <<n + 1>>
    BY Zenon, <1>9, <2>2, <2>3, <2>5 DEF Takes
  <2>7. pFinGot' = FALSE
    BY Zenon, <1>9, <2>4 DEF Takes
  <2>8. pRcv' = Add(iss, n + 2)
    BY <1>6, <1>7, <2>3, <2>6, Awaited
  <2>9. pGot' = Stream(n + 1) /\ Len(pGot') = n + 1
    <3>1. n + 1 \in Nat
      BY <1>7
    <3> QED
      BY Zenon, <1>7, <2>6, <3>1, StreamIsSeq
  <2>10. PeerSide'
    <3>1. pRcv' = Add(iss', Len(pGot') + 1 + (IF pFinGot' THEN 1 ELSE 0))
      <4>1. Len(pGot') + 1 + (IF pFinGot' THEN 1 ELSE 0) = n + 2
        BY <1>7, <2>7, <2>9
      <4> QED
        BY Zenon, <1>1, <2>8, <4>1
    <3>2. n + 1 \in 0..writes
      BY <1>7, <2>2, <2>3
    <3> QED
      BY Zenon, <1>1, <2>7, <2>9, <3>1, <3>2 DEF PeerSide
  <2>11. ClientToPeer!Take
    <3>1. Stream(n + 1) = SubSeq(Stream(writes), 1, n + 1) /\ n + 1 \in (Len(pGot) + 1)..Len(sent)
      <4>1. n + 1 \in Nat /\ n + 1 <= writes
        BY <1>7, <2>2, <2>3
      <4>2. Len(sent) = writes
        BY Zenon, <1>7, StreamIsSeq
      <4>3. n + 1 \in (Len(pGot) + 1)..Len(sent)
        BY <1>4, <1>7, <4>1, <4>2
      <4> QED
        BY Zenon, <1>7, <4>1, <4>3, StreamPrefix
    <3> QED
      BY Zenon, <1>1, <1>7, <2>9, <3>1 DEF ClientToPeer!Take
  <2> QED
    BY <2>10, <2>11
<1>10. CASE Got(seg) /\ seg.fin
  <2>1. seg.data = <<>> /\ seg.seq = Add(iss, writes + 1) /\ Ended /\ seg.seq = pRcv
    BY Zenon, <1>3, <1>10 DEF Carries, Got
  <2>3. n = writes /\ f = 0
    BY <1>6, <1>7, <2>1, Awaited
  <2>5. Len(seg.data) + (IF seg.fin THEN 1 ELSE 0) = 1
    BY <1>10, <2>1
  <2>6. pRcv' = Add(pRcv, 1) /\ pGot' = pGot \o <<>>
    BY Zenon, <1>10, <2>1, <2>5 DEF Takes
  <2>7. pFinGot' = TRUE
    BY Zenon, <1>10 DEF Takes
  <2>8. pRcv' = Add(iss, n + 2)
    BY <1>6, <1>7, <2>3, <2>6, Awaited
  <2>9. pGot' = pGot
    BY <1>7, <2>6, StreamIsSeq
  <2>10. pRcv' = Add(iss', Len(pGot') + 1 + (IF pFinGot' THEN 1 ELSE 0))
    <3>1. Len(pGot') + 1 + (IF pFinGot' THEN 1 ELSE 0) = n + 2
      BY <1>4, <1>7, <2>7, <2>9
    <3> QED
      BY Zenon, <1>1, <2>8, <3>1
  <2>11. pGot' = Stream(Len(pGot')) /\ Len(pGot') \in 0..writes' /\ pFinGot' \in BOOLEAN /\ Len(pGot') = writes'
    <3>1. Len(pGot') = n
      BY <1>4, <2>9
    <3>2. n \in 0..writes /\ pFinGot' \in BOOLEAN
      BY <1>7, <2>7
    <3> QED
      BY Zenon, <1>1, <1>7, <2>3, <2>9, <3>1, <3>2
  <2>12. Ended'
    BY Zenon, <1>2, <2>1
  <2>13. PeerSide'
    BY Zenon, <1>1, <2>10, <2>11, <2>12 DEF PeerSide
  <2> QED
    BY Zenon, <1>1, <2>9, <2>13
<1> QED
  BY Zenon, <1>8, <1>9, <1>10

LEMMA ReceivePipe ==
  ASSUME Pipe, PeerReceives
  PROVE  Pipe' /\ (UNCHANGED <<sent, pGot>> \/ ClientToPeer!Take)
<1>1. UNCHANGED <<iss, state, active, sndNxt, txq, c2s, sent, writes>> /\ pState # "Listen" /\ pState' = "Up"
  BY Zenon DEF PeerReceives, vars
<1>2. PICK seg : Takes(seg) /\ (s2c' = s2c \/ \E s : s2c' = s2c \cup {s} /\ ~ s.syn)
  <2>1. PICK seg \in c2s :
          /\ pRcv' = IF Got(seg) THEN Add(pRcv, Len(seg.data) + (IF seg.fin THEN 1 ELSE 0)) ELSE pRcv
          /\ pGot' = IF Got(seg) THEN pGot \o seg.data ELSE pGot
          /\ pFinGot' = (pFinGot \/ (Got(seg) /\ seg.fin))
          /\ s2c' = s2c \/ \E q, a : s2c' = s2c \cup {PSeg(q, {"ack"}, <<>>, a)}
    BY Zenon DEF PeerReceives, Got, PeerEmits
  <2>2. Takes(seg)
    BY Zenon, <1>1, <2>1 DEF Takes
  <2>3. "syn" \notin {"ack"}
    OBVIOUS
  <2> QED
    BY <2>1, <2>2, <2>3, PSegFields
<1>3. PeerSide' /\ (UNCHANGED <<sent, pGot>> \/ ClientToPeer!Take)
  BY Zenon, <1>2, TakeIsNext
<1>4. Ended' = Ended
  BY Zenon, <1>1 DEF Ended
<1>5. ClientSide'
  BY Zenon, <1>1, <1>4 DEF Pipe, ClientSide
<1>6. Wire'
  <2>1. c2s # {}
    BY Zenon, <1>1 DEF Pipe, Wire, Fresh
  <2>2. \A s \in s2c' : s.syn => s.ack = Add(iss, 1)
    BY Zenon, <1>2 DEF Pipe, Wire
  <2> QED
    BY Zenon, <1>1, <1>4, <2>1, <2>2 DEF Pipe, Wire
<1> QED
  BY <1>3, <1>5, <1>6 DEF Pipe

----------------------------------------------------------------------------
\* Every step of the client, the network and the peer is a write, a take or a
\* stutter of the pipe.
LEMMA StepOfPipe ==
  ASSUME Pipe, [NetNext]_netvars
  PROVE  Pipe' /\ [ClientToPeer!Write \/ ClientToPeer!Take]_<<sent, pGot>>
<1> USE DEF NetNext
<1>1. CASE Connect
  BY <1>1, ConnectPipe
<1>2. CASE Write
  BY <1>2, WritePipe
<1>3. CASE Close
  BY <1>3, ClosePipe
<1>4. CASE Release
  BY Zenon, <1>4, ReleaseKeeps, KeepsPipe DEF Keeps
<1>5. CASE Deliver
  <2>1. PICK seg \in s2c : handle(seg, TRUE)
    BY Zenon, <1>5 DEF Deliver
  <2>2. ClientEmits /\ UNCHANGED <<s2c, peer, sent, released, writes, releases>>
    BY Zenon, <1>5 DEF Deliver
  <2>3. CASE HandleSynAck(seg, TRUE)
    BY Zenon, <2>2, <2>3, SynAckPipe
  <2>4. CASE HandleRst(seg) \/ HandleStray(seg) \/ HandleData(seg, TRUE) \/ HandleFin(seg, TRUE)
    BY Zenon, <2>2, <2>4, HandleKeeps, KeepsPipe DEF Keeps
  <2> QED
    BY Zenon, <2>1, <2>3, <2>4 DEF handle
<1>6. CASE Retransmit
  BY Zenon, <1>6, RetransmitKeeps, KeepsPipe DEF Keeps
<1>7. CASE Timer
  BY Zenon, <1>7, TimerKeeps, KeepsPipe DEF Keeps
<1>8. CASE PeerAccepts
  BY <1>8, AcceptPipe
<1>9. CASE PeerReceives
  BY <1>9, ReceivePipe
<1>10. CASE PeerSends \/ PeerProbes \/ PeerResets
  BY Zenon, <1>10, PeerTalksPipe
<1>11. CASE UNCHANGED netvars
  <2>1. UNCHANGED <<iss, state, active, sndNxt, txq, c2s, s2c, sent, writes, pState, pRcv, pGot, pFinGot>>
    BY Zenon, <1>11 DEF netvars, vars, peer
  <2>2. Ended' = Ended
    BY Zenon, <2>1 DEF Ended
  <2> QED
    BY Zenon, <2>1, <2>2 DEF Pipe, ClientSide, Wire, PeerSide, Fresh
<1> QED
  BY Zenon, <1>1, <1>2, <1>3, <1>4, <1>5, <1>6, <1>7, <1>8, <1>9, <1>10, <1>11

\* Over a network that loses, duplicates and reorders, what the peer holds is at
\* every moment a prefix of what send accepted, and grows only by the next byte of
\* it: the queue of tcp.rs (send, tick, ack_advance, close) implements the byte
\* pipe, for every window, queue and retry limit and every sequence space.
THEOREM ClientIsAPipe == NetSpec => ClientToPeerPipe
<1>1. NetInit => Pipe /\ ClientToPeer!Init
  BY Zenon, PipeStart DEF NetInit, ClientToPeer!Init
<1>2. Pipe /\ [NetNext]_netvars => Pipe' /\ [ClientToPeer!Write \/ ClientToPeer!Take]_<<sent, pGot>>
  BY StepOfPipe
<1> QED
  BY <1>1, <1>2, PTL DEF NetSpec, ClientToPeerPipe, ClientToPeer!Spec

----------------------------------------------------------------------------
(* 3. What is in flight.                                                    *)


LEMMA SubIs ==
  ASSUME NEW a \in SeqNo, NEW b \in SeqNo
  PROVE  Sub(a, b) = IF a >= b THEN a - b ELSE a - b + SeqMod
<1>1. SeqMod \in Nat /\ SeqMod > 1 /\ a \in Nat /\ b \in Nat /\ a < SeqMod /\ b < SeqMod
  BY TcpConstants DEF SeqNo
<1>2. PICK x : x = a - b
  OBVIOUS
<1>3. x \in Int /\ - SeqMod < x /\ x < SeqMod
  BY <1>1, <1>2
<1>4. x % SeqMod = IF x >= 0 THEN x ELSE x + SeqMod
  BY <1>1, <1>3
<1> QED
  BY <1>1, <1>2, <1>4 DEF Sub

\* The distance between two positions.
LEMMA SubOfAdds ==
  ASSUME NEW a \in SeqNo, NEW m \in SeqNo, NEW n \in SeqNo
  PROVE  /\ Sub(Add(a, m), Add(a, n)) = IF m >= n THEN m - n ELSE m - n + SeqMod
         /\ Add(a, m) \in SeqNo
<1>1. SeqMod \in Nat /\ SeqMod > 1 /\ a \in Nat /\ m \in Nat /\ n \in Nat /\ a < SeqMod /\ m < SeqMod /\ n < SeqMod
  BY TcpConstants DEF SeqNo
<1>2. PICK x : x = Add(a, m)
  OBVIOUS
<1>3. PICK y : y = Add(a, n)
  OBVIOUS
<1>4. x = IF a + m < SeqMod THEN a + m ELSE a + m - SeqMod
  BY Zenon, <1>2, AddIs
<1>5. y = IF a + n < SeqMod THEN a + n ELSE a + n - SeqMod
  BY Zenon, <1>3, AddIs
<1>6. x \in SeqNo /\ y \in SeqNo
  BY <1>1, <1>4, <1>5 DEF SeqNo
<1>7. Sub(x, y) = IF x >= y THEN x - y ELSE x - y + SeqMod
  BY Zenon, <1>6, SubIs
<1>8. Sub(x, y) = IF m >= n THEN m - n ELSE m - n + SeqMod
  BY <1>1, <1>4, <1>5, <1>7
<1> QED
  BY Zenon, <1>2, <1>3, <1>6, <1>8

LEMMA HalfIs == Half \in Nat /\ MaxWrites + 2 <= Half /\ SeqMod - (MaxWrites + 1) > Half - 1
<1>1. SeqMod \in Nat /\ MaxWrites \in Nat /\ 2 * (MaxWrites + 2) <= SeqMod
  BY Zenon, TcpConstants, TcpNetConstants, TcpNetSpace
<1> QED
  BY <1>1 DEF Half

----------------------------------------------------------------------------
(* The sending side.                                                        *)

\* The slot of position k of the stream: a byte, or the FIN behind the last byte.
Held(k, i, w) ==
  IF k <= w THEN [seq |-> Add(i, k), data |-> <<k>>, fin |-> FALSE]
            ELSE [seq |-> Add(i, w + 1), data |-> <<>>, fin |-> TRUE]

\* The queue q holds the positions from u to t - 1.
Queue(q, u, t, i, w) ==
  q \in Seq(Entry) /\ Len(q) = t - u /\ \A j \in 1..Len(q) : q[j] = Held(u + j - 1, i, w)

LEMMA HeldIs ==
  ASSUME NEW w \in 0..MaxWrites, NEW i \in SeqNo, NEW k \in 1..(w + 1)
  PROVE  /\ Held(k, i, w) \in Entry /\ Held(k, i, w).seq = Add(i, k) /\ Span(Held(k, i, w)) = 1
         /\ Held(k, i, w).fin <=> k = w + 1
<1>1. w \in Nat /\ k \in Nat /\ k \in SeqNo
  BY Numbers
<1>2. Add(i, k) \in SeqNo
  BY Zenon, <1>1, SubOfAdds
<1>3. CASE k <= w
  <2>1. PICK h : h = [seq |-> Add(i, k), data |-> <<k>>, fin |-> FALSE]
    BY Zenon
  <2>2. h = Held(k, i, w)
    BY Zenon, <1>3, <2>1 DEF Held
  <2>3. h \in Entry /\ h.seq = Add(i, k) /\ ~ h.fin /\ Len(h.data) = 1
    BY <1>1, <1>2, <2>1 DEF Entry
  <2>4. Span(h) = 1
    BY <2>3 DEF Span
  <2> QED
    BY <1>1, <1>3, <2>2, <2>3, <2>4
<1>4. CASE ~ (k <= w)
  <2>1. PICK h : h = [seq |-> Add(i, w + 1), data |-> <<>>, fin |-> TRUE]
    BY Zenon
  <2>2. h = Held(k, i, w) /\ k = w + 1
    BY <1>1, <1>4, <2>1 DEF Held
  <2>3. h \in Entry /\ h.seq = Add(i, k) /\ h.fin /\ Len(h.data) = 0
    BY <1>2, <2>1, <2>2 DEF Entry
  <2>4. Span(h) = 1
    BY <2>3 DEF Span
  <2> QED
    BY Zenon, <2>2, <2>3, <2>4
<1> QED
  BY Zenon, <1>3, <1>4

Has == Len(pGot) + 1 + (IF pFinGot THEN 1 ELSE 0)

Sending(u, t) ==
  /\ t \in {writes + 1, writes + 2} /\ u \in 1..t
  /\ Queue(txq, u, t, iss, writes)
  /\ sndUna = Add(iss, u) /\ sndNxt = Add(iss, t)
  /\ u <= Has
  /\ state = "Established" => t = writes + 1
  /\ state = "FinWait" => t = writes + 2
  /\ state = "FinSent" /\ ~ peerClosed => u = writes + 2

LEMMA HasIs == Pipe => Has \in 1..(writes + 2) /\ writes \in 0..MaxWrites /\ iss \in SeqNo
BY DEF Pipe, PeerSide, ClientSide, Has

\* An acknowledgement of the peer retires only what the peer has.
LEMMA AckRetires ==
  ASSUME Pipe, NEW u, NEW t, Sending(u, t), NEW seg, NEW m \in 1..Has, seg.ack = Add(iss, m),
         TakeAck(seg)
  PROVE  \E v \in u..t : Queue(txq', v, t, iss, writes) /\ sndUna' = Add(iss, v) /\ v <= Has
<1>1. /\ writes \in Nat /\ writes <= MaxWrites /\ MaxWrites \in Nat /\ iss \in SeqNo /\ Has \in Nat /\ Has <= writes + 2
      /\ t \in Nat /\ u \in Nat /\ u >= 1 /\ u <= t /\ t <= writes + 2 /\ m \in Nat /\ m >= 1 /\ m <= Has /\ u <= Has
  BY HasIs, Numbers DEF Sending
<1>2. u \in SeqNo /\ m \in SeqNo
  <2>1. u \in 0..(MaxWrites + 2) /\ m \in 0..(MaxWrites + 2)
    BY <1>1
  <2> QED
    BY Zenon, <2>1, Numbers
<1>3. /\ txq \in Seq(Entry) /\ Len(txq) = t - u /\ Len(txq) \in Nat
      /\ \A j \in 1..Len(txq) : txq[j] = Held(u + j - 1, iss, writes)
      /\ sndUna = Add(iss, u) /\ sndNxt = Add(iss, t)
  BY DEF Sending, Queue
<1>6. Len(txq) = t - u /\ Len(txq) \in Nat
  BY Zenon, <1>3
<1>4. CASE UNCHANGED <<txq, sndUna>>
  <2>1. u \in u..t
    BY <1>1
  <2> QED
    BY Zenon, <1>1, <1>4, <2>1 DEF Sending
<1>5. CASE Sub(seg.ack, sndUna) < Half /\ ack_advance(seg.ack)
  <2>1. PICK k \in 0..Len(txq) :
          /\ Retires(seg.ack, k)
          /\ txq' = SubSeq(txq, k + 1, Len(txq))
          /\ sndUna' = IF k = Len(txq) THEN sndNxt ELSE txq[k + 1].seq
    BY Zenon, <1>5 DEF ack_advance
  <2>2. m >= u
    <3>1. Sub(Add(iss, m), Add(iss, u)) = IF m >= u THEN m - u ELSE m - u + SeqMod
      BY Zenon, <1>1, <1>2, SubOfAdds
    <3>2. Sub(Add(iss, m), Add(iss, u)) < Half
      BY Zenon, <1>3, <1>5
    <3> QED
      BY <1>1, <3>1, <3>2, HalfIs, Numbers
  <2>3. k <= m - u
    <3> SUFFICES ASSUME k > m - u PROVE FALSE
      BY <1>1, <1>6
    <3>1. PICK j : j = m - u + 1
      BY Zenon
    <3>2. j \in 1..k /\ j \in 1..Len(txq) /\ u + j - 1 = m /\ m \in 1..(writes + 1)
      BY <1>1, <1>6, <2>2, <3>1
    <3>3. txq[j] = Held(m, iss, writes)
      BY Zenon, <1>3, <3>2
    <3>4. txq[j].seq = Add(iss, m) /\ Span(txq[j]) = 1
      BY Zenon, <3>2, <3>3, HeldIs, HasIs
    <3>5. Sub(seg.ack, txq[j].seq) >= Span(txq[j])
      BY Zenon, <2>1, <3>2 DEF Retires
    <3>6. Sub(Add(iss, m), Add(iss, m)) = m - m
      BY <1>1, <1>2, SubOfAdds
    <3>7. Sub(Add(iss, m), Add(iss, m)) >= 1
      BY Zenon, <3>4, <3>5
    <3> QED
      BY <1>1, <3>6, <3>7
  <2>4. PICK v : v = u + k
    BY Zenon
  <2>5. v \in u..t /\ v <= Has /\ v \in Nat
    BY <1>1, <1>6, <2>3, <2>4
  <2>6. /\ txq' \in Seq(Entry) /\ Len(txq') = Len(txq) - k
        /\ \A j \in 1..(Len(txq) - k) : txq'[j] = txq[j + k]
    BY Zenon, <1>3, <2>1, DropFirst
  <2>7. Queue(txq', v, t, iss, writes)
    <3>1. Len(txq') = t - v
      <4>1. Len(txq') = Len(txq) - k
        BY Zenon, <2>6
      <4> QED
        BY <1>1, <1>6, <2>4, <4>1
    <3>2. ASSUME NEW j \in 1..Len(txq') PROVE txq'[j] = Held(v + j - 1, iss, writes)
      <4>1. j \in 1..(Len(txq) - k) /\ j + k \in 1..Len(txq) /\ u + (j + k) - 1 = v + j - 1
        BY <1>1, <1>6, <2>4, <3>1
      <4> QED
        BY Zenon, <1>3, <2>6, <4>1
    <3> QED
      BY Zenon, <2>6, <3>1, <3>2 DEF Queue
  <2>8. sndUna' = Add(iss, v)
    <3>1. CASE k = Len(txq)
      <4>1. v = t
        BY <1>1, <1>6, <2>4, <3>1
      <4> QED
        BY Zenon, <1>3, <2>1, <3>1, <4>1
    <3>2. CASE k # Len(txq)
      <4>1. k + 1 \in 1..Len(txq) /\ u + (k + 1) - 1 = v /\ v \in 1..(writes + 1)
        BY <1>1, <1>6, <2>4, <3>2
      <4>2. txq[k + 1] = Held(v, iss, writes)
        BY Zenon, <1>3, <4>1
      <4>3. txq[k + 1].seq = Add(iss, v)
        <5>1. writes \in 0..MaxWrites /\ iss \in SeqNo
          BY Zenon, HasIs
        <5>2. Held(v, iss, writes).seq = Add(iss, v)
          BY Zenon, <4>1, <5>1, HeldIs
        <5> QED
          BY Zenon, <4>2, <5>2
      <4> QED
        BY Zenon, <2>1, <3>2, <4>3
    <3> QED
      BY Zenon, <3>1, <3>2
  <2> QED
    BY Zenon, <2>5, <2>7, <2>8
<1> QED
  BY Zenon, <1>4, <1>5 DEF TakeAck

Live == active /\ state # "SynSent"

\* Nothing but SYNs and their answer before the connection is up.
Opening ==
  /\ pState # "Up" /\ ~ peerClosed /\ \A seg \in c2s : seg.syn
  /\ \A seg \in s2c : seg.syn /\ seg.ackf /\ ~ seg.rst

Acks(seg, i, h) == \E m \in 1..h : seg.ack = Add(i, m)

Sender ==
  /\ Live => \E u, t : Sending(u, t)
  /\ state \in Open => active
  /\ state = "SynSent" => Opening
  /\ \A seg \in s2c : Acks(seg, iss, Has)

LEMMA SenderStart == NetInit => Sender
BY Zenon DEF NetInit, Init, Sender, Live, Open

\* A step of the client that leaves its queue alone.
Rests ==
  /\ UNCHANGED <<iss, writes, sndUna, sndNxt, txq, peerClosed, s2c, pState, pGot, pFinGot>>
  /\ c2s' = c2s \cup out'
  /\ \/ UNCHANGED <<state, active>>
     \/ state' = "Failed" /\ (active' => active /\ state # "SynSent")
  /\ state = "SynSent" => \A seg \in out' : seg.syn

LEMMA RestsSender == ASSUME Pipe, Sender, Rests PROVE Sender'
<1>1. Has' = Has
  BY Zenon DEF Rests, Has
<1>2. ASSUME Live' PROVE \E u, t : Sending(u, t)'
  <2>1. Live
    BY Zenon, <1>2 DEF Live, Rests
  <2>2. PICK u, t : Sending(u, t)
    BY Zenon, <2>1 DEF Sender
  <2>3. Sending(u, t)'
    <3>1. state' \in {state, "Failed"}
      BY Zenon DEF Rests
    <3> QED
      BY Zenon, <1>1, <2>2, <3>1 DEF Rests, Sending
  <2> QED
    BY Zenon, <2>3
<1>3. state' \in Open => active'
  BY DEF Rests, Sender, Open
<1>4. state' = "SynSent" => Opening'
  BY Zenon DEF Rests, Sender, Opening
<1>5. \A seg \in s2c' : Acks(seg, iss', Has')
  BY Zenon, <1>1 DEF Rests, Sender
<1> QED
  BY Zenon, <1>2, <1>3, <1>4, <1>5 DEF Sender

LEMMA ReleaseRests == ASSUME Pipe, Release PROVE Rests
<1>1. UNCHANGED <<iss, writes, sndUna, sndNxt, txq, peerClosed, s2c, pState, pGot, pFinGot, state, active>> /\ c2s' = c2s \cup out'
  BY Zenon DEF Release, rx_release, ClientEmits, peer
<1>2. state = "SynSent" => out' = {}
  BY Zenon DEF Release, rx_release, Silent, Open
<1> QED
  BY Zenon, <1>1, <1>2 DEF Rests

LEMMA TimerRests == ASSUME Pipe, Timer PROVE Rests
BY Zenon DEF Timer, Clock, peer, Rests

LEMMA RetransmitRests == ASSUME Pipe, Retransmit PROVE Rests
<1>1. /\ UNCHANGED <<iss, writes, sndUna, sndNxt, txq, peerClosed, s2c, pState, pGot, pFinGot>>
      /\ c2s' = c2s \cup out' /\ out' = Outstanding
      /\ UNCHANGED <<state, active>> \/ (state' = "Failed" /\ active' = FALSE)
  BY Zenon DEF Retransmit, tick, GiveUp, emit, ClientEmits, peer
<1>2. ASSUME state = "SynSent" PROVE \A seg \in out' : seg.syn
  <2>1. out' = {Seg(iss, rcvNxt, {"syn"}, <<>>, Len(rx))}
    BY Zenon, <1>1, <1>2 DEF Outstanding
  <2> QED
    BY <2>1, SegFields
<1> QED
  BY Zenon, <1>1, <1>2 DEF Rests

LEMMA ConnectSender == ASSUME Pipe, Connect PROVE Sender'
<1>1. PICK i \in ISSs : connect(i, TRUE)
  BY Zenon DEF Connect
<1>2. s2c' = s2c /\ pState' = pState /\ c2s' = out' /\ s2c = {} /\ pState = "Listen"
  BY Zenon DEF Connect, ClientEmits, peer, Pipe, Wire, Fresh
<1>3. state' = "SynSent" /\ active' /\ ~ peerClosed' /\ out' = {Seg(i, 0, {"syn"}, <<>>, 0)}
  BY Zenon, <1>1 DEF connect, ClearBuffers, emit
<1>4. \A seg \in c2s' : seg.syn
  BY <1>2, <1>3, SegFields
<1> QED
  BY Zenon, <1>2, <1>3, <1>4 DEF Sender, Live, Opening

LEMMA SynAckSender ==
  ASSUME Pipe, Sender, NEW seg \in s2c, ClientEmits,
         UNCHANGED <<s2c, peer, sent, released, writes, releases>>, HandleSynAck(seg, TRUE)
  PROVE  Sender'
<1>1. /\ UNCHANGED <<s2c, writes, pState, pGot, pFinGot, iss, txq, active>> /\ sndNxt' = seg.ack /\ sndUna' = seg.ack
      /\ state = "SynSent" /\ state' = "Established" /\ seg.syn /\ active
  BY Zenon DEF peer, HandleSynAck
<1>2. seg.ack = Add(iss, 1) /\ writes = 0 /\ txq = <<>> /\ Len(txq) = 0 /\ txq \in Seq(Entry)
  BY Zenon, <1>1 DEF Pipe, Wire, ClientSide
<1>3. Has' = Has /\ Has \in 1..(writes + 2)
  BY Zenon, <1>1, HasIs DEF Has
<1>4. Sending(1, 1)'
  <2>1. Queue(txq', 1, 1, iss', writes')
    BY <1>1, <1>2 DEF Queue
  <2> QED
    BY <1>1, <1>2, <1>3, <2>1 DEF Sending
<1>5. \A s \in s2c' : Acks(s, iss', Has')
  BY Zenon, <1>1, <1>3 DEF Sender
<1> QED
  BY Zenon, <1>1, <1>4, <1>5 DEF Sender

\* A segment of the peer when the connection is up.
LEMMA HandleSender ==
  ASSUME Pipe, Sender, NEW seg \in s2c, ClientEmits,
         UNCHANGED <<s2c, peer, sent, released, writes, releases>>,
         HandleRst(seg) \/ HandleStray(seg) \/ HandleData(seg, TRUE) \/ HandleFin(seg, TRUE)
  PROVE  Sender'
<1>1. UNCHANGED <<s2c, writes, pState, pGot, pFinGot, iss, sndNxt>> /\ c2s' = c2s \cup out' /\ active
  BY Zenon DEF peer, ClientEmits, HandleRst, HandleStray, HandleData, HandleFin
<1>2. Has' = Has
  BY Zenon, <1>1 DEF Has
<1>3. state # "SynSent"
  BY Zenon DEF Sender, Opening, HandleRst, HandleStray, HandleData, HandleFin, Open
<1>4. PICK u, t : Sending(u, t)
  BY Zenon, <1>1, <1>3 DEF Sender, Live
<1>5. PICK m \in 1..Has : seg.ack = Add(iss, m)
  BY Zenon DEF Sender, Acks
<1>6. \A s \in s2c' : Acks(s, iss', Has')
  BY Zenon, <1>1, <1>2 DEF Sender
<1>7. state' # "SynSent"
  BY Zenon, <1>3 DEF HandleRst, HandleStray, HandleData, HandleFin, StateAfterAck
<1>8. state' \in Open => active'
  BY Zenon, <1>1 DEF HandleRst, HandleStray, HandleData, HandleFin, Open
<1>9. ASSUME Live' PROVE \E v : Sending(v, t)'
  <2>1. CASE HandleRst(seg)
    <3>1. state' = "Failed" /\ txq' = txq /\ sndUna' = sndUna
      BY Zenon, <2>1 DEF HandleRst
    <3>2. Sending(u, t)'
      BY Zenon, <1>1, <1>2, <1>4, <3>1 DEF Sending
    <3> QED
      BY Zenon, <3>2
  <2>2. CASE HandleStray(seg) \/ HandleData(seg, TRUE) \/ HandleFin(seg, TRUE)
    <3>1. TakeAck(seg)
      BY Zenon, <2>2 DEF HandleStray, HandleData, HandleFin
    <3>2. PICK v \in u..t : Queue(txq', v, t, iss, writes) /\ sndUna' = Add(iss, v) /\ v <= Has
      BY Zenon, <1>4, <1>5, <3>1, AckRetires
    <3>3. /\ writes \in Nat /\ t \in {writes + 1, writes + 2} /\ u \in 1..t /\ sndNxt = Add(iss, t)
          /\ state = "Established" => t = writes + 1
          /\ state = "FinWait" => t = writes + 2
          /\ state = "FinSent" /\ ~ peerClosed => u = writes + 2
      BY <1>4, HasIs DEF Sending
    <3>4. v \in 1..t
      BY <3>2, <3>3
    <3>5. /\ state' = "Established" => t = writes + 1
          /\ state' = "FinWait" => t = writes + 2
      BY Zenon, <2>2, <3>3 DEF HandleStray, HandleData, HandleFin, StateAfterAck, Open
    <3>6. ASSUME state' = "FinSent", ~ peerClosed' PROVE v = writes + 2
      <4>1. CASE state = "FinSent" /\ ~ peerClosed
        BY <3>2, <3>3, <4>1
      <4>2. CASE state = "FinWait" /\ txq' = <<>>
        <5>1. Len(txq') = 0
          BY Zenon, <4>2
        <5> QED
          BY <3>2, <3>3, <4>2, <5>1 DEF Queue
      <4>3. ~ HandleStray(seg) /\ ~ HandleFin(seg, TRUE)
        BY Zenon, <3>6 DEF HandleStray, HandleFin, Open
      <4>4. HandleData(seg, TRUE)
        BY Zenon, <2>2, <4>3
      <4>5. state' = StateAfterAck /\ peerClosed' = peerClosed
        BY Zenon, <4>4 DEF HandleData
      <4>6. ~ peerClosed
        BY Zenon, <3>6, <4>5
      <4>7. state = "FinSent" \/ (state = "FinWait" /\ txq' = <<>>)
        BY Zenon, <3>6, <4>5 DEF StateAfterAck
      <4> QED
        BY Zenon, <4>1, <4>2, <4>6, <4>7
    <3>7. Sending(v, t)'
      BY Zenon, <1>1, <1>2, <3>2, <3>3, <3>4, <3>5, <3>6 DEF Sending
    <3> QED
      BY Zenon, <3>7
  <2> QED
    BY Zenon, <2>1, <2>2
<1> QED
  BY Zenon, <1>6, <1>7, <1>8, <1>9 DEF Sender

LEMMA QueueGrows ==
  ASSUME NEW q, NEW u \in Nat, NEW t \in Nat, u <= t, NEW i, NEW w, NEW v, Queue(q, u, t, i, w),
         NEW e \in Entry, e = Held(t, i, v), \A k \in u..(t - 1) : Held(k, i, w) = Held(k, i, v)
  PROVE  Queue(Append(q, e), u, t + 1, i, v)
<1>1. q \in Seq(Entry) /\ Len(q) = t - u /\ \A j \in 1..Len(q) : q[j] = Held(u + j - 1, i, w)
  BY Zenon DEF Queue
<1>6. Len(q) = t - u
  BY Zenon, <1>1
<1>2. PICK r : r = Append(q, e)
  BY Zenon
<1>3. r \in Seq(Entry) /\ Len(r) = Len(q) + 1 /\ r[Len(q) + 1] = e /\ \A j \in 1..Len(q) : r[j] = q[j]
  <2>1. q \in Seq(Entry)
    BY Zenon, <1>1
  <2> QED
    <3>1. /\ Append(q, e) \in Seq(Entry) /\ Len(Append(q, e)) = Len(q) + 1 /\ Append(q, e)[Len(q) + 1] = e
          /\ \A j \in 1..Len(q) : Append(q, e)[j] = q[j]
      BY <2>1, Appended
    <3> QED
      BY Zenon, <1>2, <3>1
<1>7. Len(r) = Len(q) + 1
  BY Zenon, <1>3
<1>4. ASSUME NEW j \in 1..Len(r) PROVE r[j] = Held(u + j - 1, i, v)
  <2>1. CASE j \in 1..Len(q)
    <3>1. u + j - 1 \in u..(t - 1)
      BY <1>6, <2>1
    <3> QED
      BY Zenon, <1>1, <1>3, <2>1, <3>1
  <2>2. CASE j = Len(q) + 1
    <3>1. u + j - 1 = t
      BY <1>6, <2>2
    <3> QED
      BY Zenon, <1>3, <2>2, <3>1
  <2>3. j \in 1..Len(q) \/ j = Len(q) + 1
    BY <1>6, <1>7
  <2> QED
    BY Zenon, <2>1, <2>2, <2>3
<1>5. Len(r) = t + 1 - u
  BY <1>6, <1>7
<1>8. Queue(r, u, t + 1, i, v)
  BY <1>3, <1>4, <1>5 DEF Queue
<1> QED
  BY <1>2, <1>8

LEMMA WriteSender == ASSUME Pipe, Sender, Write PROVE Sender'
<1>1. /\ UNCHANGED <<s2c, pState, pGot, pFinGot, iss, state, active, sndUna>>
      /\ state = "Established" /\ writes' = writes + 1 /\ Len(txq) < TX_SLOTS
  BY Zenon DEF Write, send, peer
<1>2. Pipe'
  BY WritePipe
<1>3. Has' = Has
  BY Zenon, <1>1 DEF Has
<1>4. writes \in Nat /\ writes' \in 0..MaxWrites /\ iss \in SeqNo
  BY <1>1, <1>2, HasIs DEF Pipe, ClientSide
<1>5. Live
  BY Zenon, <1>1 DEF Sender, Live, Open
<1>6. PICK u, t : Sending(u, t)
  BY Zenon, <1>5 DEF Sender
<1>7. /\ t = writes + 1 /\ u \in 1..t /\ Queue(txq, u, t, iss, writes) /\ sndUna = Add(iss, u)
      /\ sndNxt = Add(iss, t) /\ u <= Has /\ t \in Nat /\ u \in Nat /\ u <= t
  BY <1>1, <1>4, <1>6 DEF Sending
<1>8. PICK e : e = NewSlot(<<writes + 1>>, FALSE)
  BY Zenon
<1>9. txq' = Append(txq, e)
  BY Zenon, <1>1, <1>8 DEF Write, send, queue_slot
<1>10. e = Held(t, iss, writes')
  <2>1. t <= writes' /\ writes + 1 = t
    BY <1>1, <1>4, <1>7
  <2> QED
    BY Zenon, <1>7, <1>8, <2>1 DEF NewSlot, Held
<1>11. e \in Entry
  <2>1. t \in 1..(writes' + 1)
    BY <1>1, <1>4, <1>7
  <2> QED
    BY Zenon, <1>4, <1>10, <2>1, HeldIs
<1>12. \A k \in u..(t - 1) : Held(k, iss, writes) = Held(k, iss, writes')
  <2> SUFFICES ASSUME NEW k \in u..(t - 1) PROVE Held(k, iss, writes) = Held(k, iss, writes')
    BY Zenon
  <2>1. k <= writes /\ k <= writes'
    BY <1>1, <1>4, <1>7
  <2> QED
    BY Zenon, <2>1 DEF Held
<1>13. Queue(txq', u, t + 1, iss, writes')
  BY Zenon, <1>7, <1>9, <1>10, <1>11, <1>12, QueueGrows
<1>14. Sending(u, t + 1)'
  <2>1. sndNxt' = Add(iss', writes' + 1) /\ t + 1 = writes' + 1
    BY Zenon, <1>1, <1>2, <1>7 DEF Pipe, ClientSide
  <2>2. u \in 1..(t + 1)
    BY <1>7
  <2> QED
    BY Zenon, <1>1, <1>3, <1>7, <1>13, <2>1, <2>2 DEF Sending
<1>15. \A seg \in s2c' : Acks(seg, iss', Has')
  BY Zenon, <1>1, <1>3 DEF Sender
<1> QED
  BY Zenon, <1>1, <1>5, <1>14, <1>15 DEF Sender, Live

LEMMA CloseSender == ASSUME Pipe, Sender, Close, Len(txq) < TX_SLOTS PROVE Sender'
<1>1. /\ UNCHANGED <<s2c, pState, pGot, pFinGot, iss, writes, active, sndUna>>
      /\ state = "Established" /\ state' = "FinWait" /\ sndNxt' = Add(sndNxt, 1)
  BY Zenon DEF Close, close, peer
<1>3. Has' = Has
  BY Zenon, <1>1 DEF Has
<1>4. writes \in Nat /\ writes \in 0..MaxWrites /\ iss \in SeqNo
  BY <1>1, HasIs DEF Pipe, ClientSide
<1>5. Live
  BY Zenon, <1>1 DEF Sender, Live, Open
<1>6. PICK u, t : Sending(u, t)
  BY Zenon, <1>5 DEF Sender
<1>7. /\ t = writes + 1 /\ u \in 1..t /\ Queue(txq, u, t, iss, writes) /\ sndUna = Add(iss, u)
      /\ sndNxt = Add(iss, t) /\ u <= Has /\ t \in Nat /\ u \in Nat /\ u <= t
  BY <1>1, <1>4, <1>6 DEF Sending
<1>8. PICK e : e = NewSlot(<<>>, TRUE)
  BY Zenon
<1>9. txq' = Append(txq, e)
  BY Zenon, <1>8 DEF Close, close, queue_slot
<1>10. e = Held(t, iss, writes)
  <2>1. ~ (t <= writes) /\ writes + 1 = t
    BY <1>4, <1>7
  <2> QED
    BY Zenon, <1>7, <1>8, <2>1 DEF NewSlot, Held
<1>11. e \in Entry
  <2>1. t \in 1..(writes + 1)
    BY <1>4, <1>7
  <2> QED
    BY Zenon, <1>4, <1>10, <2>1, HeldIs
<1>13. Queue(txq', u, t + 1, iss, writes)
  BY Zenon, <1>7, <1>9, <1>10, <1>11, QueueGrows
<1>14. Sending(u, t + 1)'
  <2>1. sndNxt' = Add(iss, t + 1)
    <3>1. t \in 0..(MaxWrites + 2) /\ t + 1 \in 0..(MaxWrites + 2)
      BY <1>4, <1>7, Numbers
    <3>2. t \in SeqNo /\ t + 1 \in SeqNo
      BY Zenon, <3>1, Numbers
    <3> QED
      BY Zenon, <1>1, <1>4, <1>7, <3>2, AddTwice
  <2>2. u \in 1..(t + 1) /\ t + 1 = writes + 2
    BY <1>4, <1>7
  <2> QED
    BY Zenon, <1>1, <1>3, <1>7, <1>13, <2>1, <2>2 DEF Sending
<1>15. \A seg \in s2c' : Acks(seg, iss', Has')
  BY Zenon, <1>1, <1>3 DEF Sender
<1> QED
  BY Zenon, <1>1, <1>5, <1>14, <1>15 DEF Sender, Live

LEMMA PAckFields ==
  ASSUME NEW q, NEW f, NEW d, NEW a
  PROVE  /\ PSeg(q, f, d, a).ackf <=> "ack" \in f
         /\ PSeg(q, f, d, a).rst <=> "rst" \in f
         /\ PSeg(q, f, d, a).fin <=> "fin" \in f
         /\ PSeg(q, f, d, a).seq = q /\ PSeg(q, f, d, a).data = d
<1>1. PSeg(q, f, d, a).seq = q /\ PSeg(q, f, d, a).data = d
  BY Zenon DEF PSeg
<1>2. /\ PSeg(q, f, d, a).ackf = ("ack" \in f) /\ PSeg(q, f, d, a).rst = ("rst" \in f)
      /\ PSeg(q, f, d, a).fin = ("fin" \in f)
  BY Zenon DEF PSeg
<1> QED
  BY Zenon, <1>1, <1>2

\* A step of the peer: it has at least what it had, and acknowledges just that.
PeerMoves ==
  /\ UNCHANGED <<iss, writes, state, active, sndUna, sndNxt, txq, peerClosed, c2s>>
  /\ Has' \in Nat /\ Has' >= Has
  /\ s2c' = s2c \/ \E seg : s2c' = s2c \cup {seg} /\ seg.ack = Add(iss, Has')
                            /\ (state = "SynSent" => seg.syn /\ seg.ackf /\ ~ seg.rst)
  /\ state = "SynSent" => pState' # "Up"

LEMMA PeerMovesSender == ASSUME Pipe, Sender, PeerMoves PROVE Sender'
<1>1. Has \in Nat /\ Has >= 1 /\ Has' \in Nat /\ Has' >= Has
  BY HasIs DEF PeerMoves
<1>2. \A seg \in s2c' : Acks(seg, iss', Has')
  <2>1. \A m \in 1..Has : m \in 1..Has'
    BY <1>1
  <2>2. Has' \in 1..Has'
    BY <1>1
  <2> QED
    BY Zenon, <2>1, <2>2 DEF PeerMoves, Sender, Acks
<1>3. ASSUME Live' PROVE \E u, t : Sending(u, t)'
  <2>1. Live
    BY Zenon, <1>3 DEF Live, PeerMoves
  <2>2. PICK u, t : Sending(u, t)
    BY Zenon, <2>1 DEF Sender
  <2>3. u <= Has'
    BY <1>1, <2>2, HasIs DEF Sending
  <2>4. Sending(u, t)'
    BY Zenon, <2>2, <2>3 DEF Sending, PeerMoves
  <2> QED
    BY <2>4
<1>4. state' = "SynSent" => Opening'
  BY Zenon DEF PeerMoves, Sender, Opening
<1> QED
  BY Zenon, <1>2, <1>3, <1>4 DEF Sender, PeerMoves

LEMMA PeerStepMoves ==
  ASSUME Pipe, Sender, Pipe', PeerAccepts \/ PeerReceives \/ PeerSends \/ PeerProbes \/ PeerResets
  PROVE  PeerMoves
<1>1. UNCHANGED <<iss, writes, state, active, sndUna, sndNxt, txq, peerClosed, c2s>>
  BY Zenon DEF PeerAccepts, PeerReceives, PeerSends, PeerProbes, PeerResets, PeerSendsBytes, vars
<1>2. pState' # "Listen"
  BY Zenon DEF PeerAccepts, PeerReceives, PeerSends, PeerProbes, PeerResets, PeerSendsBytes, peer
<1>3. pRcv' = Add(iss, Has') /\ Has' \in Nat
  <2>1. PeerSide' /\ iss' = iss
    BY Zenon, <1>1 DEF Pipe
  <2>2. pRcv' = Add(iss', Len(pGot') + 1 + (IF pFinGot' THEN 1 ELSE 0)) /\ Len(pGot') \in Nat
    BY <1>2, <2>1 DEF PeerSide
  <2> QED
    BY <2>1, <2>2 DEF Has
<1>4. CASE PeerAccepts
  <2>1. Has' = Has
    BY Zenon, <1>4 DEF PeerAccepts, Has
  <2>2. PICK q : s2c' = s2c \cup {PSeg(PISS, {"syn", "ack"}, <<>>, Add(q, 1))} /\ pRcv' = Add(q, 1)
    BY Zenon, <1>4 DEF PeerAccepts, PeerEmits
  <2>3. PICK seg : seg = PSeg(PISS, {"syn", "ack"}, <<>>, Add(q, 1))
    BY Zenon
  <2>4. seg.syn /\ seg.ackf /\ ~ seg.rst /\ seg.ack = Add(iss, Has')
    <3>1. PICK F : F = {"syn", "ack"}
      BY Zenon
    <3>2. "syn" \in F /\ "ack" \in F /\ "rst" \notin F
      BY <3>1
    <3>3. seg = PSeg(PISS, F, <<>>, Add(q, 1))
      BY Zenon, <2>3, <3>1
    <3>4. seg.ack = Add(q, 1) /\ (seg.syn <=> "syn" \in F)
      BY <3>3, PSegFields
    <3>5. (seg.ackf <=> "ack" \in F) /\ (seg.rst <=> "rst" \in F)
      BY <3>3, PAckFields
    <3> QED
      BY Zenon, <1>3, <2>2, <3>2, <3>4, <3>5
  <2>5. pState' # "Up"
    BY Zenon, <1>4 DEF PeerAccepts
  <2> QED
    BY <1>1, <1>3, <2>1, <2>2, <2>3, <2>4, <2>5, HasIs DEF PeerMoves
<1>5. CASE PeerReceives
  <2>1. PICK seg \in c2s :
          /\ ~ seg.syn
          /\ pGot' = IF Got(seg) THEN pGot \o seg.data ELSE pGot
          /\ pFinGot' = (pFinGot \/ (Got(seg) /\ seg.fin))
          /\ s2c' = s2c \/ \E q : s2c' = s2c \cup {PSeg(q, {"ack"}, <<>>, pRcv')}
    BY <1>5, Zenon DEF PeerReceives, Got, PeerEmits
  <2>2. state # "SynSent"
    BY Zenon, <2>1 DEF Sender, Opening
  <2>3. s2c' = s2c \/ \E s : s2c' = s2c \cup {s} /\ s.ack = Add(iss, Has')
    <3>1. CASE s2c' = s2c
      BY Zenon, <3>1
    <3>2. ASSUME NEW q, s2c' = s2c \cup {PSeg(q, {"ack"}, <<>>, pRcv')}
          PROVE  \E s : s2c' = s2c \cup {s} /\ s.ack = Add(iss, Has')
      <4>1. PICK a : a = pRcv'
        BY Zenon
      <4>2. PSeg(q, {"ack"}, <<>>, a).ack = a
        BY PSegFields
      <4> QED
        BY Zenon, <1>3, <3>2, <4>1, <4>2
    <3> QED
      BY Zenon, <2>1, <3>1, <3>2
  <2>4. Len(pGot') \in Nat /\ Len(pGot) \in Nat /\ Len(pGot') >= Len(pGot)
    <3>1. Len(pGot) \in Nat /\ pGot = Stream(Len(pGot)) /\ Len(pGot') \in Nat
      BY DEF Pipe, PeerSide
    <3>2. pGot \in Seq(Nat)
      BY Zenon, <3>1, StreamIsSeq
    <3>3. seg.data \in Seq(Nat)
      <4>1. writes \in Nat /\ Carries(seg, iss, writes, Ended)
        <5>1. writes \in 0..MaxWrites
          BY Zenon DEF Pipe, ClientSide
        <5>2. writes \in Nat
          BY <5>1
        <5> QED
          BY Zenon, <2>1, <5>2 DEF Pipe, Wire, OnWire
      <4>2. seg.data = <<>> \/ \E k \in 1..writes : seg.data = <<k>>
        BY Zenon, <4>1 DEF Carries
      <4>3. \A k \in Nat : <<k>> \in Seq(Nat)
        OBVIOUS
      <4>4. <<>> \in Seq(Nat) /\ \A k \in 1..writes : k \in Nat
        BY <4>1
      <4> QED
        BY Zenon, <4>2, <4>3, <4>4
    <3>4. Len(pGot \o seg.data) = Len(pGot) + Len(seg.data) /\ Len(seg.data) \in Nat
      BY <3>2, <3>3
    <3> QED
      BY <2>1, <3>1, <3>4
  <2>5. Has' >= Has
    <3>1. pFinGot => pFinGot'
      BY Zenon, <2>1
    <3> QED
      BY <2>4, <3>1 DEF Has
  <2> QED
    BY Zenon, <1>1, <1>3, <2>2, <2>3, <2>5 DEF PeerMoves
<1>6. CASE PeerSends \/ PeerProbes \/ PeerResets
  <2>1. UNCHANGED <<pGot, pFinGot, pRcv, pState>> /\ pState = "Up"
    BY Zenon, <1>6 DEF PeerSends, PeerProbes, PeerResets, PeerSendsBytes, peer
  <2>2. Has' = Has
    BY Zenon, <2>1 DEF Has
  <2>3. state # "SynSent"
    BY Zenon, <2>1 DEF Sender, Opening
  <2>4. \E q, f, d : s2c' = s2c \cup {PSeg(q, f, d, pRcv)}
    BY Zenon, <1>6 DEF PeerSends, PeerProbes, PeerResets, PeerSendsBytes, PeerEmits
  <2>5. \E s : s2c' = s2c \cup {s} /\ s.ack = Add(iss, Has')
    BY <1>3, <2>1, <2>4, PSegFields
  <2> QED
    BY <1>1, <1>3, <2>2, <2>3, <2>5, HasIs DEF PeerMoves
<1> QED
  BY <1>4, <1>5, <1>6

LEMMA SenderStep ==
  ASSUME Pipe, Sender, [NetNext]_netvars, Close => Len(txq) < TX_SLOTS
  PROVE  Sender'
<1> USE DEF NetNext
<1>0. Pipe'
  BY Zenon, StepOfPipe
<1>1. CASE Connect
  BY Zenon, <1>1, ConnectSender
<1>2. CASE Write
  BY Zenon, <1>2, WriteSender
<1>3. CASE Close
  BY <1>3, CloseSender
<1>4. CASE Release
  BY <1>4, ReleaseRests, RestsSender
<1>5. CASE Deliver
  <2>1. PICK seg \in s2c : handle(seg, TRUE)
    BY Zenon, <1>5 DEF Deliver
  <2>2. ClientEmits /\ UNCHANGED <<s2c, peer, sent, released, writes, releases>>
    BY Zenon, <1>5 DEF Deliver
  <2>3. CASE HandleSynAck(seg, TRUE)
    BY Zenon, <2>2, <2>3, SynAckSender
  <2>4. CASE HandleRst(seg) \/ HandleStray(seg) \/ HandleData(seg, TRUE) \/ HandleFin(seg, TRUE)
    BY Zenon, <2>2, <2>4, HandleSender
  <2> QED
    BY Zenon, <2>1, <2>3, <2>4 DEF handle
<1>6. CASE Retransmit
  BY Zenon, <1>6, RetransmitRests, RestsSender
<1>7. CASE Timer
  BY <1>7, TimerRests, RestsSender
<1>8. CASE PeerAccepts \/ PeerReceives \/ PeerSends \/ PeerProbes \/ PeerResets
  BY Zenon, <1>0, <1>8, PeerStepMoves, PeerMovesSender
<1>9. CASE UNCHANGED netvars
  <2>1. UNCHANGED <<iss, writes, state, active, sndUna, sndNxt, txq, peerClosed, c2s, s2c, pGot, pFinGot, pState>>
    BY Zenon, <1>9 DEF netvars, vars, peer
  <2>2. Has' = Has
    BY Zenon, <2>1 DEF Has
  <2>3. PeerMoves
    BY <2>1, <2>2, HasIs DEF PeerMoves, Sender, Opening
  <2> QED
    BY Zenon, <2>3, PeerMovesSender
<1> QED
  BY Zenon, <1>1, <1>2, <1>3, <1>4, <1>5, <1>6, <1>7, <1>8, <1>9

=============================================================================
