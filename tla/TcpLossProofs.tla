---------------------------- MODULE TcpLossProofs ---------------------------
(***************************************************************************)
(* No byte of a connection is lost silently, in either direction, over a   *)
(* network that loses, repeats and reorders (NoByteLost of TcpNet), for    *)
(* any sizes and with data flowing both ways at once.                      *)
(*                                                                         *)
(* The invariant, on top of Pipe and Sender of TcpNetProofs:               *)
(*   Receiver  what was read and what is in the ring is the peer's stream  *)
(*             up to RCV_NXT, every segment of the peer carries a piece of *)
(*             it under its own number, and no segment of the client       *)
(*             promises room the ring has not;                             *)
(*   Control   the types of the control block, and that tick gives up on   *)
(*             the connection before RETRIES passes its limit.             *)
(***************************************************************************)
EXTENDS TcpNetProofs

----------------------------------------------------------------------------
(* The receiving side.                                                      *)

LEMMA AddSum ==
  ASSUME NEW a \in SeqNo, NEW m \in Nat, NEW n \in Nat, m + n < SeqMod
  PROVE  Add(Add(a, m), n) = Add(a, m + n)
<1>1. SeqMod \in Nat /\ SeqMod > 1 /\ a \in Nat /\ a < SeqMod
  BY TcpConstants DEF SeqNo
<1>2. m \in SeqNo /\ n \in SeqNo /\ m + n \in SeqNo
  BY <1>1 DEF SeqNo
<1>3. PICK b : b = Add(a, m)
  OBVIOUS
<1>4. b = IF a + m < SeqMod THEN a + m ELSE a + m - SeqMod
  BY <1>2, <1>3, AddIs
<1>5. b \in SeqNo
  BY <1>1, <1>2, <1>4 DEF SeqNo
<1>6. Add(b, n) = IF b + n < SeqMod THEN b + n ELSE b + n - SeqMod
  BY <1>2, <1>5, AddIs
<1>7. Add(a, m + n) = IF a + (m + n) < SeqMod THEN a + (m + n) ELSE a + (m + n) - SeqMod
  BY <1>2, AddIs
<1>8. Add(b, n) = Add(a, m + n)
  BY <1>1, <1>4, <1>6, <1>7
<1> QED
  BY Zenon, <1>3, <1>8

\* Positions of the peer's stream.
LEMMA PSeqIs ==
  ASSUME NEW p \in 0..StreamLen
  PROVE  /\ PSeq(p) \in SeqNo
         /\ \A q \in 0..StreamLen : PSeq(p) = PSeq(q) => p = q
         /\ \A n \in Nat : p + n <= StreamLen => Add(PSeq(p), n) = PSeq(p + n)
         /\ Sub(PSeq(p), PSeq(0)) = p
<1>1. StreamLen \in Nat /\ SeqMod \in Nat /\ StreamLen + 2 < SeqMod /\ PISS \in SeqNo
  BY TcpConstants, TcpNetConstants, TcpNetSpace
<1>2. \A q \in 0..StreamLen : q + 1 \in SeqNo
  BY <1>1 DEF SeqNo
<1>3. PSeq(p) \in SeqNo
  BY <1>1, <1>2, SubOfAdds DEF PSeq
<1>4. \A q \in 0..StreamLen : PSeq(p) = PSeq(q) => p = q
  <2> SUFFICES ASSUME NEW q \in 0..StreamLen, Add(PISS, p + 1) = Add(PISS, q + 1) PROVE p = q
    BY DEF PSeq
  <2>1. p + 1 = q + 1
    BY <1>1, <1>2, AddDiffers
  <2> QED
    BY <1>1, <2>1
<1>5. \A n \in Nat : p + n <= StreamLen => Add(PSeq(p), n) = PSeq(p + n)
  <2> SUFFICES ASSUME NEW n \in Nat, p + n <= StreamLen PROVE Add(Add(PISS, p + 1), n) = Add(PISS, (p + n) + 1)
    BY DEF PSeq
  <2>1. p + 1 \in Nat /\ (p + 1) + n < SeqMod /\ (p + 1) + n = (p + n) + 1
    BY <1>1
  <2>2. Add(Add(PISS, p + 1), n) = Add(PISS, (p + 1) + n)
    BY <1>1, <2>1, AddSum
  <2> QED
    BY <2>1, <2>2
<1>6. Sub(PSeq(p), PSeq(0)) = p
  <2>1. p + 1 \in SeqNo /\ 0 + 1 \in SeqNo
    BY <1>1, <1>2
  <2>2. p + 1 >= 0 + 1 /\ (p + 1) - (0 + 1) = p
    BY <1>1
  <2> QED
    BY <1>1, <2>1, <2>2, SubOfAdds DEF PSeq
<1> QED
  BY <1>3, <1>4, <1>5, <1>6

\* n bytes of the peer's stream, from position p.
Piece(p, n) == SubSeq(Stream(StreamLen), p + 1, p + n)

LEMMA PieceIs ==
  ASSUME NEW p \in Nat, NEW n \in Nat, p + n <= StreamLen
  PROVE  /\ Piece(p, n) \in Seq(Byte) /\ Len(Piece(p, n)) = n
         /\ \A j \in 1..n : Piece(p, n)[j] = p + j
         /\ Stream(p) \o Piece(p, n) = Stream(p + n)
<1>1. StreamLen \in Nat
  BY TcpNetConstants
<1>2. Stream(StreamLen) \in Seq(Nat) /\ Len(Stream(StreamLen)) = StreamLen
      /\ \A j \in 1..StreamLen : Stream(StreamLen)[j] = j
  BY Zenon, <1>1, StreamIsSeq
<1>3. PICK d : d = Piece(p, n)
  OBVIOUS
<1>4. d \in Seq(Nat) /\ Len(d) = n /\ \A j \in 1..n : d[j] = p + j
  BY <1>1, <1>2, <1>3 DEF Piece
<1>5. \A j \in 1..n : d[j] \in Byte
  BY <1>1, <1>4, TcpNetBytes
<1>6. d \in Seq(Byte)
  BY <1>4, <1>5, SeqIs
<1>7. Stream(p) \in Seq(Nat) /\ Len(Stream(p)) = p /\ \A j \in 1..p : Stream(p)[j] = j
  BY Zenon, StreamIsSeq
<1>8. Stream(p + n) \in Seq(Nat) /\ Len(Stream(p + n)) = p + n /\ \A j \in 1..(p + n) : Stream(p + n)[j] = j
  <2>1. PICK m \in Nat : m = p + n
    OBVIOUS
  <2> QED
    BY Zenon, <2>1, StreamIsSeq
<1>9. Stream(p) \o d = Stream(p + n)
  <2>1. PICK r : r = Stream(p) \o d
    BY Zenon
  <2>2. r \in Seq(Nat) /\ Len(r) = p + n
    <3>1. PICK s : s = Stream(p)
      OBVIOUS
    <3>2. s \in Seq(Nat) /\ d \in Seq(Nat) /\ Len(s) = p /\ Len(d) = n
      BY <1>4, <1>7, <3>1
    <3> QED
      BY Zenon, <2>1, <3>1, <3>2, Joined
  <2>3. \A j \in 1..(p + n) : r[j] = j
    <3> SUFFICES ASSUME NEW j \in 1..(p + n) PROVE r[j] = j
      OBVIOUS
    <3>1. CASE j <= p
      BY <1>4, <1>7, <2>1, <3>1
    <3>2. CASE j > p
      <4>1. j - p \in 1..n /\ d[j - p] = p + (j - p)
        BY <1>4, <3>2
      <4>2. r[j] = d[j - p]
        BY <1>4, <1>7, <2>1, <3>2, <4>1
      <4> QED
        BY <4>1, <4>2
    <3> QED
      BY <3>1, <3>2
  <2>4. r = Stream(p + n)
    BY <1>8, <2>2, <2>3, SameItems
  <2> QED
    BY <2>1, <2>4
<1> QED
  BY <1>3, <1>4, <1>6, <1>9

Taken == Len(released) + Len(rx)

\* A segment of the peer carries a piece of its stream, under its own number.
Chunk(seg, top) ==
  seg.data = <<>> \/ \E p \in 0..top, n \in 0..top : p + n <= top /\ seg.seq = PSeq(p) /\ seg.data = Piece(p, n)

\* A segment of the client promises no more than the ring can take, with r bytes
\* read from it so far.
Advert(seg, r) == \E l \in 0..StreamLen : seg.ack = PSeq(l) /\ l + seg.wnd <= r + RX_CAP

InOrderSoFar == released \o rx = Stream(Taken) /\ rcvNxt = PSeq(Taken) /\ Taken <= pNxt

WindowTrue ==
  /\ ~ truncated /\ pNxt <= pEdge /\ pEdge <= Len(released) + RX_CAP
  /\ \A seg \in c2s : ~ seg.syn => Advert(seg, Len(released))

RcvTypes ==
  /\ rx \in Seq(Byte) /\ Len(rx) <= RX_CAP /\ released \in Seq(Byte) /\ rcvNxt \in SeqNo
  /\ pNxt \in 0..StreamLen /\ pEdge \in Int
  /\ truncated \in BOOLEAN /\ peerClosed \in BOOLEAN /\ probed \in BOOLEAN
  /\ \A seg \in c2s : seg.ack \in SeqNo /\ seg.wnd \in Int
  /\ \A seg \in s2c : seg.seq \in SeqNo

Receiver ==
  /\ RcvTypes
  /\ \A seg \in s2c : Chunk(seg, pNxt) /\ (seg.syn => seg.seq = PISS)
  /\ (state = "SynSent" \/ c2s = {}) => rx = <<>> /\ released = <<>>
  /\ c2s = {} => pNxt = 0 /\ pEdge = 0
  /\ Live /\ ~ peerClosed /\ ~ truncated => InOrderSoFar
  /\ ~ peerClosed /\ ~ probed => WindowTrue

LEMMA RcvConstants ==
  /\ StreamLen \in Nat /\ RX_CAP \in Nat /\ WND_MAX \in Nat /\ PISS \in SeqNo
  /\ SeqMod \in Nat /\ StreamLen + 2 < SeqMod /\ 0 \in SeqNo
BY TcpConstants, TcpNetConstants, TcpNetSpace DEF SeqNo

LEMMA ReceiverStart == NetInit => Receiver
<1> SUFFICES ASSUME NetInit PROVE Receiver
  OBVIOUS
<1>1. /\ rx = <<>> /\ released = <<>> /\ rcvNxt = 0 /\ pNxt = 0 /\ pEdge = 0 /\ truncated = FALSE
      /\ peerClosed = FALSE /\ probed = FALSE /\ c2s = {} /\ s2c = {} /\ ~ active
  BY DEF NetInit, Init
<1>2. RcvTypes
  <2>1. truncated \in BOOLEAN /\ peerClosed \in BOOLEAN /\ probed \in BOOLEAN
    BY Zenon, <1>1
  <2>2. rx \in Seq(Byte) /\ Len(rx) <= RX_CAP /\ released \in Seq(Byte)
    BY <1>1, RcvConstants
  <2>3. pNxt \in 0..StreamLen /\ pEdge \in Int /\ rcvNxt \in SeqNo
    BY <1>1, RcvConstants
  <2>4. (\A seg \in c2s : seg.ack \in SeqNo /\ seg.wnd \in Int) /\ (\A seg \in s2c : seg.seq \in SeqNo)
    BY <1>1
  <2> QED
    BY <2>1, <2>2, <2>3, <2>4 DEF RcvTypes
<1>3. WindowTrue
  BY <1>1, RcvConstants DEF WindowTrue
<1> QED
  BY <1>1, <1>2, <1>3 DEF Receiver, Live

LEMMA WindowIs ==
  ASSUME NEW n \in 0..RX_CAP
  PROVE  window(n) \in Int /\ window(n) <= RX_CAP - n
BY RcvConstants DEF window, Least

LEMMA SegTrueIs ==
  ASSUME NEW q, NEW f, NEW d, NEW a, NEW n
  PROVE  Seg(q, a, f, d, n).ack = a /\ Seg(q, a, f, d, n).wnd = window(n)
BY DEF Seg

LEMMA AdvertGrows ==
  ASSUME NEW seg, seg.wnd \in Int, NEW r \in Nat, NEW s \in Nat, r <= s, Advert(seg, r)
  PROVE  Advert(seg, s)
BY RcvConstants DEF Advert

\* A segment as emit builds it from RCV_NXT and the ring: an acknowledgement of
\* what the client has, and the room it has.
Tells(seg, r, n) == seg.ack = r /\ seg.wnd = window(n)

\* What a step of the client does on the receiving side.
Listens ==
  /\ UNCHANGED <<s2c, pNxt, pEdge, probed>> /\ c2s' = c2s \cup out'
  /\ rx' \in Seq(Byte) /\ Len(rx') <= RX_CAP /\ rcvNxt' \in SeqNo
  /\ released' \in Seq(Byte) /\ Len(released') >= Len(released)
  /\ truncated' \in BOOLEAN /\ peerClosed' \in BOOLEAN /\ (peerClosed => peerClosed')
  /\ (state' = "SynSent" \/ c2s' = {}) => (state = "SynSent" \/ c2s = {}) /\ UNCHANGED <<rx, released>>
  /\ Live' /\ ~ peerClosed' /\ ~ truncated' => InOrderSoFar'
  /\ ~ peerClosed' /\ ~ probed => ~ truncated'
  /\ \A seg \in out' : Tells(seg, rcvNxt', Len(rx'))
  /\ (\E seg \in out' : ~ seg.syn) /\ ~ peerClosed' /\ ~ truncated' => InOrderSoFar'

LEMMA ListensReceiver == ASSUME Receiver, Listens PROVE Receiver'
<1>1. /\ s2c' = s2c /\ pNxt' = pNxt /\ pEdge' = pEdge /\ probed' = probed /\ c2s' = c2s \cup out'
      /\ rx' \in Seq(Byte) /\ Len(rx') <= RX_CAP /\ rcvNxt' \in SeqNo
      /\ released' \in Seq(Byte) /\ Len(released') >= Len(released)
  BY DEF Listens
<1>2. truncated' \in BOOLEAN /\ peerClosed' \in BOOLEAN /\ probed' \in BOOLEAN
  BY Zenon, <1>1 DEF Listens, Receiver, RcvTypes
<1>3. Len(rx') \in 0..RX_CAP
  BY <1>1, RcvConstants
<1>4. \A seg \in out' : seg.ack = rcvNxt' /\ seg.wnd = window(Len(rx')) /\ seg.wnd \in Int /\ seg.ack \in SeqNo
  <2>1. window(Len(rx')) \in Int
    BY <1>3, WindowIs
  <2> QED
    BY Zenon, <1>1, <2>1 DEF Listens, Tells
<1>5. RcvTypes'
  <2>1. \A seg \in c2s' : seg.ack \in SeqNo /\ seg.wnd \in Int
    BY Zenon, <1>1, <1>4 DEF Receiver, RcvTypes
  <2>2. pNxt' \in 0..StreamLen /\ pEdge' \in Int /\ \A seg \in s2c' : seg.seq \in SeqNo
    BY Zenon, <1>1 DEF Receiver, RcvTypes
  <2> QED
    BY <1>1, <1>2, <2>1, <2>2 DEF RcvTypes
<1>6. ASSUME ~ peerClosed', ~ probed' PROVE WindowTrue'
  <2>1. ~ peerClosed /\ ~ probed /\ ~ truncated'
    BY <1>1, <1>6 DEF Listens
  <2>2. WindowTrue
    BY <2>1 DEF Receiver
  <2>3. Len(released) \in Nat /\ Len(released') \in Nat
    BY <1>1 DEF Receiver, RcvTypes
  <2>4. pNxt' <= pEdge' /\ pEdge' <= Len(released') + RX_CAP
    BY <1>1, <2>2, <2>3, RcvConstants DEF WindowTrue, Receiver, RcvTypes
  <2>5. ASSUME NEW seg \in c2s', ~ seg.syn PROVE Advert(seg, Len(released'))
    <3>1. CASE seg \in c2s
      <4>1. Advert(seg, Len(released)) /\ seg.wnd \in Int
        BY Zenon, <2>2, <2>5, <3>1 DEF WindowTrue, Receiver, RcvTypes
      <4> QED
        BY Zenon, <1>1, <2>3, <4>1, AdvertGrows
    <3>2. CASE seg \in out'
      <4>1. InOrderSoFar'
        BY Zenon, <1>6, <2>1, <2>5, <3>2 DEF Listens
      <4>2. seg.ack = rcvNxt' /\ seg.wnd = window(Len(rx'))
        BY Zenon, <1>4, <3>2
      <4>3. /\ Len(released') \in Nat /\ Taken' = Len(released') + Len(rx')
            /\ Taken' <= pNxt' /\ pNxt' \in 0..StreamLen /\ rcvNxt' = PSeq(Taken')
        BY Zenon, <1>5, <2>3, <4>1 DEF RcvTypes, InOrderSoFar, Taken
      <4>4. seg.wnd \in Int /\ seg.wnd <= RX_CAP - Len(rx')
        BY Zenon, <1>3, <4>2, WindowIs
      <4>5. Taken' \in 0..StreamLen /\ Taken' + seg.wnd <= Len(released') + RX_CAP
        BY <1>3, <4>3, <4>4, RcvConstants
      <4> QED
        BY Zenon, <4>2, <4>3, <4>5 DEF Advert
    <3> QED
      BY <1>1, <2>5, <3>1, <3>2
  <2> QED
    BY <2>1, <2>4, <2>5 DEF WindowTrue
<1>7. \A seg \in s2c' : Chunk(seg, pNxt') /\ (seg.syn => seg.seq = PISS)
  BY Zenon, <1>1 DEF Receiver
<1>8. (state' = "SynSent" \/ c2s' = {}) => rx' = <<>> /\ released' = <<>>
  BY Zenon DEF Listens, Receiver
<1>9. c2s' = {} => pNxt' = 0 /\ pEdge' = 0
  BY Zenon, <1>1 DEF Receiver
<1>10. Live' /\ ~ peerClosed' /\ ~ truncated' => InOrderSoFar'
  BY Zenon DEF Listens
<1> QED
  BY <1>5, <1>6, <1>7, <1>8, <1>9, <1>10 DEF Receiver

\* A step that does not touch the ring.
Deaf ==
  /\ UNCHANGED <<s2c, pNxt, pEdge, probed, rx, rcvNxt, released, truncated, peerClosed>> /\ c2s' = c2s \cup out'
  /\ state' = "SynSent" => state = "SynSent"
  /\ Live' => Live
  /\ \A seg \in out' : Tells(seg, rcvNxt, Len(rx)) /\ (~ seg.syn => Live)

LEMMA DeafListens == ASSUME Receiver, Deaf PROVE Listens
<1>1. /\ UNCHANGED <<s2c, pNxt, pEdge, probed, rx, rcvNxt, released, truncated, peerClosed>> /\ c2s' = c2s \cup out'
  BY Zenon DEF Deaf
<1>2. InOrderSoFar => InOrderSoFar'
  BY Zenon, <1>1 DEF InOrderSoFar, Taken
<1>3. Live /\ ~ peerClosed' /\ ~ truncated' => InOrderSoFar'
  BY Zenon, <1>1, <1>2 DEF Receiver
<1>4. ~ peerClosed' /\ ~ probed => ~ truncated'
  BY Zenon, <1>1 DEF Receiver, WindowTrue
<1>5. truncated' \in BOOLEAN /\ peerClosed' \in BOOLEAN
  BY Zenon, <1>1 DEF Receiver, RcvTypes
<1>6. /\ rx' \in Seq(Byte) /\ Len(rx') <= RX_CAP /\ rcvNxt' \in SeqNo
      /\ released' \in Seq(Byte) /\ Len(released') >= Len(released)
  BY <1>1 DEF Receiver, RcvTypes
<1> QED
  BY <1>1, <1>3, <1>4, <1>5, <1>6 DEF Deaf, Listens

LEMMA SlotTells == ASSUME NEW e, NEW a, NEW n PROVE Tells(emit_slot(e, a, n), a, n)
BY SegTrueIs DEF emit_slot, Tells

LEMMA AckTells ==
  ASSUME NEW q, NEW a, NEW n
  PROVE  Tells(send_ack(q, a, n), a, n) /\ ~ send_ack(q, a, n).syn
BY SegTrueIs, SegFields DEF send_ack, Tells

LEMMA WriteDeaf == ASSUME Sender, Write PROVE Deaf
<1>1. /\ UNCHANGED <<s2c, pNxt, pEdge, probed, rx, rcvNxt, released, truncated, peerClosed, state, active>>
      /\ c2s' = c2s \cup out' /\ state = "Established"
      /\ \E e : out' = {emit_slot(e, rcvNxt, Len(rx))}
  BY Zenon DEF Write, send, emit, ClientEmits, peer
<1>2. Live
  BY <1>1 DEF Sender, Live, Open
<1> QED
  BY Zenon, <1>1, <1>2, SlotTells DEF Deaf

LEMMA CloseDeaf == ASSUME Sender, Close PROVE Deaf
<1>1. /\ UNCHANGED <<s2c, pNxt, pEdge, probed, rx, rcvNxt, released, truncated, peerClosed, active>>
      /\ c2s' = c2s \cup out' /\ state = "Established" /\ state' = "FinWait"
      /\ \E e : out' = {emit_slot(e, rcvNxt, Len(rx))}
  BY Zenon DEF Close, close, emit, ClientEmits, peer
<1>2. Live
  BY Zenon, <1>1 DEF Sender, Live, Open
<1> QED
  BY Zenon, <1>1, <1>2, SlotTells DEF Deaf

LEMMA TimerDeaf == ASSUME Timer PROVE Deaf
BY Zenon DEF Timer, Clock, peer, Deaf, Live

LEMMA RetransmitDeaf == ASSUME Retransmit PROVE Deaf
<1>1. /\ UNCHANGED <<s2c, pNxt, pEdge, probed, rx, rcvNxt, released, truncated, peerClosed>>
      /\ c2s' = c2s \cup out' /\ out' = Outstanding /\ active
      /\ UNCHANGED <<state, active>> \/ (state' = "Failed" /\ active' = FALSE)
  BY Zenon DEF Retransmit, tick, GiveUp, emit, ClientEmits, peer
<1>2. \A seg \in Outstanding : Tells(seg, rcvNxt, Len(rx)) /\ (~ seg.syn => Live)
  <2>1. CASE state = "SynSent"
    <3>1. Outstanding = {Seg(iss, rcvNxt, {"syn"}, <<>>, Len(rx))}
      BY Zenon, <2>1 DEF Outstanding
    <3>2. PICK s : s = Seg(iss, rcvNxt, {"syn"}, <<>>, Len(rx))
      OBVIOUS
    <3>3. s.syn /\ Tells(s, rcvNxt, Len(rx))
      BY <3>2, SegFields, SegTrueIs DEF Tells
    <3> QED
      BY Zenon, <3>1, <3>2, <3>3
  <2>2. CASE state # "SynSent"
    BY Zenon, <1>1, <2>2, SlotTells DEF Outstanding, Live
  <2> QED
    BY <2>1, <2>2
<1>3. (Live' => Live) /\ (state' = "SynSent" => state = "SynSent")
  BY Zenon, <1>1 DEF Live
<1> QED
  BY Zenon, <1>1, <1>2, <1>3 DEF Deaf

LEMMA StrayDeaf ==
  ASSUME Sender, NEW seg \in s2c, ClientEmits,
         UNCHANGED <<s2c, peer, sent, released, writes, releases>>, HandleRst(seg) \/ HandleStray(seg)
  PROVE  Deaf
<1>1. /\ UNCHANGED <<s2c, pNxt, pEdge, probed, rx, rcvNxt, released, truncated, peerClosed, active>>
      /\ c2s' = c2s \cup out' /\ out' = {} /\ (state' = "Failed" \/ state' = state) /\ active
  BY Zenon DEF HandleRst, HandleStray, Silent, ClientEmits, peer
<1>2. state # "SynSent"
  BY Zenon DEF Sender, Opening, HandleRst, HandleStray
<1> QED
  BY Zenon, <1>1, <1>2 DEF Deaf, Live

LEMMA ReleaseListens == ASSUME Sender, Receiver, Release PROVE Listens
<1>1. PICK n \in 1..RX_CAP : rx_release(n, TRUE) /\ released' = released \o SubSeq(rx, 1, n)
  BY Zenon DEF Release
<1>2. /\ UNCHANGED <<s2c, pNxt, pEdge, probed, rcvNxt, truncated, peerClosed, state, active>> /\ c2s' = c2s \cup out'
      /\ n \in 1..Len(rx) /\ rx' = SubSeq(rx, n + 1, Len(rx))
  BY Zenon, <1>1 DEF Release, rx_release, ClientEmits, peer
<1>3. rx \in Seq(Byte) /\ released \in Seq(Byte) /\ Len(rx) \in 0..RX_CAP /\ rcvNxt \in SeqNo
  BY RcvConstants DEF Receiver, RcvTypes
<1>4. PICK a : a = SubSeq(rx, 1, n)
  BY Zenon
<1>5. a \in Seq(Byte) /\ Len(a) = n /\ rx' \in Seq(Byte) /\ Len(rx') = Len(rx) - n
  BY <1>2, <1>3, <1>4
<1>6. a \o rx' = rx
  <2>1. n \in 0..Len(rx) /\ Len(rx) \in n..Len(rx) /\ 1 \in 1..(Len(rx) + 1)
    BY <1>2, <1>3
  <2>2. SubSeq(rx, 1, n) \o SubSeq(rx, n + 1, Len(rx)) = SubSeq(rx, 1, Len(rx))
    BY <1>3, <2>1, PartsJoined
  <2>3. SubSeq(rx, 1, Len(rx)) = rx
    BY <1>3
  <2> QED
    BY Zenon, <1>2, <1>4, <2>2, <2>3
<1>7. released' \o rx' = released \o rx
  <2>1. PICK b : b = rx'
    OBVIOUS
  <2>2. released \in Seq(Byte) /\ a \in Seq(Byte) /\ b \in Seq(Byte)
    BY Zenon, <1>3, <1>5, <2>1
  <2>3. (released \o a) \o b = released \o (a \o b)
    BY SMT, <2>2, JoinedTwice
  <2> QED
    BY Zenon, <1>1, <1>4, <1>6, <2>1, <2>3
<1>8. released' \in Seq(Byte) /\ Len(released') = Len(released) + n
  BY <1>1, <1>3, <1>4, <1>5, Joined
<1>9. Taken' = Taken
  <2>1. Len(released) \in Nat /\ Len(rx) \in Nat /\ n \in Nat
    BY <1>2, <1>3
  <2> QED
    BY <1>5, <1>8, <2>1 DEF Taken
<1>10. InOrderSoFar => InOrderSoFar'
  BY Zenon, <1>2, <1>7, <1>9 DEF InOrderSoFar
<1>11. out' = {} \/ (out' = {send_ack(sndNxt, rcvNxt', Len(rx'))} /\ state \in Open)
  BY Zenon, <1>1, <1>2 DEF rx_release, emit, Silent
<1>12. out' # {} => Live
  BY Zenon, <1>11 DEF Sender, Live, Open
<1>13. rx # <<>>
  BY <1>2
<1>14. state # "SynSent" /\ c2s # {}
  BY Zenon, <1>13 DEF Receiver
<1>15. Live' = Live
  BY Zenon, <1>2 DEF Live
<1>16. ~ peerClosed' /\ ~ probed => ~ truncated'
  BY Zenon, <1>2 DEF Receiver, WindowTrue
<1>17. truncated' \in BOOLEAN /\ peerClosed' \in BOOLEAN
  BY Zenon, <1>2 DEF Receiver, RcvTypes
<1>18. Live /\ ~ peerClosed' /\ ~ truncated' => InOrderSoFar'
  BY Zenon, <1>2, <1>10 DEF Receiver
<1>19. Len(rx') <= RX_CAP /\ Len(released') >= Len(released) /\ rcvNxt' \in SeqNo
  BY <1>2, <1>3, <1>5, <1>8, RcvConstants
<1>20. \A seg \in out' : Tells(seg, rcvNxt', Len(rx'))
  <2>1. PICK m : m = Len(rx')
    BY Zenon
  <2>2. PICK r : r = rcvNxt'
    OBVIOUS
  <2> QED
    BY <1>11, <2>1, <2>2, AckTells
<1>21. state' # "SynSent" /\ c2s' # {}
  BY Zenon, <1>2, <1>14
<1> QED
  BY Zenon, <1>2, <1>5, <1>8, <1>12, <1>15, <1>16, <1>17, <1>18, <1>19, <1>20, <1>21 DEF Listens

LEMMA SynAckListens ==
  ASSUME Sender, Receiver, NEW seg \in s2c, ClientEmits,
         UNCHANGED <<s2c, peer, sent, released, writes, releases>>, HandleSynAck(seg, TRUE)
  PROVE  Listens
<1>1. /\ UNCHANGED <<s2c, pNxt, pEdge, probed, rx, released, truncated, peerClosed, active>>
      /\ c2s' = c2s \cup out' /\ state = "SynSent" /\ state' = "Established" /\ seg.syn
      /\ rcvNxt' = Add(seg.seq, 1) /\ out' = {send_ack(seg.ack, rcvNxt', Len(rx))}
  BY Zenon DEF HandleSynAck, emit, ClientEmits, peer
<1>2. rx = <<>> /\ released = <<>> /\ seg.seq = PISS
  BY Zenon, <1>1 DEF Receiver
<1>3. rcvNxt' = PSeq(0)
  BY <1>1, <1>2 DEF PSeq
<1>4. Taken' = 0 /\ released' \o rx' = <<>>
  BY <1>1, <1>2 DEF Taken
<1>5. Stream(0) = <<>>
  BY DEF Stream
<1>6. InOrderSoFar'
  <2>1. pNxt' \in Nat
    BY <1>1, RcvConstants DEF Receiver, RcvTypes
  <2> QED
    BY <1>3, <1>4, <1>5, <2>1 DEF InOrderSoFar
<1>7. \A s \in out' : Tells(s, rcvNxt', Len(rx'))
  <2>1. PICK r : r = rcvNxt'
    BY Zenon
  <2> QED
    BY Zenon, <1>1, <2>1, AckTells
<1>8. rcvNxt' \in SeqNo
  <2>1. 0 \in 0..StreamLen
    BY RcvConstants
  <2> QED
    BY Zenon, <1>3, <2>1, PSeqIs
<1>9. truncated' \in BOOLEAN /\ peerClosed' \in BOOLEAN
  BY Zenon, <1>1 DEF Receiver, RcvTypes
<1>10. ~ peerClosed' /\ ~ probed => ~ truncated'
  BY Zenon, <1>1 DEF Receiver, WindowTrue
<1>11. c2s' # {}
  BY Zenon, <1>1
<1>12. rx' \in Seq(Byte) /\ Len(rx') <= RX_CAP /\ released' \in Seq(Byte) /\ Len(released') >= Len(released)
  <2>1. rx' = rx /\ released' = released
    BY Zenon, <1>1
  <2>2. rx \in Seq(Byte) /\ Len(rx) <= RX_CAP /\ released \in Seq(Byte)
    BY Zenon DEF Receiver, RcvTypes
  <2>3. Len(released) \in Nat
    BY <2>2
  <2> QED
    BY <2>1, <2>2, <2>3
<1> QED
  BY Zenon, <1>1, <1>6, <1>7, <1>8, <1>9, <1>10, <1>11, <1>12 DEF Listens

\* What a payload does to the ring, whatever the state of the connection.
LEMMA PayloadTypes ==
  ASSUME RcvTypes, NEW seg, seg.data \in Seq(Byte), NEW x \in {0, 1}, TakePayload(seg, x)
  PROVE  rx' \in Seq(Byte) /\ Len(rx') <= RX_CAP /\ rcvNxt' \in SeqNo /\ truncated' \in BOOLEAN
<1>1. rx \in Seq(Byte) /\ Len(rx) \in Nat /\ Len(rx) <= RX_CAP /\ rcvNxt \in SeqNo /\ Len(seg.data) \in Nat
  BY DEF RcvTypes
<1>2. CASE InOrder(seg)
  <2>1. PICK n : n = Least(Len(seg.data), RX_CAP - Len(rx))
    OBVIOUS
  <2>2. n \in 0..Len(seg.data) /\ n <= RX_CAP - Len(rx)
    BY <1>1, <2>1, RcvConstants DEF Least
  <2>3. PICK d : d = SubSeq(seg.data, 1, n)
    BY Zenon
  <2>4. d \in Seq(Byte) /\ Len(d) = n
    BY <1>1, <2>2, <2>3
  <2>5. rx' = rx \o d
    BY Zenon, <1>2, <2>1, <2>3 DEF TakePayload, append_rx
  <2>6. rx' \in Seq(Byte) /\ Len(rx') = Len(rx) + n
    BY Zenon, <1>1, <2>4, <2>5, Joined
  <2>7. rcvNxt' \in SeqNo
    <3>1. PICK k \in Nat : k = Len(seg.data) + x
      BY <1>1
    <3> QED
      BY Zenon, <1>1, <1>2, <3>1, AddType DEF TakePayload
  <2>8. truncated' \in BOOLEAN
    BY Zenon, <1>2 DEF TakePayload
  <2> QED
    BY <1>1, <2>2, <2>6, <2>7, <2>8, RcvConstants
<1>3. CASE ~ InOrder(seg)
  <2>1. UNCHANGED <<rx, truncated>> /\ rcvNxt' = Add(rcvNxt, x)
    BY Zenon, <1>3 DEF TakePayload
  <2>2. rcvNxt' \in SeqNo
    BY Zenon, <1>1, <2>1, AddType
  <2> QED
    BY Zenon, <2>1, <2>2 DEF RcvTypes
<1> QED
  BY <1>2, <1>3

\* In order: the payload at RCV_NXT is the next piece of the stream, and fits when
\* the peer kept to its window.
LEMMA PayloadInOrder ==
  ASSUME RcvTypes, InOrderSoFar, NEW seg, Chunk(seg, pNxt), TakePayload(seg, 0),
         ~ truncated, UNCHANGED <<released, pNxt>>
  PROVE  /\ ~ truncated' => InOrderSoFar'
         /\ pNxt <= Len(released) + RX_CAP => ~ truncated'
<1>1. /\ rx \in Seq(Byte) /\ Len(rx) \in Nat /\ Len(rx) <= RX_CAP /\ released \in Seq(Byte) /\ Len(released) \in Nat
      /\ pNxt \in Nat /\ pNxt <= StreamLen
  BY RcvConstants DEF RcvTypes
<1>2. /\ released \o rx = Stream(Taken) /\ rcvNxt = PSeq(Taken) /\ Taken <= pNxt
      /\ Taken = Len(released) + Len(rx) /\ Taken \in Nat /\ Taken \in 0..StreamLen
  BY <1>1, RcvConstants DEF InOrderSoFar, Taken
<1>3. CASE InOrder(seg)
  <2>1. PICK p \in 0..pNxt, n \in 0..pNxt : p + n <= pNxt /\ seg.seq = PSeq(p) /\ seg.data = Piece(p, n)
    BY Zenon, <1>3 DEF InOrder, Chunk
  <2>2. p = Taken /\ p \in Nat /\ n \in Nat /\ p + n <= StreamLen
    <3>1. p \in 0..StreamLen /\ p + n <= StreamLen
      BY <1>1, <2>1, RcvConstants
    <3>2. PSeq(p) = PSeq(Taken)
      BY Zenon, <1>2, <1>3, <2>1 DEF InOrder
    <3> QED
      BY <1>1, <1>2, <2>1, <3>1, <3>2, PSeqIs
  <2>3. seg.data \in Seq(Byte) /\ Len(seg.data) = n
    BY Zenon, <2>1, <2>2, PieceIs
  <2>4. truncated' = (truncated \/ n > RX_CAP - Len(rx))
    BY Zenon, <1>3, <2>3 DEF TakePayload
  <2>5. pNxt <= Len(released) + RX_CAP => ~ truncated'
    <3>1. pNxt <= Len(released) + RX_CAP => ~ (n > RX_CAP - Len(rx))
      BY <1>1, <1>2, <2>1, <2>2, RcvConstants
    <3> QED
      BY Zenon, <2>4, <3>1
  <2>6. ASSUME ~ truncated' PROVE InOrderSoFar'
    <3>1. n <= RX_CAP - Len(rx)
      <4>1. ~ (n > RX_CAP - Len(rx))
        BY Zenon, <2>4, <2>6
      <4> QED
        BY <1>1, <2>2, <4>1, RcvConstants
    <3>2. Least(n, RX_CAP - Len(rx)) = n
      BY Zenon, <3>1 DEF Least
    <3>3. SubSeq(seg.data, 1, n) = seg.data
      BY <2>3
    <3>4. rx' = rx \o seg.data
      BY Zenon, <1>3, <2>3, <3>2, <3>3 DEF TakePayload, append_rx
    <3>5. Len(rx') = Len(rx) + n
      BY Zenon, <1>1, <2>3, <3>4, Joined
    <3>6. Taken' = Taken + n
      BY <1>1, <1>2, <2>2, <3>5 DEF Taken
    <3>7. released' \o rx' = Stream(Taken + n)
      <4>1. released \o (rx \o seg.data) = (released \o rx) \o seg.data
        <5>1. PICK d : d = seg.data
          BY Zenon
        <5>2. released \in Seq(Byte) /\ rx \in Seq(Byte) /\ d \in Seq(Byte)
          BY Zenon, <1>1, <2>3, <5>1
        <5>3. (released \o rx) \o d = released \o (rx \o d)
          BY SMT, <5>2, JoinedTwice
        <5> QED
          BY Zenon, <5>1, <5>3
      <4>2. Stream(Taken) \o seg.data = Stream(Taken + n)
        BY Zenon, <2>1, <2>2, PieceIs
      <4> QED
        BY Zenon, <1>2, <3>4, <4>1, <4>2
    <3>8. rcvNxt' = PSeq(Taken + n)
      <4>1. rcvNxt' = Add(rcvNxt, n)
        <5>1. n + 0 = n
          BY <2>2
        <5> QED
          BY Zenon, <1>3, <2>3, <5>1 DEF TakePayload
      <4> QED
        BY Zenon, <1>2, <2>2, <4>1, PSeqIs
    <3> QED
      BY Zenon, <2>1, <2>2, <3>6, <3>7, <3>8 DEF InOrderSoFar
  <2> QED
    BY Zenon, <2>5, <2>6
<1>4. CASE ~ InOrder(seg)
  <2>1. UNCHANGED <<rx, truncated>> /\ rcvNxt' = Add(rcvNxt, 0)
    BY Zenon, <1>4 DEF TakePayload
  <2>2. rcvNxt' = PSeq(Taken)
    <3>1. Taken + 0 = Taken /\ Taken + 0 <= StreamLen
      BY <1>2, RcvConstants
    <3> QED
      BY <1>2, <2>1, <3>1, PSeqIs
  <2>3. Taken' = Taken
    BY Zenon, <2>1 DEF Taken
  <2> QED
    BY Zenon, <1>2, <2>1, <2>2, <2>3 DEF InOrderSoFar
<1> QED
  BY Zenon, <1>3, <1>4

LEMMA ChunkData == ASSUME NEW seg, NEW top \in 0..StreamLen, Chunk(seg, top) PROVE seg.data \in Seq(Byte)
<1>1. CASE seg.data = <<>>
  BY <1>1
<1>2. ASSUME NEW p \in 0..top, NEW n \in 0..top, p + n <= top, seg.data = Piece(p, n)
      PROVE  seg.data \in Seq(Byte)
  BY <1>2, PieceIs, RcvConstants
<1> QED
  BY Zenon, <1>1, <1>2 DEF Chunk

LEMMA HandleListens ==
  ASSUME Pipe, Sender, Receiver, NEW seg \in s2c, ClientEmits,
         UNCHANGED <<s2c, peer, sent, released, writes, releases>>,
         HandleData(seg, TRUE) \/ HandleFin(seg, TRUE)
  PROVE  Listens
<1>1. /\ UNCHANGED <<s2c, pNxt, pEdge, probed, released>> /\ c2s' = c2s \cup out' /\ state \in Open /\ active
  BY Zenon DEF ClientEmits, peer, HandleData, HandleFin
<1>2. Live
  BY Zenon, <1>1 DEF Live, Open
<1>3. PICK x \in {0, 1} : TakePayload(seg, x) /\ (HandleData(seg, TRUE) => x = 0)
  BY Zenon DEF HandleData, HandleFin
<1>4. RcvTypes /\ Chunk(seg, pNxt) /\ pNxt \in 0..StreamLen
  BY Zenon DEF Receiver, RcvTypes
<1>5. rx' \in Seq(Byte) /\ Len(rx') <= RX_CAP /\ rcvNxt' \in SeqNo /\ truncated' \in BOOLEAN
  BY Zenon, <1>3, <1>4, ChunkData, PayloadTypes
<1>6. out' = {} \/ out' = {send_ack(sndNxt, rcvNxt', Len(rx'))}
  BY Zenon DEF HandleData, HandleFin, emit, Silent
<1>7. \A s \in out' : Tells(s, rcvNxt', Len(rx'))
  <2>1. PICK r, m : r = rcvNxt' /\ m = Len(rx')
    BY Zenon
  <2> QED
    BY <1>6, <2>1, AckTells
<1>8. state' # "SynSent"
  BY Zenon, <1>1 DEF HandleData, HandleFin, StateAfterAck, Open
<1>9. c2s' # {}
  BY Zenon, <1>1 DEF Pipe, Wire, Fresh
<1>10. CASE HandleFin(seg, TRUE)
  <2>1. peerClosed' = TRUE
    BY Zenon, <1>10 DEF HandleFin
  <2> QED
    BY <1>1, <1>4, <1>5, <1>7, <1>8, <1>9, <2>1 DEF Listens, RcvTypes
<1>11. CASE HandleData(seg, TRUE)
  <2>1. peerClosed' = peerClosed /\ TakePayload(seg, 0)
    BY Zenon, <1>3, <1>11 DEF HandleData
  <2>2. truncated => truncated'
    BY Zenon, <2>1 DEF TakePayload
  <2>3. ~ peerClosed' /\ ~ truncated' => InOrderSoFar'
    <3> SUFFICES ASSUME ~ peerClosed', ~ truncated' PROVE InOrderSoFar'
      BY Zenon
    <3>1. ~ peerClosed /\ ~ truncated
      BY Zenon, <2>1, <2>2
    <3>2. InOrderSoFar
      BY Zenon, <1>2, <3>1 DEF Receiver
    <3> QED
      BY Zenon, <1>1, <1>4, <2>1, <3>1, <3>2, PayloadInOrder
  <2>4. ~ peerClosed' /\ ~ probed => ~ truncated'
    <3> SUFFICES ASSUME ~ peerClosed', ~ probed PROVE ~ truncated'
      BY Zenon
    <3>1. ~ peerClosed /\ WindowTrue /\ ~ truncated
      BY Zenon, <2>1 DEF Receiver, WindowTrue
    <3>2. InOrderSoFar
      BY Zenon, <1>2, <3>1 DEF Receiver
    <3>3. pNxt <= Len(released) + RX_CAP
      BY <1>4, <3>1, RcvConstants DEF WindowTrue, RcvTypes
    <3> QED
      BY Zenon, <1>1, <1>4, <2>1, <3>1, <3>2, <3>3, PayloadInOrder
  <2>5. peerClosed' \in BOOLEAN /\ released' \in Seq(Byte) /\ Len(released') >= Len(released)
    BY <1>1, <1>4, <2>1 DEF RcvTypes
  <2> QED
    BY Zenon, <1>1, <1>5, <1>7, <1>8, <1>9, <2>1, <2>3, <2>4, <2>5 DEF Listens
<1> QED
  BY Zenon, <1>10, <1>11

LEMMA ConnectReceiver == ASSUME Pipe, Receiver, Connect PROVE Receiver'
<1>1. PICK i \in ISSs : connect(i, TRUE)
  BY Zenon DEF Connect
<1>2. /\ UNCHANGED <<s2c, pNxt, pEdge, probed, released>> /\ c2s' = out' /\ c2s = {} /\ s2c = {}
  BY Zenon DEF Connect, ClientEmits, peer, Pipe, Wire, Fresh
<1>3. PICK s : s = Seg(i, 0, {"syn"}, <<>>, 0)
  OBVIOUS
<1>4. state' = "SynSent" /\ rx' = <<>> /\ rcvNxt' = 0 /\ truncated' = FALSE /\ peerClosed' = FALSE /\ c2s' = {s}
  BY Zenon, <1>1, <1>2, <1>3 DEF connect, ClearBuffers, emit
<1>5. s.syn /\ s.ack \in SeqNo /\ s.wnd \in Int
  <2>1. 0 \in 0..RX_CAP
    BY RcvConstants
  <2>2. s.ack = 0 /\ s.wnd = window(0)
    BY <1>3, SegTrueIs
  <2> QED
    BY Zenon, <1>3, <2>1, <2>2, SegFields, WindowIs, RcvConstants
<1>6. released = <<>> /\ pNxt = 0 /\ pEdge = 0
  BY Zenon, <1>2 DEF Receiver
<1>7. RcvTypes'
  <2>1. truncated' \in BOOLEAN /\ peerClosed' \in BOOLEAN /\ probed' \in BOOLEAN
    BY Zenon, <1>2, <1>4 DEF Receiver, RcvTypes
  <2>2. rx' \in Seq(Byte) /\ Len(rx') <= RX_CAP /\ released' \in Seq(Byte)
    BY <1>2, <1>4, <1>6, RcvConstants
  <2>3. pNxt' \in 0..StreamLen /\ pEdge' \in Int /\ rcvNxt' \in SeqNo
    BY <1>2, <1>4, <1>6, RcvConstants
  <2>4. (\A seg \in c2s' : seg.ack \in SeqNo /\ seg.wnd \in Int) /\ (\A seg \in s2c' : seg.seq \in SeqNo)
    BY Zenon, <1>2, <1>4, <1>5
  <2> QED
    BY Zenon, <2>1, <2>2, <2>3, <2>4 DEF RcvTypes
<1>8. WindowTrue'
  <2>1. pNxt' <= pEdge' /\ pEdge' <= Len(released') + RX_CAP
    BY <1>2, <1>6, RcvConstants
  <2> QED
    BY Zenon, <1>4, <1>5, <2>1 DEF WindowTrue
<1> QED
  BY Zenon, <1>2, <1>4, <1>6, <1>7, <1>8 DEF Receiver, Live

\* The peer's own steps.
LEMMA ChunkGrows ==
  ASSUME NEW seg, NEW m \in Nat, NEW n \in Nat, m <= n, Chunk(seg, m)
  PROVE  Chunk(seg, n)
BY DEF Chunk

LEMMA AcceptReceiver == ASSUME Pipe, Receiver, PeerAccepts PROVE Receiver'
<1>1. UNCHANGED <<c2s, pNxt, pEdge, probed, rx, released, rcvNxt, truncated, peerClosed, state, active>> /\ c2s # {}
  BY Zenon DEF PeerAccepts, vars
<1>2. PICK a : s2c' = s2c \cup {PSeg(PISS, {"syn", "ack"}, <<>>, a)}
  BY Zenon DEF PeerAccepts, PeerEmits
<1>3. PICK s : s = PSeg(PISS, {"syn", "ack"}, <<>>, a)
  OBVIOUS
<1>4. s.seq = PISS /\ s.data = <<>> /\ PISS \in SeqNo
  BY <1>3, PAckFields, RcvConstants
<1>5. RcvTypes'
  BY Zenon, <1>1, <1>2, <1>3, <1>4 DEF Receiver, RcvTypes
<1>6. \A seg \in s2c' : Chunk(seg, pNxt') /\ (seg.syn => seg.seq = PISS)
  BY Zenon, <1>1, <1>2, <1>3, <1>4 DEF Receiver, Chunk
<1>7. Taken' = Taken /\ Live' = Live
  BY Zenon, <1>1 DEF Taken, Live
<1>8. Live' /\ ~ peerClosed' /\ ~ truncated' => InOrderSoFar'
  BY Zenon, <1>1, <1>7 DEF Receiver, InOrderSoFar
<1>9. ~ peerClosed' /\ ~ probed' => WindowTrue'
  BY Zenon, <1>1 DEF Receiver, WindowTrue
<1> QED
  BY Zenon, <1>1, <1>5, <1>6, <1>8, <1>9 DEF Receiver

LEMMA SendsReceiver == ASSUME Pipe, Receiver, PeerSends \/ PeerProbes \/ PeerResets PROVE Receiver'
<1>1. UNCHANGED <<c2s, pEdge, rx, released, rcvNxt, truncated, peerClosed, state, active>> /\ pState = "Up"
  BY Zenon DEF PeerSends, PeerProbes, PeerResets, PeerSendsBytes, vars, peer
<1>2. c2s # {}
  BY Zenon, <1>1 DEF Pipe, Wire, Fresh
<1>3. pNxt \in 0..StreamLen /\ pEdge \in Int /\ PSeq(pNxt) \in SeqNo
  BY Zenon, PSeqIs DEF Receiver, RcvTypes
<1>4. PICK n \in Nat : /\ pNxt' = pNxt + n /\ pNxt + n <= StreamLen
                       /\ \E f, a, d : /\ s2c' = s2c \cup {PSeg(PSeq(pNxt), f, d, a)} /\ "syn" \notin f
                                       /\ d = <<>> \/ d = Piece(pNxt, n)
                       /\ (probed' = probed /\ (n > 0 => pNxt + n <= pEdge)) \/ probed' = TRUE
  <2>1. CASE PeerSends
    <3>1. PICK n \in 0..Least(MaxSeg, Least(pEdge, StreamLen) - pNxt), fin \in BOOLEAN : PeerSendsBytes(n, fin)
      BY Zenon, <2>1 DEF PeerSends
    <3>2. n \in Nat /\ pNxt + n <= StreamLen /\ pNxt + n <= pEdge
      BY <1>3, RcvConstants, TcpNetConstants DEF Least
    <3>3. pNxt' = pNxt + n /\ s2c' = s2c \cup {PSeg(PSeq(pNxt), IF fin THEN {"ack", "fin"} ELSE {"ack"}, Piece(pNxt, n), pRcv)}
      BY Zenon, <3>1 DEF PeerSendsBytes, PeerEmits, Piece
    <3>4. "syn" \notin (IF fin THEN {"ack", "fin"} ELSE {"ack"})
      BY Zenon
    <3>5. probed' = probed
      BY Zenon, <2>1 DEF PeerSends
    <3> QED
      BY Zenon, <3>2, <3>3, <3>4, <3>5
  <2>2. CASE PeerProbes
    <3>1. PeerSendsBytes(1, FALSE) /\ pNxt < StreamLen /\ probed' = TRUE
      BY Zenon, <2>2 DEF PeerProbes
    <3>2. pNxt' = pNxt + 1 /\ s2c' = s2c \cup {PSeg(PSeq(pNxt), {"ack"}, Piece(pNxt, 1), pRcv)}
      BY Zenon, <3>1 DEF PeerSendsBytes, PeerEmits, Piece
    <3>3. 1 \in Nat /\ pNxt + 1 <= StreamLen /\ "syn" \notin {"ack"}
      BY <1>3, <3>1, RcvConstants
    <3> QED
      BY Zenon, <3>1, <3>2, <3>3
  <2>3. CASE PeerResets
    <3>1. pNxt' = pNxt /\ probed' = probed /\ s2c' = s2c \cup {PSeg(PSeq(pNxt), {"rst"}, <<>>, pRcv)}
      BY Zenon, <2>3 DEF PeerResets, PeerEmits, peer
    <3>2. 0 \in Nat /\ pNxt + 0 = pNxt /\ pNxt <= StreamLen /\ "syn" \notin {"rst"} /\ ~ (0 > 0)
      BY <1>3, RcvConstants
    <3> QED
      BY Zenon, <3>1, <3>2
  <2> QED
    BY Zenon, <2>1, <2>2, <2>3
<1>5. PICK s : s2c' = s2c \cup {s} /\ s.seq = PSeq(pNxt) /\ ~ s.syn /\ (s.data = <<>> \/ s.data = Piece(pNxt, n))
  BY <1>4, PSegFields, PAckFields
<1>6. pNxt' \in 0..StreamLen /\ pNxt <= pNxt' /\ pNxt \in Nat /\ pNxt' \in Nat
  BY <1>3, <1>4, RcvConstants
<1>7. \A seg \in s2c' : Chunk(seg, pNxt') /\ (seg.syn => seg.seq = PISS)
  <2>1. \A seg \in s2c : Chunk(seg, pNxt') /\ (seg.syn => seg.seq = PISS)
    BY Zenon, <1>6, ChunkGrows DEF Receiver
  <2>2. Chunk(s, pNxt')
    <3>1. pNxt \in 0..pNxt' /\ n \in 0..pNxt' /\ pNxt + n <= pNxt'
      BY <1>4, <1>6
    <3> QED
      BY Zenon, <1>5, <3>1 DEF Chunk
  <2> QED
    BY Zenon, <1>5, <2>1, <2>2
<1>8. probed' \in BOOLEAN
  BY Zenon, <1>4 DEF Receiver, RcvTypes
<1>9. RcvTypes'
  BY Zenon, <1>1, <1>3, <1>5, <1>6, <1>8 DEF Receiver, RcvTypes
<1>10. Taken' = Taken /\ Live' = Live /\ Taken \in Int
  BY <1>1 DEF Taken, Live, Receiver, RcvTypes
<1>11. Live' /\ ~ peerClosed' /\ ~ truncated' => InOrderSoFar'
  BY <1>1, <1>6, <1>10 DEF Receiver, InOrderSoFar
<1>12. ASSUME ~ peerClosed', ~ probed' PROVE WindowTrue'
  <2>1. ~ probed /\ ~ peerClosed /\ (n > 0 => pNxt + n <= pEdge)
    BY <1>1, <1>4, <1>12
  <2>2. WindowTrue
    BY Zenon, <2>1 DEF Receiver
  <2>3. pNxt' <= pEdge
    BY <1>3, <1>4, <2>1, <2>2 DEF WindowTrue
  <2> QED
    BY Zenon, <1>1, <2>2, <2>3 DEF WindowTrue
<1> QED
  BY Zenon, <1>1, <1>2, <1>7, <1>9, <1>11, <1>12 DEF Receiver

LEMMA ReceiveReceiver == ASSUME Pipe, Receiver, PeerReceives PROVE Receiver'
<1>1. UNCHANGED <<c2s, pNxt, probed, rx, released, rcvNxt, truncated, peerClosed, state, active>>
  BY Zenon DEF PeerReceives, vars
<1>2. PICK seg \in c2s :
        LET pos == Sub(seg.ack, PSeq(0))
        IN /\ ~ seg.syn
           /\ pEdge' = IF pos + seg.wnd > pEdge THEN pos + seg.wnd ELSE pEdge
           /\ s2c' = s2c \/ \E x \in {0, 1} : \E a : s2c' = s2c \cup {PSeg(Add(PSeq(pNxt), x), {"ack"}, <<>>, a)}
  <2>1. PICK seg \in c2s :
          LET pos == Sub(seg.ack, PSeq(0))
          IN /\ ~ seg.syn
             /\ pEdge' = IF pos + seg.wnd > pEdge THEN pos + seg.wnd ELSE pEdge
             /\ s2c' = s2c \/ s2c' = s2c \cup {PSeg(Add(PSeq(pNxt), IF pFin THEN 1 ELSE 0), {"ack"}, <<>>, pRcv')}
    BY Zenon DEF PeerReceives, PeerEmits
  <2>2. PICK x : x = IF pFin THEN 1 ELSE 0
    OBVIOUS
  <2>3. x \in {0, 1}
    BY <2>2
  <2>4. PICK a : a = pRcv'
    OBVIOUS
  <2> QED
    BY Zenon, <2>1, <2>2, <2>3, <2>4
<1>3. PICK pos : pos = Sub(seg.ack, PSeq(0))
  OBVIOUS
<1>4. pEdge' = IF pos + seg.wnd > pEdge THEN pos + seg.wnd ELSE pEdge
  BY Zenon, <1>2, <1>3
<1>5. pNxt \in 0..StreamLen /\ pEdge \in Int /\ PSeq(pNxt) \in SeqNo /\ seg.ack \in SeqNo /\ seg.wnd \in Int
  BY Zenon, PSeqIs DEF Receiver, RcvTypes
<1>6. pos \in Int
  <2>1. 0 \in 0..StreamLen /\ SeqMod \in Nat
    BY RcvConstants
  <2>2. PSeq(0) \in SeqNo
    BY Zenon, <2>1, PSeqIs
  <2>3. PICK z \in SeqNo : z = PSeq(0)
    BY Zenon, <2>2
  <2>4. pos = IF seg.ack >= z THEN seg.ack - z ELSE seg.ack - z + SeqMod
    BY Zenon, <1>3, <1>5, <2>3, SubIs
  <2> QED
    BY <1>5, <2>1, <2>4 DEF SeqNo
<1>7. pEdge' \in Int
  BY <1>4, <1>5, <1>6
<1>8. \A s \in s2c' : s \in s2c \/ (s.data = <<>> /\ ~ s.syn /\ s.seq \in SeqNo)
  <2>1. ASSUME NEW x \in {0, 1}, NEW a
        PROVE  PSeg(Add(PSeq(pNxt), x), {"ack"}, <<>>, a).data = <<>> /\ ~ PSeg(Add(PSeq(pNxt), x), {"ack"}, <<>>, a).syn
               /\ PSeg(Add(PSeq(pNxt), x), {"ack"}, <<>>, a).seq \in SeqNo
    <3>1. Add(PSeq(pNxt), x) \in SeqNo
      BY Zenon, <1>5, AddType
    <3> QED
      BY <3>1, PSegFields, PAckFields
  <2> QED
    BY Zenon, <1>2, <2>1
<1>9. \A s \in s2c' : Chunk(s, pNxt') /\ (s.syn => s.seq = PISS)
  BY Zenon, <1>1, <1>8 DEF Receiver, Chunk
<1>10. RcvTypes'
  BY Zenon, <1>1, <1>7, <1>8 DEF Receiver, RcvTypes
<1>11. Taken' = Taken /\ Live' = Live
  BY Zenon, <1>1 DEF Taken, Live
<1>12. Live' /\ ~ peerClosed' /\ ~ truncated' => InOrderSoFar'
  BY Zenon, <1>1, <1>11 DEF Receiver, InOrderSoFar
<1>13. ASSUME ~ peerClosed', ~ probed' PROVE WindowTrue'
  <2>1. WindowTrue
    BY Zenon, <1>1, <1>13 DEF Receiver
  <2>2. PICK l \in 0..StreamLen : seg.ack = PSeq(l) /\ l + seg.wnd <= Len(released) + RX_CAP
    BY Zenon, <1>2, <2>1 DEF WindowTrue, Advert
  <2>3. pos = l
    BY Zenon, <1>3, <2>2, PSeqIs
  <2>4. pNxt <= pEdge' /\ pEdge' <= Len(released) + RX_CAP
    BY <1>4, <1>5, <1>6, <2>1, <2>2, <2>3 DEF WindowTrue
  <2> QED
    BY Zenon, <1>1, <2>1, <2>4 DEF WindowTrue
<1>14. c2s' # {}
  BY Zenon, <1>1, <1>2
<1> QED
  BY Zenon, <1>1, <1>9, <1>10, <1>12, <1>13, <1>14 DEF Receiver

LEMMA ReceiverStep ==
  ASSUME Pipe, Sender, Receiver, [NetNext]_netvars
  PROVE  Receiver'
<1> USE DEF NetNext
<1>1. CASE Connect
  BY <1>1, ConnectReceiver
<1>2. CASE Write
  BY <1>2, WriteDeaf, DeafListens, ListensReceiver
<1>3. CASE Close
  BY <1>3, CloseDeaf, DeafListens, ListensReceiver
<1>4. CASE Release
  BY <1>4, ReleaseListens, ListensReceiver
<1>5. CASE Deliver
  <2>1. PICK seg \in s2c : handle(seg, TRUE)
    BY Zenon, <1>5 DEF Deliver
  <2>2. ClientEmits /\ UNCHANGED <<s2c, peer, sent, released, writes, releases>>
    BY Zenon, <1>5 DEF Deliver
  <2>3. CASE HandleSynAck(seg, TRUE)
    BY Zenon, <2>2, <2>3, SynAckListens, ListensReceiver
  <2>4. CASE HandleRst(seg) \/ HandleStray(seg)
    BY Zenon, <2>2, <2>4, StrayDeaf, DeafListens, ListensReceiver
  <2>5. CASE HandleData(seg, TRUE) \/ HandleFin(seg, TRUE)
    BY Zenon, <2>2, <2>5, HandleListens, ListensReceiver
  <2> QED
    BY Zenon, <2>1, <2>3, <2>4, <2>5 DEF handle
<1>6. CASE Retransmit
  BY <1>6, RetransmitDeaf, DeafListens, ListensReceiver
<1>7. CASE Timer
  BY <1>7, TimerDeaf, DeafListens, ListensReceiver
<1>8. CASE PeerAccepts
  BY <1>8, AcceptReceiver
<1>9. CASE PeerReceives
  BY Zenon, <1>9, ReceiveReceiver
<1>10. CASE PeerSends \/ PeerProbes \/ PeerResets
  BY Zenon, <1>10, SendsReceiver
<1>11. CASE UNCHANGED netvars
  <2>1. UNCHANGED <<c2s, s2c, pNxt, pEdge, probed, rx, released, rcvNxt, truncated, peerClosed, state, active>>
    BY Zenon, <1>11 DEF netvars, vars, peer
  <2>2. Taken' = Taken /\ Live' = Live
    BY Zenon, <2>1 DEF Taken, Live
  <2>3. RcvTypes' /\ (InOrderSoFar => InOrderSoFar') /\ (WindowTrue => WindowTrue')
    BY Zenon, <2>1, <2>2 DEF Receiver, RcvTypes, InOrderSoFar, WindowTrue
  <2> QED
    BY Zenon, <2>1, <2>2, <2>3 DEF Receiver
<1> QED
  BY Zenon, <1>1, <1>2, <1>3, <1>4, <1>5, <1>6, <1>7, <1>8, <1>9, <1>10, <1>11

----------------------------------------------------------------------------
(* The control block.                                                       *)

ControlFlags == active \in BOOLEAN /\ quiet \in BOOLEAN
ControlFields ==
  /\ state \in State /\ sndUna \in SeqNo /\ sndNxt \in SeqNo
  /\ retries \in 0..(MAX_RETRIES + 1) /\ (active => retries <= MAX_RETRIES)
  /\ Len(txq) <= TX_SLOTS

LEMMA ControlStart == NetInit => ControlFlags /\ ControlFields
<1> SUFFICES ASSUME NetInit PROVE ControlFlags /\ ControlFields
  OBVIOUS
<1>1. active = FALSE /\ quiet = FALSE /\ state = "Closed" /\ sndUna = 0 /\ sndNxt = 0 /\ retries = 0 /\ txq = <<>>
  BY Zenon DEF NetInit, Init
<1>2. ControlFlags
  BY Zenon, <1>1 DEF ControlFlags
<1>3. ControlFields
  BY <1>1, TcpConstants, RcvConstants DEF ControlFields, State
<1> QED
  BY <1>2, <1>3

LEMMA AckControls ==
  ASSUME Pipe, ControlFields, NEW seg, TakeAck(seg)
  PROVE  sndUna' \in SeqNo /\ Len(txq') <= TX_SLOTS /\ retries' \in {0, retries}
<1>1. txq \in Seq(Entry) /\ Len(txq) \in Nat /\ TX_SLOTS \in Nat /\ Len(txq) <= TX_SLOTS /\ sndNxt \in SeqNo
  BY TcpConstants DEF Pipe, ClientSide, ControlFields
<1>2. CASE UNCHANGED <<txq, sndUna, retries>>
  BY Zenon, <1>2 DEF ControlFields
<1>3. CASE ack_advance(seg.ack) /\ retries' = 0
  <2>1. PICK k \in 0..Len(txq) :
          /\ txq' = SubSeq(txq, k + 1, Len(txq))
          /\ sndUna' = IF k = Len(txq) THEN sndNxt ELSE txq[k + 1].seq
    BY Zenon, <1>3 DEF ack_advance
  <2>2. Len(txq') = Len(txq) - k
    BY Zenon, <1>1, <2>1, DropFirst
  <2>3. ASSUME k # Len(txq) PROVE txq[k + 1].seq \in SeqNo
    <3>1. k + 1 \in 1..Len(txq)
      BY <1>1, <2>3
    <3>2. txq[k + 1] \in Entry
      BY Zenon, <1>1, <3>1, SeqItem
    <3> QED
      BY Zenon, <3>2 DEF Entry
  <2> QED
    BY <1>1, <1>3, <2>1, <2>2, <2>3
<1> QED
  BY Zenon, <1>2, <1>3 DEF TakeAck

LEMMA ControlStep ==
  ASSUME Pipe, Sender, ControlFlags, ControlFields, [NetNext]_netvars, Close => Len(txq) < TX_SLOTS
  PROVE  ControlFlags' /\ ControlFields'
<1> USE DEF NetNext
<1>0. /\ MAX_RETRIES \in Nat /\ TX_SLOTS \in Nat /\ iss \in SeqNo /\ 1 \in SeqNo
      /\ txq \in Seq(Entry) /\ Len(txq) \in Nat
  BY TcpConstants DEF Pipe, ClientSide, SeqNo
<1>1. CASE Connect
  <2>1. PICK i \in ISSs : connect(i, TRUE)
    BY Zenon, <1>1 DEF Connect
  <2>2. i \in SeqNo
    BY Zenon, TcpInputs DEF SeqNo
  <2>3. Add(i, 1) \in SeqNo
    BY Zenon, <2>2, AddType
  <2>4. active' = TRUE /\ quiet' = FALSE
    BY Zenon, <2>1 DEF connect, emit
  <2>5. state' = "SynSent" /\ sndUna' = i /\ sndNxt' = Add(i, 1) /\ retries' = 0 /\ txq' = <<>>
    BY Zenon, <2>1 DEF connect, ClearBuffers
  <2>8. ControlFlags'
    BY Zenon, <2>2, <2>3, <2>4, <2>5 DEF ControlFlags
  <2>9. ControlFields'
    BY <1>0, <2>2, <2>3, <2>4, <2>5 DEF ControlFields, State
  <2> QED
    BY Zenon, <2>8, <2>9
<1>2. CASE Write
  <2>1. /\ UNCHANGED <<active, state, sndUna>> /\ retries' = 0 /\ quiet' = FALSE /\ Len(txq) < TX_SLOTS
        /\ sndNxt' = Add(sndNxt, Len(<<writes + 1>>)) /\ \E e : txq' = Append(txq, e)
    BY Zenon, <1>2 DEF Write, send, emit, queue_slot
  <2>2. Len(txq') = Len(txq) + 1
    BY <1>0, <2>1
  <2>3. sndNxt' \in SeqNo
    <3>1. Len(<<writes + 1>>) = 1
      OBVIOUS
    <3> QED
      BY Zenon, <2>1, <3>1, AddType DEF ControlFields
  <2>8. ControlFlags'
    BY Zenon, <2>1, <2>2, <2>3 DEF ControlFlags
  <2>9. ControlFields'
    BY <1>0, <2>1, <2>2, <2>3 DEF ControlFields, State
  <2> QED
    BY Zenon, <2>8, <2>9
<1>3. CASE Close
  <2>1. /\ UNCHANGED <<active, sndUna>> /\ retries' = 0 /\ quiet' = FALSE /\ Len(txq) < TX_SLOTS
        /\ sndNxt' = Add(sndNxt, 1) /\ state' = "FinWait" /\ \E e : txq' = Append(txq, e)
    BY Zenon, <1>3 DEF Close, close, emit, queue_slot
  <2>2. Len(txq') = Len(txq) + 1
    BY <1>0, <2>1
  <2>3. sndNxt' \in SeqNo
    BY Zenon, <2>1, AddType DEF ControlFields
  <2>8. ControlFlags'
    BY Zenon, <2>1, <2>2, <2>3 DEF ControlFlags
  <2>9. ControlFields'
    BY <1>0, <2>1, <2>2, <2>3 DEF ControlFields, State
  <2> QED
    BY Zenon, <2>8, <2>9
<1>4. CASE Release
  <2>1. UNCHANGED <<active, state, sndUna, sndNxt, retries, txq>> /\ (quiet' = quiet \/ quiet' = FALSE)
    BY Zenon, <1>4 DEF Release, rx_release, emit, Silent
  <2> QED
    BY Zenon, <2>1 DEF ControlFlags, ControlFields
<1>5. CASE Deliver
  <2>1. PICK seg \in s2c : handle(seg, TRUE)
    BY Zenon, <1>5 DEF Deliver
  <2>2. CASE HandleSynAck(seg, TRUE)
    <3>1. /\ UNCHANGED <<active, txq>> /\ sndUna' = seg.ack /\ sndNxt' = seg.ack /\ state' = "Established"
          /\ retries' \in {0, retries} /\ quiet' = FALSE /\ seg.syn
      BY Zenon, <2>2 DEF HandleSynAck, emit
    <3>2. seg.ack = Add(iss, 1)
      BY Zenon, <3>1 DEF Pipe, Wire
    <3>3. seg.ack \in SeqNo
      BY Zenon, <1>0, <3>2, AddType
    <3>8. ControlFlags'
      BY Zenon, <3>1, <3>3 DEF ControlFlags
    <3>9. ControlFields'
      BY <1>0, <3>1, <3>3 DEF ControlFields, State
    <3> QED
      BY Zenon, <3>8, <3>9
  <2>3. CASE HandleRst(seg)
    BY Zenon, <2>3 DEF HandleRst, Silent, ControlFlags, ControlFields, State
  <2>4. CASE HandleStray(seg) \/ HandleData(seg, TRUE) \/ HandleFin(seg, TRUE)
    <3>1. TakeAck(seg) /\ sndNxt' = sndNxt
      BY Zenon, <2>4 DEF HandleStray, HandleData, HandleFin
    <3>2. sndUna' \in SeqNo /\ Len(txq') <= TX_SLOTS /\ retries' \in {0, retries}
      BY Zenon, <3>1, AckControls
    <3>3. (quiet' = quiet \/ quiet' = FALSE) /\ (active' = active \/ active' = FALSE) /\ active
      BY Zenon, <2>4 DEF HandleStray, HandleData, HandleFin, emit, Silent
    <3>4. state' \in State
      BY Zenon, <2>4 DEF HandleStray, HandleData, HandleFin, StateAfterAck, State, ControlFields
    <3>5. ControlFlags'
      BY Zenon, <3>3 DEF ControlFlags
    <3> QED
      BY <1>0, <3>1, <3>2, <3>3, <3>4, <3>5 DEF ControlFields
  <2> QED
    BY Zenon, <2>1, <2>2, <2>3, <2>4 DEF handle
<1>6. CASE Retransmit
  <2>1. /\ UNCHANGED <<sndUna, sndNxt, txq>> /\ retries' = retries + 1 /\ quiet' = FALSE /\ active
        /\ \/ retries + 1 > MAX_RETRIES /\ state' = "Failed" /\ active' = FALSE
           \/ ~ (retries + 1 > MAX_RETRIES) /\ state' = state /\ active' = active
    BY Zenon, <1>6 DEF Retransmit, tick, GiveUp, emit
  <2>8. ControlFlags'
    BY Zenon, <2>1 DEF ControlFlags
  <2>9. ControlFields'
    <3>1. retries \in Nat /\ retries <= MAX_RETRIES
      BY <1>0, <2>1 DEF ControlFields
    <3>2. retries' \in 0..(MAX_RETRIES + 1) /\ sndUna' \in SeqNo /\ sndNxt' \in SeqNo /\ Len(txq') <= TX_SLOTS
      BY <1>0, <2>1, <3>1 DEF ControlFields
    <3>3. state' \in State
      BY Zenon, <2>1 DEF ControlFields, State
    <3>4. active' => retries' <= MAX_RETRIES
      <4>1. CASE retries + 1 > MAX_RETRIES
        BY Zenon, <2>1, <4>1
      <4>2. CASE ~ (retries + 1 > MAX_RETRIES)
        BY <1>0, <2>1, <3>1, <4>2
      <4> QED
        BY Zenon, <4>1, <4>2
    <3> QED
      BY Zenon, <3>2, <3>3, <3>4 DEF ControlFields
  <2> QED
    BY Zenon, <2>8, <2>9
<1>7. CASE Timer
  BY Zenon, <1>7 DEF Timer, Clock, ControlFlags, ControlFields
<1>8. CASE PeerAccepts \/ PeerReceives \/ PeerSends \/ PeerProbes \/ PeerResets \/ UNCHANGED netvars
  <2>1. UNCHANGED <<active, quiet, state, sndUna, sndNxt, retries, txq>>
    BY Zenon, <1>8 DEF PeerAccepts, PeerReceives, PeerSends, PeerProbes, PeerResets, PeerSendsBytes, netvars, vars
  <2> QED
    BY Zenon, <2>1 DEF ControlFlags, ControlFields
<1> QED
  BY Zenon, <1>1, <1>2, <1>3, <1>4, <1>5, <1>6, <1>7, <1>8

----------------------------------------------------------------------------
(* Nothing is lost.                                                         *)

Whole == Pipe /\ Sender /\ Receiver /\ ControlFlags /\ ControlFields

LEMMA TypesHold == Whole => TypeOK
<1> SUFFICES ASSUME Whole PROVE TypeOK
  OBVIOUS
<1>1. active \in BOOLEAN /\ quiet \in BOOLEAN /\ truncated \in BOOLEAN /\ peerClosed \in BOOLEAN
  BY Zenon DEF Whole, ControlFlags, Receiver, RcvTypes
<1>2. /\ state \in State /\ iss \in SeqNo /\ sndUna \in SeqNo /\ sndNxt \in SeqNo /\ rcvNxt \in SeqNo
      /\ retries \in 0..(MAX_RETRIES + 1) /\ rx \in Seq(Byte) /\ Len(rx) <= RX_CAP
  BY Zenon DEF Whole, ControlFields, Receiver, RcvTypes, Pipe, ClientSide
<1>3. txq \in Seq(Entry) /\ Len(txq) \in Nat /\ writes \in 0..MaxWrites
  BY DEF Whole, Pipe, ClientSide
<1>4. \A i \in 1..Len(txq) : txq[i] \in Slot
  <2> SUFFICES ASSUME NEW i \in 1..Len(txq) PROVE txq[i] \in Slot
    OBVIOUS
  <2>1. txq[i] \in Entry /\ Carries(txq[i], iss, writes, Ended)
    BY Zenon, EntryFields DEF Whole
  <2>2. txq[i].data \in Seq(Byte)
    <3>1. CASE txq[i].data = <<>>
      BY <3>1
    <3>2. ASSUME NEW k \in 1..writes, txq[i].data = <<k>> PROVE txq[i].data \in Seq(Byte)
      <4>1. k \in Byte
        BY <1>3, Numbers, TcpNetBytes
      <4> QED
        BY <3>2, <4>1
    <3> QED
      BY Zenon, <2>1, <3>1, <3>2 DEF Carries
  <2>3. PICK e : e = txq[i]
    OBVIOUS
  <2>4. e = [seq |-> e.seq, data |-> e.data, fin |-> e.fin] /\ e.seq \in SeqNo /\ e.fin \in BOOLEAN /\ e.data \in Seq(Byte)
    BY Zenon, <2>1, <2>2, <2>3 DEF Entry
  <2> QED
    BY Zenon, <2>3, <2>4 DEF Slot
<1>5. txq \in Seq(Slot)
  BY <1>3, <1>4, SeqIs
<1>6. Len(txq) <= TX_SLOTS + 1
  BY <1>3, TcpConstants DEF Whole, ControlFields
<1> QED
  BY Zenon, <1>1, <1>2, <1>5, <1>6 DEF TypeOK

LEMMA RxHolds == Whole => RxInOrder /\ WindowHolds
<1> SUFFICES ASSUME Whole PROVE RxInOrder /\ WindowHolds
  OBVIOUS
<1>1. released \in Seq(Byte) /\ rx \in Seq(Byte)
  BY Zenon DEF Whole, Receiver, RcvTypes
<1>2. Len(Kept) = Taken
  BY Zenon, <1>1, Joined DEF Kept, Taken
<1>3. state \in Open => Live
  BY Zenon DEF Whole, Sender, Live, Open
<1>4. RxInOrder
  BY Zenon, <1>2, <1>3 DEF RxInOrder, Whole, Receiver, InOrderSoFar, Kept
<1>5. WindowHolds
  BY Zenon DEF WindowHolds, Whole, Receiver, WindowTrue
<1> QED
  BY <1>4, <1>5

LEMMA TxHolds == Whole => FinAckedMeansDelivered /\ NothingLostBeforeAck
<1> SUFFICES ASSUME Whole PROVE FinAckedMeansDelivered /\ NothingLostBeforeAck
  OBVIOUS
<1>1. /\ writes \in 0..MaxWrites /\ sent = Stream(writes) /\ pGot = Stream(Len(pGot)) /\ Len(pGot) \in 0..writes
      /\ pFinGot \in BOOLEAN /\ (pFinGot => Len(pGot) = writes) /\ iss \in SeqNo
  BY Zenon DEF Whole, Pipe, ClientSide, PeerSide
<1>2. writes \in Nat /\ Len(pGot) \in Nat /\ Len(pGot) <= writes /\ Len(sent) = writes
  <2>1. writes \in Nat /\ Len(pGot) \in Nat /\ Len(pGot) <= writes
    BY <1>1
  <2> QED
    BY Zenon, <1>1, <2>1, StreamIsSeq
<1>3. state \in Open => \E u, t : Sending(u, t)
  BY Zenon DEF Whole, Sender, Live, Open
<1>4. FinAckedMeansDelivered
  <2> SUFFICES ASSUME state = "FinSent", ~ peerClosed PROVE pGot = sent /\ pFinGot
    BY DEF FinAckedMeansDelivered
  <2>1. PICK u, t : Sending(u, t)
    BY Zenon, <1>3 DEF Open
  <2>2. u = writes + 2 /\ u <= Has
    BY Zenon, <2>1 DEF Sending
  <2>3. pFinGot
    BY <1>2, <2>2 DEF Has
  <2> QED
    BY Zenon, <1>1, <2>3
<1>5. NothingLostBeforeAck
  <2> SUFFICES ASSUME state \in {"Established", "FinWait"}, NEW b \in (Len(pGot) + 1)..Len(sent)
               PROVE  \E i \in 1..Len(txq) : txq[i] = [seq |-> Add(iss, b), data |-> <<sent[b]>>, fin |-> FALSE]
    BY Zenon DEF NothingLostBeforeAck
  <2>1. PICK u, t : Sending(u, t)
    BY Zenon, <1>3 DEF Open
  <2>2. /\ t \in {writes + 1, writes + 2} /\ u \in 1..t /\ u <= Has /\ Len(txq) = t - u
        /\ \A j \in 1..Len(txq) : txq[j] = Held(u + j - 1, iss, writes)
    BY Zenon, <2>1 DEF Sending, Queue
  <2>3. b \in 1..writes /\ ~ pFinGot /\ u <= b
    BY <1>1, <1>2, <2>2 DEF Has
  <2>4. PICK j : j = b - u + 1
    OBVIOUS
  <2>5. j \in 1..Len(txq) /\ u + j - 1 = b
    BY <1>2, <2>2, <2>3, <2>4
  <2>6. sent[b] = b
    BY Zenon, <1>1, <2>3 DEF Stream
  <2>7. b <= writes
    BY <1>2, <2>3
  <2>8. Held(b, iss, writes) = [seq |-> Add(iss, b), data |-> <<b>>, fin |-> FALSE]
    BY Zenon, <2>7 DEF Held
  <2> QED
    BY Zenon, <2>2, <2>5, <2>6, <2>8
<1> QED
  BY Zenon, <1>4, <1>5

LEMMA WholeStep ==
  ASSUME Whole, [NetNext]_netvars, Close => Len(txq) < TX_SLOTS
  PROVE  Whole'
BY Zenon, StepOfPipe, SenderStep, ReceiverStep, ControlStep DEF Whole

LEMMA WholeStart == NetInit => Whole
BY PipeStart, SenderStart, ReceiverStart, ControlStart DEF Whole

LEMMA WholeIsSafe == Whole => NoByteLost
BY TypesHold, RxHolds, TxHolds DEF NoByteLost

\* close is called only when the queue has a free slot.
ClosesWithRoom == [][Close => Len(txq) < TX_SLOTS]_netvars

\* Whatever the network loses, repeats or reorders, no byte of a connection is lost
\* silently in either direction, as long as close finds a free slot for its FIN:
\* handle keeps exactly the peer's stream, the advertised window is room the ring
\* has, and ack_advance retires a slot only when the peer has its bytes.
THEOREM NoByteIsLost == NetSpec /\ ClosesWithRoom => []NoByteLost
<1>1. NetInit => Whole
  BY WholeStart
<1>2. Whole /\ [NetNext]_netvars /\ [Close => Len(txq) < TX_SLOTS]_netvars => Whole'
  <2> SUFFICES ASSUME Whole, [NetNext]_netvars, [Close => Len(txq) < TX_SLOTS]_netvars PROVE Whole'
    BY Zenon
  <2>1. CASE Close => Len(txq) < TX_SLOTS
    BY Zenon, <2>1, WholeStep
  <2>2. CASE UNCHANGED netvars
    <3>1. Close => FALSE
      <4> SUFFICES ASSUME Close PROVE FALSE
        OBVIOUS
      <4>1. state = "Established" /\ state' = "FinWait" /\ state' = state
        BY Zenon, <2>2 DEF Close, close, netvars, vars
      <4> QED
        BY <4>1
    <3> QED
      BY Zenon, <3>1, WholeStep
  <2> QED
    BY Zenon, <2>1, <2>2
<1>3. Whole => NoByteLost
  BY WholeIsSafe
<1> QED
  BY <1>1, <1>2, <1>3, PTL DEF NetSpec, ClosesWithRoom

\* In particular on a connection that is written to less often than there are slots.
THEOREM FewWritesNoByteLost == ASSUME MaxWrites < TX_SLOTS PROVE NetSpec => []NoByteLost
<1>1. NetInit => Whole
  BY WholeStart
<1>2. Whole /\ [NetNext]_netvars => Whole'
  <2> SUFFICES ASSUME Whole, [NetNext]_netvars PROVE Whole'
    BY Zenon
  <2>1. ASSUME Close PROVE Len(txq) < TX_SLOTS
    <3>1. state = "Established"
      BY Zenon, <2>1 DEF Close, close
    <3>2. PICK u, t : Sending(u, t)
      BY Zenon, <3>1 DEF Whole, Sender, Live, Open
    <3>3. t = writes + 1 /\ u \in 1..t /\ Len(txq) = t - u /\ writes \in 0..MaxWrites
      BY Zenon, <3>1, <3>2 DEF Sending, Queue, Whole, Pipe, ClientSide
    <3> QED
      BY <3>3, TcpConstants, Numbers
  <2> QED
    BY Zenon, <2>1, WholeStep
<1>3. Whole => NoByteLost
  BY WholeIsSafe
<1> QED
  BY <1>1, <1>2, <1>3, PTL DEF NetSpec
=============================================================================
