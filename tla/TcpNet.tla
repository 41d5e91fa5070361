------------------------------- MODULE TcpNet -------------------------------
(***************************************************************************)
(* One connection of Tcp, end to end: the client of tcp.rs, a network that *)
(* loses, duplicates and reorders, and a peer that follows the TCP rules.  *)
(* The network is the set of all segments ever sent in a direction: one    *)
(* that is never taken out is lost, one taken out twice is duplicated.     *)
(* The peer is not part of the repository; it is modelled from what tcp.rs *)
(* expects of it.  Position k of its stream is the byte k + 1.             *)
(***************************************************************************)
EXTENDS Tcp

CONSTANTS PISS,         \* the peer's initial sequence number
          StreamLen,    \* most bytes the peer sends
          MaxSeg,       \* most bytes in a segment of the peer
          MaxWrites,    \* bound on the writes of the client
          MaxReleases,  \* bound on rx_release calls
          Probes,       \* TRUE: the peer probes a closed window with one byte
          Resets        \* TRUE: the peer may send a RST

ASSUME TcpNetConstants ==
  /\ PISS \in SeqNo /\ StreamLen \in Nat /\ MaxSeg \in Nat \ {0}
  /\ MaxWrites \in Nat /\ MaxReleases \in Nat
  /\ {Probes, Resets} \subseteq BOOLEAN

\* What is written on a connection, with the SYN and the FIN, fits half of the
\* sequence space, and what the peer sends fits the space: a few kilobytes and a
\* page, of 2^32 numbers.
ASSUME TcpNetSpace == 2 * (MaxWrites + 2) <= SeqMod /\ StreamLen + 2 < SeqMod

ASSUME TcpNetBytes == 1..MaxWrites \subseteq Byte /\ 1..StreamLen \subseteq Byte

VARIABLES c2s, s2c,     \* segments sent by the client, by the peer
          pState,       \* "Listen", "SynRcvd", "Up"
          pRcv,         \* the client's sequence number the peer expects next
          pGot,         \* the client's bytes the peer has received, in order
          pFinGot,      \* the peer has received the client's FIN
          pUna, pNxt,   \* positions of the peer's stream acknowledged, sent
          pEdge,        \* the position the client's window ends at
          pFin,         \* the peer has sent its FIN
          probed,       \* history: the peer has probed a closed window
          sent,         \* history: bytes send accepted
          released,     \* history: bytes given back with rx_release
          writes, releases

peer == <<pState, pRcv, pGot, pFinGot, pUna, pNxt, pEdge, pFin, probed>>
netvars == <<vars, c2s, s2c, peer, sent, released, writes, releases>>

Stream(n) == [i \in 1..n |-> i]
PSeq(pos) == Add(PISS, pos + 1)

NetInit ==
  /\ Init
  /\ c2s = {} /\ s2c = {}
  /\ pState = "Listen" /\ pRcv = 0 /\ pGot = <<>> /\ pFinGot = FALSE
  /\ pUna = 0 /\ pNxt = 0 /\ pEdge = 0 /\ pFin = FALSE /\ probed = FALSE
  /\ sent = <<>> /\ released = <<>> /\ writes = 0 /\ releases = 0

----------------------------------------------------------------------------
(* The client's side: a step of Tcp, whose segments enter the network.      *)

ClientEmits == c2s' = c2s \cup out'

Connect ==
  /\ c2s = {} /\ state = "Closed"
  /\ \E i \in ISSs : connect(i, TRUE)
  /\ ClientEmits
  /\ UNCHANGED <<s2c, peer, sent, released, writes, releases>>

\* The n-th write carries bytes no other write carries.
Write ==
  /\ writes < MaxWrites
  /\ send(<<writes + 1>>, TRUE)
  /\ sent' = Append(sent, writes + 1) /\ writes' = writes + 1
  /\ ClientEmits
  /\ UNCHANGED <<s2c, peer, released, releases>>

Close ==
  /\ close(TRUE)
  /\ ClientEmits
  /\ UNCHANGED <<s2c, peer, sent, released, writes, releases>>

Release ==
  /\ releases < MaxReleases
  /\ \E n \in 1..RX_CAP : rx_release(n, TRUE) /\ released' = released \o SubSeq(rx, 1, n)
  /\ releases' = releases + 1
  /\ ClientEmits
  /\ UNCHANGED <<s2c, peer, sent, writes>>

Deliver ==
  /\ \E seg \in s2c : handle(seg, TRUE)
  /\ ClientEmits
  /\ UNCHANGED <<s2c, peer, sent, released, writes, releases>>

Retransmit ==
  /\ tick(TRUE)
  /\ ClientEmits
  /\ UNCHANGED <<s2c, peer, sent, released, writes, releases>>

Timer ==
  /\ active /\ Clock
  /\ UNCHANGED <<c2s, s2c, peer, sent, released, writes, releases>>

----------------------------------------------------------------------------
(* The peer.                                                                *)

PSeg(seq, flags, data, ack) ==
  [seq |-> seq, ack |-> ack, syn |-> "syn" \in flags, ackf |-> "ack" \in flags,
   fin |-> "fin" \in flags, rst |-> "rst" \in flags, data |-> data]

PeerEmits(seg) == s2c' = s2c \cup {seg}

PeerAccepts ==
  /\ pState = "Listen"
  /\ \E seg \in c2s :
       /\ seg.syn
       /\ pRcv' = Add(seg.seq, 1)
       /\ PeerEmits(PSeg(PISS, {"syn", "ack"}, <<>>, Add(seg.seq, 1)))
  /\ pState' = "SynRcvd"
  /\ UNCHANGED <<vars, c2s, pGot, pFinGot, pUna, pNxt, pEdge, pFin, probed, sent, released, writes, releases>>

\* The peer takes an acknowledgement of what it has sent, with the window in it,
\* and the data or FIN it was waiting for; anything else it acknowledges again.
PeerReceives ==
  /\ pState # "Listen"
  /\ \E seg \in c2s :
       LET pos == Sub(seg.ack, PSeq(0))
           inOrder == seg.seq = pRcv /\ (seg.data # <<>> \/ seg.fin)
       IN /\ ~seg.syn
          /\ pos <= pNxt + (IF pFin THEN 1 ELSE 0)
          /\ pUna' = IF pos > pUna THEN pos ELSE pUna
          /\ pEdge' = IF pos + seg.wnd > pEdge THEN pos + seg.wnd ELSE pEdge
          /\ pRcv' = IF inOrder THEN Add(pRcv, Len(seg.data) + (IF seg.fin THEN 1 ELSE 0)) ELSE pRcv
          /\ pGot' = IF inOrder THEN pGot \o seg.data ELSE pGot
          /\ pFinGot' = (pFinGot \/ (inOrder /\ seg.fin))
          /\ IF seg.data # <<>> \/ seg.fin
             THEN PeerEmits(PSeg(Add(PSeq(pNxt), IF pFin THEN 1 ELSE 0), {"ack"}, <<>>, pRcv'))
             ELSE UNCHANGED s2c
  /\ pState' = "Up"
  /\ UNCHANGED <<vars, c2s, pNxt, pFin, probed, sent, released, writes, releases>>

PeerSendsBytes(n, fin) ==
  /\ pState = "Up" /\ ~pFin
  /\ pNxt' = pNxt + n
  /\ pFin' = fin
  /\ n > 0 \/ fin
  /\ PeerEmits(PSeg(PSeq(pNxt), IF fin THEN {"ack", "fin"} ELSE {"ack"},
                    SubSeq(Stream(StreamLen), pNxt + 1, pNxt + n), pRcv))
  /\ UNCHANGED <<vars, c2s, pState, pRcv, pGot, pFinGot, pUna, pEdge, sent, released, writes, releases>>

\* Within the window the client advertised.
PeerSends ==
  /\ \E n \in 0..Least(MaxSeg, Least(pEdge, StreamLen) - pNxt), fin \in BOOLEAN : PeerSendsBytes(n, fin)
  /\ probed' = probed

\* One byte beyond a closed window, to learn whether it has opened.
PeerProbes ==
  /\ Probes
  /\ pUna = pNxt /\ pEdge = pNxt /\ pNxt < StreamLen
  /\ PeerSendsBytes(1, FALSE)
  /\ probed' = TRUE

PeerResets ==
  /\ Resets /\ pState = "Up"
  /\ PeerEmits(PSeg(PSeq(pNxt), {"rst"}, <<>>, pRcv))
  /\ UNCHANGED <<vars, c2s, peer, sent, released, writes, releases>>

NetNext ==
  \/ Connect \/ Write \/ Close \/ Release \/ Deliver \/ Retransmit \/ Timer
  \/ PeerAccepts \/ PeerReceives \/ PeerSends \/ PeerProbes \/ PeerResets

NetSpec == NetInit /\ [][NetNext]_netvars

----------------------------------------------------------------------------
(* Properties.                                                              *)

Kept == released \o rx

\* What the peer received is always a prefix of what send accepted, bytes never
\* change or come twice: each slot keeps its own sequence number for as long as it
\* is unacknowledged (send, tick, ack_advance).
ClientToPeer == INSTANCE BytePipe WITH written <- sent, taken <- pGot,
                                       Chunk <- {<<b>> : b \in 1..MaxWrites}
ClientToPeerPipe == ClientToPeer!Spec

\* Until a FIN has been taken or a truncation reported, what the layer above has
\* seen is the peer's stream, in order and without a hole, up to exactly the
\* position being acknowledged: handle keeps a payload only at RCV_NXT. (A FIN is
\* taken wherever it lies, and moves RCV_NXT even when it came early.)
RxInOrder ==
  (state \in Open /\ ~peerClosed /\ ~truncated) =>
    /\ Kept = Stream(Len(Kept))
    /\ rcvNxt = PSeq(Len(Kept))

\* "Advertising the truth instead makes a slow reader slow the sender down": the
\* window emit advertises keeps a peer that respects it from ever sending what the
\* ring cannot hold, so nothing is dropped and acknowledged. (Not so for the byte
\* of a window probe, nor after a FIN that came early moved RCV_NXT.)
WindowHolds == ~peerClosed /\ ~probed => ~truncated

\* A connection that has seen its own FIN acknowledged (FinSent by way of FinWait)
\* has delivered everything: the peer holds every byte send accepted, and the FIN.
FinAckedMeansDelivered ==
  (state = "FinSent" /\ ~peerClosed) => pGot = sent /\ pFinGot

\* handle never lets an acknowledgement retire a slot whose byte the peer does not
\* have: every byte send accepted is at the peer or still queued, as it was given
\* and under its own sequence number, for tick to repeat.
NothingLostBeforeAck ==
  state \in {"Established", "FinWait"} =>
    \A b \in (Len(pGot) + 1)..Len(sent) :
      \E i \in 1..Len(txq) : txq[i] = [seq |-> Add(iss, b), data |-> <<sent[b]>>, fin |-> FALSE]

\* No byte is lost silently in either direction: what the layer above reads is
\* the peer's stream as far as it is acknowledged, and what send accepted is at
\* the peer or still queued, at the latest with the acknowledged FIN at the peer.
NoByteLost ==
  TypeOK /\ RxInOrder /\ WindowHolds /\ FinAckedMeansDelivered /\ NothingLostBeforeAck

----------------------------------------------------------------------------
(* Liveness.  The poll loop runs net::tick forever and the timer interrupt   *)
(* never stops; the network may lose anything, so delivery is not fair.      *)

Fairness == WF_netvars(Retransmit) /\ WF_netvars(Timer)

\* A connection attempt ends: it comes up, or tick gives up on it.
ConnectEnds == state = "SynSent" ~> state # "SynSent"
============================================================================
