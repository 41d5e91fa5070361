-------------------------------- MODULE Tls --------------------------------
(***************************************************************************)
(* The TLS client: the handshakes of 1.3 and 1.2, the record layer under   *)
(* them (crypto/tls.rs, crypto/tls12.rs) and the check of the server's     *)
(* certificate chain against the stored roots (crypto/trust.rs).           *)
(*                                                                         *)
(* Cryptography is symbolic.  A key is the record of what it was derived   *)
(* from, a MAC or a signature the record of what it covers, and a record   *)
(* opens only under the key and the sequence number it was sealed with.    *)
(* The transcript is the sequence of message names that entered the hash.  *)
(*                                                                         *)
(* The client is one record, k; a handler maps the client to the client it *)
(* leaves, and what it gives to tcp::send is collected in the field out.   *)
(* At the other end is a server that follows the protocol.  What varies is *)
(* the version it speaks, its certificate, how it packs messages into      *)
(* records, how the stream is cut into segments, and when either end of    *)
(* the connection goes away.                                               *)
(***************************************************************************)
EXTENDS Integers, Sequences, FiniteSets, SequencesExt, X509

CONSTANTS
    None,          \* no key, no key share, no certificate
    ServerKinds,   \* the servers a connection may reach
    ROOTS,         \* the trust store: [subject, key]
    HostName,      \* the name every connection asks for
    RX_CAP,        \* records of application data the client holds
    CHAIN_CAP,     \* certificates that fit in the CHAIN buffer
    MAX_CERTS,     \* certificates chain_trusted indexes
    ConnBound,     \* connections started
    DataBound,     \* records of application data a server sends
    SendBound,     \* records of application data the client sends
    SeqBound,      \* sequence numbers the client's attempts to send take
    FaultBound     \* calls of tcp::send that report failure

VARIABLES
    k,        \* the client
    up,       \* records on their way to the server
    down,     \* records on their way to the client
    sv,       \* the server of the current connection
    asked,    \* records of application data tls::send has reported as sent
    faults,   \* calls of tcp::send that reported failure
    sealed    \* the <<key, sequence number>> pairs this connection's records were
              \* sealed with, and whether one was ever used twice

vars == <<k, up, down, sv, asked, faults, sealed>>

-----------------------------------------------------------------------------
(* Keys, messages and records.                                             *)

\* The write key of one end in one epoch: what the key schedule binds it to.
Key(end, epoch, secret, th) == [end |-> end, epoch |-> epoch, secret |-> secret, th |-> th]

\* Finished: a MAC over the transcript so far, under one end's secret.
Mac(label, secret, th) == [label |-> label, secret |-> secret, th |-> th]

\* A record under key None is in clear.  Under TLS 1.3 an encrypted record says
\* application_data on the outside; under 1.2 it shows its real type.
Record(outer, inner, key, seq, body) ==
    [outer |-> outer, inner |-> inner, key |-> key, seq |-> seq, body |-> body]

\* What ciphertext looks like to an end that takes it for plaintext.
Opaque == [t |-> "Opaque"]

Msg(t) == [t |-> t]

\* A message's name in the transcript, unique within a connection.
Named(kk, t) == <<kk.conn, t>>

-----------------------------------------------------------------------------
(* TCP as the record layer uses it.  buf holds what has arrived, in halves *)
(* of records: the header of a record may be there without its end.        *)

tcp_reset(kk) == [kk EXCEPT !.tcp = "Closed", !.buf = <<>>, !.peerClosed = FALSE]

\* The kk.fault.at-th send of this handler reports failure: because the queue
\* is full, or because the segment is queued but its first transmission failed.
tcp_send(kk, rec) ==
    IF kk.tcp # "Established" THEN [kk EXCEPT !.ok = FALSE]
    ELSE LET fails == kk.fault.at = 1
         IN  [kk EXCEPT !.ok = ~fails,
                        !.fault.at = IF @ > 0 THEN @ - 1 ELSE 0,
                        !.out = IF fails /\ kk.fault.kind = "full" THEN @ ELSE Append(@, rec)]

fail(kk, code) == tcp_reset([kk EXCEPT !.err = code, !.phase = "Failed", !.go = FALSE])

established(kk) == kk.phase = "Established" /\ kk.verified

cipher_spec_for_version(kk) == kk.version = 12

NoHandshake12 == [crandom |-> 0, srandom |-> None, pub |-> None, pre |-> None,
                  ckey |-> None, skey |-> None, want |-> FALSE]

reset(kk) ==
    tcp_reset([kk EXCEPT !.phase = "Idle", !.err = 0, !.verified = FALSE, !.rx = <<>>,
                         !.truncated = FALSE, !.chain = <<>>, !.cseq = 0, !.sseq = 0,
                         !.transcript = <<>>, !.chs = None, !.shs = None, !.cap = None,
                         !.sap = None, !.hsecret = None, !.priv = 0, !.crandom = 0,
                         !.h12 = NoHandshake12, !.version = 0, !.step12 = 0,
                         !.ccipher = FALSE, !.scipher = FALSE])

-----------------------------------------------------------------------------
(* The certificate chain.                                                  *)

is_trusted(cert) == [subject |-> cert.subject, key |-> cert.key] \in ROOTS

signed_by_stored_root(cert) ==
    \E e \in ROOTS : e.subject = cert.issuer /\ verify_signed_by(cert, e.key)

chain_trusted(chain) ==
    LET count == Min({Len(chain), MAX_CERTS})
    IN  /\ count > 0
        /\ \A i \in 1..count - 1 : /\ chain[i].issuer = chain[i + 1].subject
                                   /\ verify_signed_by(chain[i], chain[i + 1].key)
                                   /\ chain[i + 1].ca
        /\ \/ is_trusted(chain[count]) /\ chain[count].ca
           \/ signed_by_stored_root(chain[count])

chain_and_name_ok(kk) ==
    kk.chain # <<>> /\ chain_trusted(kk.chain) /\ hostname_matches(Head(kk.chain), HostName)

-----------------------------------------------------------------------------
(* Sending.                                                                *)

transcript_update(kk, t) == [kk EXCEPT !.transcript = Append(@, Named(kk, t))]

\* Mutant: the sequence number is not advanced.
send_record12_same_seq(kk, kind, body) ==
    IF ~kk.ccipher THEN tcp_send(kk, Record(kind, kind, None, 0, body))
    ELSE tcp_send(kk, Record(kind, kind, kk.h12.ckey, kk.cseq, body))

send_record12(kk, kind, body) ==
    IF ~kk.ccipher THEN tcp_send(kk, Record(kind, kind, None, 0, body))
    ELSE tcp_send([kk EXCEPT !.cseq = @ + 1],
                  Record(kind, kind, kk.h12.ckey, kk.cseq, body))

\* A handshake record is sealed as soon as there is a handshake key, any other
\* record as soon as there is an application key.
send_record(kk, kind, body) ==
    LET key == IF kind = "Handshake" THEN kk.chs ELSE kk.cap
    IN  IF cipher_spec_for_version(kk) THEN send_record12(kk, kind, body)
        ELSE IF key = None THEN tcp_send(kk, Record(kind, kind, None, 0, body))
        ELSE tcp_send([kk EXCEPT !.cseq = @ + 1],
                      Record("AppData", kind, key, kk.cseq, body))

\* What random_bytes draws differs between connections.
random_bytes(kk) == kk.conn

send_client_hello(kk) ==
    LET k1 == transcript_update([kk EXCEPT !.priv = random_bytes(kk),
                                                !.crandom = random_bytes(kk)],
                                "ClientHello")
        k2 == send_record(k1, "Handshake",
                          <<[t |-> "ClientHello", share |-> k1.priv, random |-> k1.crandom]>>)
    IN  IF k2.ok THEN k2 ELSE fail(k2, 2)

-----------------------------------------------------------------------------
(* The 1.3 handshake.                                                      *)

\* A ServerHello without a key share for the offered group is refused.
handle_server_hello(kk, m) ==
    LET secret == <<kk.priv, m.share>>
    IN  IF m.share = None THEN fail(kk, 2)
        ELSE [kk EXCEPT !.hsecret = secret,
                        !.chs = Key("client", "hs", secret, kk.transcript),
                        !.shs = Key("server", "hs", secret, kk.transcript),
                        !.cseq = 0, !.sseq = 0]

handle_certificate(kk, m) ==
    IF Len(m.chain) \notin 1..CHAIN_CAP THEN fail(kk, 4) ELSE [kk EXCEPT !.chain = m.chain]

\* The signature is the leaf's, over the transcript up to the certificate.
verify_with_chain(kk, m) ==
    chain_and_name_ok(kk) /\ m.by = Head(kk.chain).key /\ m.th = kk.transcript

handle_certificate_verify(kk, m) ==
    IF verify_with_chain(kk, m) THEN transcript_update(kk, m.t) ELSE fail(kk, 5)

\* The handshake is over if our Finished went out.
over(kk) == IF ~kk.ok THEN fail(kk, 6) ELSE [kk EXCEPT !.cseq = 0, !.phase = "Established"]

\* Mutant: the application keys are derived before the server's Finished is in.
handle_finished_early_keys(kk, m) ==
    IF kk.hsecret = None \/ m.mac # Mac("finished", kk.shs, kk.transcript) THEN fail(kk, 6)
    ELSE LET k1 == [transcript_update(kk, m.t) EXCEPT !.verified = TRUE, !.sseq = 0]
             k2 == [k1 EXCEPT !.cap = Key("client", "ap", kk.hsecret, kk.transcript),
                              !.sap = Key("server", "ap", kk.hsecret, kk.transcript)]
             k3 == send_record(transcript_update(k2, "ClientFinished"), "Handshake",
                       <<[t |-> "ClientFinished",
                          mac |-> Mac("finished", kk.chs, k2.transcript)]>>)
         IN  over(k3)

\* The server's MAC covers the transcript without it, ours the transcript with
\* it.  Our Finished still goes out under the handshake key.
handle_finished(kk, m) ==
    IF kk.hsecret = None \/ m.mac # Mac("finished", kk.shs, kk.transcript) THEN fail(kk, 6)
    ELSE LET k1 == [transcript_update(kk, m.t) EXCEPT !.verified = TRUE, !.sseq = 0]
             k2 == [k1 EXCEPT !.cap = Key("client", "ap", kk.hsecret, k1.transcript),
                              !.sap = Key("server", "ap", kk.hsecret, k1.transcript)]
             k3 == send_record(transcript_update(k2, "ClientFinished"), "Handshake",
                       <<[t |-> "ClientFinished",
                          mac |-> Mac("finished", kk.chs, k2.transcript)]>>)
         IN  over(k3)

handle_handshake13(kk, m) ==
    CASE m.t = "ServerHello" -> handle_server_hello(transcript_update(kk, m.t), m)
      [] m.t = "Certificate" -> handle_certificate(transcript_update(kk, m.t), m)
      [] m.t = "CertificateVerify" -> handle_certificate_verify(kk, m)
      [] m.t = "Finished" -> handle_finished(kk, m)
      [] OTHER -> transcript_update(kk, m.t)

-----------------------------------------------------------------------------
(* The 1.2 handshake.                                                      *)

fail12(kk) == fail(kk, 2)

\* The suite is one of the two offered: a conforming server picks no other.
server_hello12(kk, m) ==
    [kk EXCEPT !.h12.crandom = kk.crandom, !.h12.srandom = m.random]

\* A chain that is not trusted ends the reading of this record, with no fail.
handle_certificate12(kk, m) ==
    LET k1 == handle_certificate(kk, m)
    IN  IF ~k1.go THEN k1 ELSE [k1 EXCEPT !.go = chain_and_name_ok(k1)]

\* The signature covers both randoms and the server's share.
verify_handshake_signature(kk, m) ==
    /\ m.by = Head(kk.chain).key
    /\ m.over = <<kk.h12.crandom, kk.h12.srandom, m.share>>

\* Our half of the exchange is drawn now that the group is known.
generate_keypair(kk) == random_bytes(kk)

server_key_exchange(kk, m) ==
    IF kk.chain = <<>> \/ ~verify_handshake_signature(kk, m) THEN fail12(kk)
    ELSE [kk EXCEPT !.h12.pub = generate_keypair(kk),
                    !.h12.pre = <<generate_keypair(kk), m.share>>]

derive_keys(kk) ==
    LET th == <<kk.h12.crandom, kk.h12.srandom>>
    IN  IF kk.h12.pre = None THEN fail12(kk)
        ELSE [kk EXCEPT !.h12.ckey = Key("client", "12", kk.h12.pre, th),
                        !.h12.skey = Key("server", "12", kk.h12.pre, th),
                        !.step12 = 1]

\* The master secret is what the two write keys are cut from.
finished_verify_data(kk, label) == Mac(label, kk.h12.pre, kk.transcript)

server_finished12(kk, m) ==
    IF m.mac # finished_verify_data(kk, "server finished") THEN fail12(kk)
    ELSE [transcript_update(kk, m.t) EXCEPT !.step12 = 3, !.verified = TRUE,
                                            !.phase = "Established"]

handle_handshake12(kk, m) ==
    LET k1 == transcript_update(kk, m.t)
    IN  CASE m.t = "ServerHello" -> server_hello12(k1, m)
          [] m.t = "Certificate" -> handle_certificate12(k1, m)
          [] m.t = "ServerKeyExchange" -> server_key_exchange(k1, m)
          [] m.t = "CertificateRequest" -> [k1 EXCEPT !.h12.want = TRUE]
          [] m.t = "ServerHelloDone" -> derive_keys(k1)
          [] m.t = "Finished" -> server_finished12(kk, m)
          [] OTHER -> k1

added12(kk) == IF kk.ok THEN transcript_update(kk, "ClientFinished") ELSE fail12(kk)

send_finished12(kk) ==
    added12(send_record(kk, "Handshake",
                        <<[t |-> "ClientFinished",
                           mac |-> finished_verify_data(kk, "client finished")]>>))

client_key_exchange(public) == [t |-> "ClientKeyExchange", share |-> public]

send_certificate12(kk) ==
    IF ~kk.h12.want THEN [kk EXCEPT !.ok = TRUE]
    ELSE send_record(transcript_update(kk, "EmptyCertificate"), "Handshake",
                     <<Msg("EmptyCertificate")>>)

send_key_exchange12(kk) ==
    IF ~kk.ok THEN kk
    ELSE send_record(transcript_update(kk, "ClientKeyExchange"), "Handshake",
                     <<client_key_exchange(kk.h12.pub)>>)

cipher_from_now(kk) == IF kk.ok THEN [kk EXCEPT !.ccipher = TRUE, !.cseq = 0] ELSE kk

send_spec12(kk) == IF ~kk.ok THEN kk ELSE cipher_from_now(send_record(kk, "CCS", <<>>))

finish12(kk) == IF kk.ok THEN send_finished12(kk) ELSE fail12(kk)

\* An empty Certificate if one was asked for, ClientKeyExchange,
\* ChangeCipherSpec, Finished: the first send that fails ends the flight.
send_flight12(kk) == finish12(send_spec12(send_key_exchange12(send_certificate12(kk))))

-----------------------------------------------------------------------------
(* Reading.                                                                *)

\* Only a 1.3 server answers with the supported_versions extension.
server_hello_version(m) == IF m.supported = 13 THEN 13 ELSE 12

\* The first ServerHello decides the version.
with_version(kk, m) ==
    IF m.t = "ServerHello" /\ kk.version = 0
    THEN [kk EXCEPT !.version = server_hello_version(m)] ELSE kk

by_version(kk, m) ==
    IF kk.version = 12 THEN handle_handshake12(kk, m) ELSE handle_handshake13(kk, m)

\* A message that is not whole in its record is refused.
handle_message(kk, m) ==
    IF m.t = "Opaque" THEN fail(kk, 2) ELSE by_version(with_version(kk, m), m)

unless_ended(kk, m) == IF kk.go THEN handle_message(kk, m) ELSE kk

handle_handshake(kk, msgs) ==
    LET after[i \in 0..Len(msgs)] ==
            IF i = 0 THEN [kk EXCEPT !.go = TRUE]
            ELSE unless_ended(after[i - 1], msgs[i])
    IN  after[Len(msgs)]

append_rx(kk, data) ==
    IF Len(kk.rx) >= RX_CAP THEN [kk EXCEPT !.truncated = TRUE]
    ELSE [kk EXCEPT !.rx = @ \o data]

\* One record's content.  An alert of any kind ends the session.
content(kk, kind, body) ==
    CASE kind = "Handshake" -> handle_handshake(kk, body)
      [] kind = "Alert" -> tcp_reset([kk EXCEPT !.phase = "Closed"])
      [] kind = "AppData" -> append_rx(kk, body)
      [] OTHER -> kk

Opens(rec, key, seq) == rec.key = key /\ rec.seq = seq

\* The sequence number advances before the content is looked at: a Finished
\* in it starts the count again.
opened(kk, rec, key) ==
    IF key # None /\ Opens(rec, key, kk.sseq)
    THEN content([kk EXCEPT !.sseq = @ + 1], rec.inner, rec.body)
    ELSE fail(kk, 7)

\* The handshake key is used until the handshake is over.
read_key13(kk) == IF ~established(kk) /\ kk.shs # None THEN kk.shs ELSE kk.sap

handle_record(kk, rec) ==
    IF cipher_spec_for_version(kk) /\ rec.outer = "CCS"
    THEN [kk EXCEPT !.scipher = TRUE, !.sseq = 0]
    ELSE IF cipher_spec_for_version(kk) /\ kk.scipher THEN opened(kk, rec, kk.h12.skey)
    ELSE IF rec.outer = "AppData" /\ ~cipher_spec_for_version(kk)
    THEN opened(kk, rec, read_key13(kk))
    ELSE content(kk, rec.outer, IF rec.key = None THEN rec.body ELSE <<Opaque>>)

\* A handler that resets TCP empties the buffer, which ends the loop.
next_record(kk, rec) == IF kk.buf = <<>> THEN kk ELSE handle_record(kk, rec)

release(kk, n) == IF kk.buf = <<>> THEN kk ELSE [kk EXCEPT !.buf = SubSeq(@, n + 1, Len(@))]

\* Every whole record TCP holds, in order; what was taken is released at the
\* end.
drain_tcp(kk) ==
    LET n == Len(kk.buf) \div 2
        after[i \in 0..n] == IF i = 0 THEN kk ELSE next_record(after[i - 1], kk.buf[2 * i])
    IN  release(after[n], 2 * n)

-----------------------------------------------------------------------------
(* tls::tick.                                                              *)

tick_connecting(kk) ==
    IF kk.tcp = "Established" THEN send_client_hello([kk EXCEPT !.phase = "Handshaking"])
    ELSE IF kk.tcp = "Failed" THEN fail(kk, 1)
    ELSE kk

watch_connection(kk) ==
    IF kk.tcp = "Failed" THEN fail(kk, 6)
    ELSE IF ~established(kk) /\ (kk.tcp = "Closed" \/ kk.peerClosed) THEN fail(kk, 8)
    ELSE kk

unless_failed(kk) == IF kk.phase = "Failed" THEN kk ELSE watch_connection(kk)

after_drain(kk) ==
    IF cipher_spec_for_version(kk) /\ kk.step12 = 1
    THEN unless_failed(send_flight12([kk EXCEPT !.step12 = 2]))
    ELSE watch_connection(kk)

tick_handshaking(kk) == after_drain(drain_tcp(kk))

\* Mutant: the peer's FIN is acted on before what came ahead of it is read.
tick_established_fin_first(kk) ==
    IF kk.peerClosed THEN [kk EXCEPT !.phase = "Closed"] ELSE drain_tcp(kk)

closed_by_peer(kk) == IF kk.peerClosed THEN [kk EXCEPT !.phase = "Closed"] ELSE kk

tick_established(kk) == closed_by_peer(drain_tcp(kk))

tick(kk) ==
    CASE kk.phase = "Connecting" -> tick_connecting(kk)
      [] kk.phase = "Handshaking" -> tick_handshaking(kk)
      [] kk.phase = "Established" -> tick_established(kk)
      [] OTHER -> kk

-----------------------------------------------------------------------------
(* The client's actions.                                                   *)

NoFault == [at |-> 0, kind |-> "none"]
Faults ==
    {NoFault} \cup IF faults < FaultBound THEN [at : 1..4, kind : {"full", "late"}] ELSE {}

\* What a handler sent goes on the wire, after what is there.
Ran(kk) ==
    LET coded == SelectSeq(kk.out, LAMBDA r : r.key # None)
        pairs == {<<r.key, r.seq>> : r \in Range(coded)}
    IN  /\ k' = [kk EXCEPT !.out = <<>>, !.fault = NoFault, !.ok = TRUE, !.go = TRUE]
        /\ up' = up \o kk.out
        /\ sealed' = [pairs |-> sealed.pairs \cup pairs,
                      twice |-> \/ sealed.twice
                                \/ pairs \cap sealed.pairs # {}
                                \/ Cardinality(pairs) < Len(coded)]

NewServer(kind) ==
    [kind |-> kind, id |-> k.conn + 1, stage |-> "hello", tr |-> <<>>, secret |-> None,
     crandom |-> 0, ckey |-> None, cseq |-> 0, wkey |-> None, wseq |-> 0, sent |-> <<>>]

\* tls::start, whatever the last connection was doing.
Start ==
    /\ k.conn < ConnBound
    /\ \E kind \in ServerKinds : sv' = NewServer(kind)
    /\ k' = [reset(k) EXCEPT !.phase = "Connecting", !.tcp = "SynSent", !.conn = @ + 1]
    /\ up' = <<>> /\ down' = <<>>
    /\ asked' = 0
    /\ sealed' = [sealed EXCEPT !.pairs = {}]
    /\ UNCHANGED faults

\* A fault that the handler did not reach is not one.
Reached(kk, fault) == fault.at > 0 => kk.fault.at = 0

Handled(kk, fault) ==
    /\ Reached(kk, fault)
    /\ Ran(kk)
    /\ faults' = faults + (IF fault.at > 0 THEN 1 ELSE 0)

Tick ==
    /\ k.phase \in {"Connecting", "Handshaking", "Established"}
    /\ \E fault \in Faults : Handled(tick([k EXCEPT !.fault = fault]), fault)
    /\ UNCHANGED <<down, sv, asked>>

\* tls::send, called again by the layer above for as long as it says no.
Send ==
    /\ established(k)
    /\ asked < SendBound /\ k.cseq < SeqBound
    /\ \E fault \in {f \in Faults : f.at <= 1} :
          LET k1 == send_record([k EXCEPT !.fault = fault], "AppData", <<asked>>)
          IN  /\ Handled(k1, fault)
              /\ asked' = asked + (IF k1.ok THEN 1 ELSE 0)
    /\ UNCHANGED <<down, sv>>

-----------------------------------------------------------------------------
(* TCP and the network.                                                    *)

Connect ==
    /\ k.tcp = "SynSent"
    /\ k' = [k EXCEPT !.tcp = "Established"]
    /\ UNCHANGED <<up, down, sv, asked, faults, sealed>>

\* The retransmissions run out, or the peer resets the connection.
ConnectionFails ==
    /\ k.tcp \in {"SynSent", "Established"}
    /\ faults < FaultBound
    /\ faults' = faults + 1
    /\ k' = [k EXCEPT !.tcp = "Failed"]
    /\ UNCHANGED <<up, down, sv, asked, sealed>>

\* The next half record, or the FIN, reaches the client's TCP.
Deliver ==
    /\ down # <<>>
    /\ k.tcp = "Established"
    /\ down' = Tail(down)
    /\ k' = IF Head(down).outer = "FIN" THEN [k EXCEPT !.peerClosed = TRUE]
            ELSE [k EXCEPT !.buf = Append(@, Head(down))]
    /\ UNCHANGED <<up, sv, asked, faults, sealed>>

-----------------------------------------------------------------------------
(* The server (external).                                                  *)

SName(s, t) == <<s.id, t>>
SHello(s) ==
    [t |-> "ServerHello", supported |-> IF s.kind.ver = 13 THEN 13 ELSE None, random |-> s.id,
     share |-> IF s.kind.share THEN s.id ELSE None]

\* Messages into records: all in one, one in each, or the second one spread
\* over two records.
Pack(msgs, how) ==
    CASE how = "together" -> <<msgs>>
      [] how = "apart" -> [i \in DOMAIN msgs |-> <<msgs[i]>>]
      [] how = "spread" -> [i \in DOMAIN msgs |-> IF i = 2 THEN <<Opaque>> ELSE <<msgs[i]>>]

\* Records sealed in order under the write key the server has now.
Sealed(s, inner, bodies) ==
    [i \in DOMAIN bodies |->
        Record(IF s.wkey # None /\ s.kind.ver = 13 THEN "AppData" ELSE inner, inner,
               s.wkey, IF s.wkey = None THEN 0 ELSE s.wseq + i - 1, bodies[i])]

\* Each record travels as two halves.
Halves(recs) == [i \in 1..2 * Len(recs) |-> recs[(i + 1) \div 2]]

\* The 1.3 server: hello in clear, the rest of its flight under its handshake
\* key, and from then on its application key.
Flight13(s, ch) ==
    LET secret == <<ch.share, s.id>>
        tr0 == <<SName(s, "ClientHello"), SName(s, "ServerHello")>>
        tr1 == tr0 \o <<SName(s, "EncryptedExtensions"), SName(s, "Certificate")>>
        tr2 == Append(tr1, SName(s, "CertificateVerify"))
        tr3 == Append(tr2, SName(s, "Finished"))
        shs == Key("server", "hs", secret, tr0)
        msgs == <<Msg("EncryptedExtensions"),
                  [t |-> "Certificate", chain |-> s.kind.chain],
                  [t |-> "CertificateVerify", by |-> s.kind.key, th |-> tr1],
                  [t |-> "Finished", mac |-> Mac("finished", shs, tr2)]>>
    IN  [recs |-> Sealed(s, "Handshake", <<<<SHello(s)>>>>)
                     \o (IF s.kind.extra THEN Sealed(s, "CCS", <<<<>>>>) ELSE <<>>)
                     \o (IF s.kind.share
                         THEN Sealed([s EXCEPT !.wkey = shs], "Handshake",
                                     Pack(msgs, s.kind.pack))
                         ELSE <<>>),
         next |-> [s EXCEPT !.tr = tr3, !.stage = "finish", !.secret = secret,
                            !.ckey = Key("client", "hs", secret, tr0), !.cseq = 0,
                            !.wkey = Key("server", "ap", secret, tr3)]]

\* The 1.2 server: everything up to ServerHelloDone in clear.
Flight12(s, ch) ==
    LET ask == IF s.kind.extra THEN <<Msg("CertificateRequest")>> ELSE <<>>
        msgs == <<SHello(s), [t |-> "Certificate", chain |-> s.kind.chain],
                  [t |-> "ServerKeyExchange", by |-> s.kind.key, share |-> s.id,
                   over |-> <<ch.random, s.id, s.id>>]>> \o ask \o <<Msg("ServerHelloDone")>>
    IN  [recs |-> Sealed(s, "Handshake", Pack(msgs, s.kind.pack)),
         next |-> [s EXCEPT !.tr = <<SName(s, "ClientHello")>>
                                     \o [i \in DOMAIN msgs |-> SName(s, msgs[i].t)],
                            !.crandom = ch.random,
                            !.stage = IF s.kind.extra THEN "certificate" ELSE "exchange"]]

\* The 1.2 server's ChangeCipherSpec and Finished.
Reply12(s) ==
    LET s1 == [s EXCEPT !.wkey = Key("server", "12", s.secret, <<s.crandom, s.id>>)]
        fin == [t |-> "Finished", mac |-> Mac("server finished", s.secret, s.tr)]
    IN  [recs |-> Sealed(s, "CCS", <<<<>>>>) \o Sealed(s1, "Handshake", <<<<fin>>>>),
         next |-> [s1 EXCEPT !.wseq = 1, !.stage = "open",
                             !.tr = Append(@, SName(s, "Finished"))]]

\* The 1.3 server's session ticket.
Ticket(s) ==
    IF s.kind.extra
    THEN [recs |-> Sealed(s, "Handshake", <<<<Msg("NewSessionTicket")>>>>),
          next |-> [s EXCEPT !.stage = "open", !.wseq = 1]]
    ELSE [recs |-> <<>>, next |-> [s EXCEPT !.stage = "open"]]

Reading(s, ms) ==
    LET noted == [s EXCEPT !.tr = Append(@, SName(s, ms.t))]
    IN  CASE s.stage = "certificate" -> [recs |-> <<>>, next |-> [noted EXCEPT !.stage = "exchange"]]
          [] s.stage = "exchange" ->
                LET secret == <<ms.share, s.id>>
                IN  [recs |-> <<>>,
                     next |-> [noted EXCEPT !.stage = "spec", !.secret = secret,
                                  !.ckey = Key("client", "12", secret, <<s.crandom, s.id>>)]]
          [] s.stage = "finish" /\ s.kind.ver = 12 -> Reply12([noted EXCEPT !.cseq = 1])
          [] s.stage = "finish" /\ s.kind.ver = 13 ->
                Ticket([noted EXCEPT !.cseq = 0,
                                     !.ckey = Key("client", "ap", s.secret, s.tr)])

\* What the server needs the next record to be, so as not to end the session.
Acceptable(s, r) ==
    LET clear == r.key = None /\ r.inner = "Handshake"
        closed == r.key = s.ckey /\ r.seq = s.cseq
    IN  CASE s.stage = "hello" -> clear /\ r.body[1].t = "ClientHello"
          [] s.stage = "certificate" -> clear /\ r.body[1].t = "EmptyCertificate"
          [] s.stage = "exchange" -> clear /\ r.body[1].t = "ClientKeyExchange"
          [] s.stage = "spec" -> r.key = None /\ r.inner = "CCS"
          [] s.stage = "finish" ->
                /\ closed /\ r.inner = "Handshake" /\ r.body[1].t = "ClientFinished"
                /\ r.body[1].mac = IF s.kind.ver = 12
                                   THEN Mac("client finished", s.secret, s.tr)
                                   ELSE Mac("finished", s.ckey, s.tr)
          [] s.stage = "open" -> closed /\ r.inner = "AppData"

ServerReads ==
    /\ up # <<>>
    /\ sv.stage \notin {"closed", "refused"}
    /\ LET r == Head(up)
           a == IF sv.stage = "hello"
                THEN IF sv.kind.ver = 13 THEN Flight13(sv, r.body[1]) ELSE Flight12(sv, r.body[1])
                ELSE IF sv.stage = "spec"
                THEN [recs |-> <<>>, next |-> [sv EXCEPT !.stage = "finish", !.cseq = 0]]
                ELSE IF sv.stage = "open"
                THEN [recs |-> <<>>, next |-> [sv EXCEPT !.cseq = @ + 1]]
                ELSE Reading(sv, r.body[1])
       IN  IF Acceptable(sv, r)
           THEN sv' = a.next /\ down' = down \o Halves(a.recs)
           ELSE sv' = [sv EXCEPT !.stage = "refused"] /\ UNCHANGED down
    /\ up' = Tail(up)
    /\ UNCHANGED <<k, asked, faults, sealed>>

ServerSends ==
    /\ sv.stage = "open"
    /\ Len(sv.sent) < DataBound
    /\ LET d == <<sv.id, Len(sv.sent)>>
       IN  /\ down' = down \o Halves(Sealed(sv, "AppData", <<<<d>>>>))
           /\ sv' = [sv EXCEPT !.sent = Append(@, d), !.wseq = @ + 1]
    /\ UNCHANGED <<k, up, asked, faults, sealed>>

\* The server ends the connection, with an alert or without one.
ServerCloses ==
    /\ sv.stage \notin {"closed", "refused"}
    /\ \E bye \in {Sealed(sv, "Alert", <<<<>>>>), <<>>} :
          down' = down \o Halves(bye) \o <<Record("FIN", "FIN", None, 0, <<>>)>>
    /\ sv' = [sv EXCEPT !.stage = "closed"]
    /\ UNCHANGED <<k, up, asked, faults, sealed>>

-----------------------------------------------------------------------------

Init ==
    /\ k = [phase |-> "Idle", err |-> 0, verified |-> FALSE, rx |-> <<>>, truncated |-> FALSE,
            chain |-> <<>>, cseq |-> 0, sseq |-> 0, transcript |-> <<>>, chs |-> None,
            shs |-> None, cap |-> None, sap |-> None, hsecret |-> None, priv |-> 0,
            crandom |-> 0, h12 |-> NoHandshake12, version |-> 0, step12 |-> 0,
            ccipher |-> FALSE, scipher |-> FALSE, conn |-> 0, tcp |-> "Closed", buf |-> <<>>,
            peerClosed |-> FALSE, ok |-> TRUE, go |-> TRUE, out |-> <<>>, fault |-> NoFault]
    /\ up = <<>> /\ down = <<>>
    /\ sv = [stage |-> "closed"]
    /\ asked = 0 /\ faults = 0
    /\ sealed = [pairs |-> {}, twice |-> FALSE]

Next ==
    \/ Start \/ Tick \/ Send
    \/ Connect \/ ConnectionFails \/ Deliver
    \/ ServerReads \/ ServerSends \/ ServerCloses

Spec == Init /\ [][Next]_vars

-----------------------------------------------------------------------------
(* Properties.                                                             *)

Phases == {"Idle", "Connecting", "Handshaking", "Established", "Closed", "Failed"}

\* The statics keep their ranges, and the chain fits its buffer.
TypeOK ==
    /\ k.phase \in Phases
    /\ k.err \in 0..8
    /\ k.version \in {0, 12, 13}
    /\ k.step12 \in 0..3
    /\ k.cseq \in Nat /\ k.sseq \in Nat
    /\ Len(k.chain) <= CHAIN_CAP
    /\ k.out = <<>> /\ k.fault = NoFault

\* Every record the client sends is one a conforming server can open and was
\* waiting for: the keys, the sequence numbers and the transcript under the
\* Finished never drift apart from the server's, over any number of
\* connections, as long as tcp::send never refused a record.
InStep == sv.stage = "refused" => faults > 0

\* A handshake with a conforming server fails only because the server went
\* away, its certificate does not verify or its chain does not fit, it will not
\* use the group that was offered, or it spread a message over two records.
GoodServerAccepted ==
    k.phase = "Failed" /\ faults = 0 =>
        \/ sv.stage = "closed"
        \/ ~sv.kind.genuine
        \/ ~sv.kind.share
        \/ sv.kind.pack = "spread"
        \/ Len(sv.kind.chain) > CHAIN_CAP

\* When the client calls the session established, both ends have hashed the
\* same messages and hold the same keys.
Agreed ==
    established(k) =>
        /\ k.version = sv.kind.ver
        /\ IsPrefix(sv.tr, k.transcript)
        /\ sv.wkey = IF k.version = 12 THEN k.h12.skey ELSE k.sap

\* A TLS 1.3 session is established only with a server whose certificate
\* chain leads to a stored root and names the host.
Genuine13 == established(k) /\ k.version = 13 => sv.kind.genuine

\* What the layer above reads is what this connection's server sent, from the
\* start, with nothing missing, repeated or left over from before.
InOrder == k.phase # "Idle" => IsPrefix(k.rx, sv.sent)

\* A session that ended without an error delivered everything, or says that
\* it did not.
ClosedMeansAll == k.phase = "Closed" => k.truncated \/ k.rx = sv.sent

\* No two records are sealed under the same key and sequence number.
NonceOnce == ~sealed.twice

\* The client's sealing stays in step with the server's opening and uses no
\* nonce twice, over any number of connections (send_record, send_record12,
\* reset).
SealedInStep == InStep /\ NonceOnce

\* A session comes about with a server of the right kind, and with every such
\* server, and then the two agree (handle_handshake, handle_finished).
SessionAgreed == GoodServerAccepted /\ Agreed /\ Genuine13

\* What the layer above reads is the server's stream from the start, and all of
\* it once the session has closed without saying otherwise (drain_tcp, tick).
StreamWhole == TypeOK /\ InOrder /\ ClosedMeansAll
=============================================================================
