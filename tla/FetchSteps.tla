---------------------------- MODULE FetchSteps ------------------------------
(***************************************************************************)
(* What the handlers of the fetch do, for any sites, names, servers,       *)
(* deadlines and retry limits.                                             *)
(*                                                                         *)
(* A handler is an operator on the kernel, so for each operator a lemma    *)
(* says what it makes of a kernel that is Steady and Staged, from          *)
(* tcp_reset up to http::tick and what may arrive.  Steady(kk, c) ties     *)
(* together what the fetch, the TLS session, the connection and the        *)
(* resolver hold; c says that another program's lookup has met the fetch,  *)
(* and weakens only what is then not true.  Staged says which of their     *)
(* states go with which phase.  The two are not inductive in one: inside a *)
(* tick, a kernel may be Steady and between two stages.                    *)
(***************************************************************************)
EXTENDS Fetch, TLAPS

\* The fields of the kernel.

Fields ==
  {"dns", "name", "result", "tries", "due", "tcp", "addr", "tport", "reqs", "rx", "peerClosed", "shake",
   "session", "late", "told", "phase", "err", "hops", "tls", "host", "port", "path", "remote", "sent",
   "parsed", "declared", "loc", "since", "echo"}

Kernel(kk) == DOMAIN kk = Fields

\* The flags, as values: the provers keep formulas and values apart.
On(x) == x = TRUE
Off(x) == x = FALSE
Flag(x) == On(x) \/ Off(x)

LEMMA Flags ==
  /\ On(TRUE) /\ Off(FALSE) /\ ~ On(FALSE) /\ ~ Off(TRUE)
  /\ \A x : ~ (On(x) /\ Off(x))
  /\ \A x : On(x) \/ Off(x) <=> x \in BOOLEAN
  /\ \A x : On(x) => x
  /\ \A x : Off(x) => ~ x
BY Zenon DEF On, Off

\* What an operator leaves alone.
SameResolver(r, kk) ==
  r.dns = kk.dns /\ r.name = kk.name /\ r.result = kk.result /\ r.tries = kk.tries

SameConnection(r, kk) ==
  /\ r.tcp = kk.tcp /\ r.addr = kk.addr /\ r.tport = kk.tport /\ r.reqs = kk.reqs /\ r.rx = kk.rx
  /\ r.peerClosed = kk.peerClosed /\ r.shake = kk.shake

SameRequest(r, kk) ==
  r.hops = kk.hops /\ r.tls = kk.tls /\ r.host = kk.host /\ r.port = kk.port /\ r.path = kk.path

SameProgress(r, kk) ==
  /\ r.phase = kk.phase /\ r.err = kk.err /\ r.sent = kk.sent /\ r.parsed = kk.parsed
  /\ r.declared = kk.declared /\ r.loc = kk.loc /\ r.since = kk.since

\* The connection as tcp_reset leaves it.
Fresh(r) ==
  /\ r.tcp = "Closed" /\ r.addr = None /\ r.tport = 0 /\ r.reqs = 0 /\ r.rx = 0
  /\ Off(r.peerClosed) /\ r.shake = "no"


(* The kernel's part of the invariant; c says the fetch has been crossed.    *)
Typed(kk) ==
  /\ kk.phase \in {"Idle", "Resolving", "Connecting", "Sending", "Receiving", "Done", "Failed"}
  /\ kk.session \in {"Idle", "Connecting", "Handshaking", "Established", "Closed", "Failed"}
  /\ kk.dns \in {"idle", "waiting", "answered", "failed"}
  /\ kk.tcp \in {"Closed", "SynSent", "Established", "FinWait", "FinSent", "Failed"}
  /\ kk.err \in 0..8 /\ kk.hops \in 0..(MAX_HOPS + 1) /\ kk.since \in -1..(DEADLINE + 1)
  /\ kk.tries \in 0..DNS_ATTEMPTS /\ kk.rx \in 0..3 /\ kk.reqs \in Nat
  /\ Flag(kk.tls) /\ Flag(kk.parsed) /\ Flag(kk.peerClosed)
  /\ kk.dns = "waiting" => kk.tries < DNS_ATTEMPTS
  /\ in_progress(kk) => kk.hops <= MAX_HOPS

\* The states of the session and of the connection that go with a phase.
Staged(kk) ==
  /\ kk.phase = "Resolving" => Off(kk.tls)
  /\ kk.phase = "Connecting" /\ Off(kk.tls) => kk.tcp \notin {"Closed", "FinWait"}
  /\ kk.phase = "Connecting" /\ On(kk.tls) => kk.session \in {"Connecting", "Handshaking"}
  /\ kk.phase \in {"Sending", "Receiving"} /\ On(kk.tls) => kk.session \in {"Established", "Closed"}
  /\ kk.phase = "Receiving" => kk.reqs >= 1

\* The resolver's answer is the one for its name.
Answering(kk) ==
  /\ kk.dns \in {"waiting", "answered"} => kk.name \in DOMAIN AddrOf
  /\ kk.dns = "answered" => kk.result = AddrOf[kk.name]

\* Foreign, with the flags as values.
Stray(kk) ==
  /\ in_progress(kk)
  /\ kk.phase = "Resolving" \/ (On(kk.tls) /\ kk.session = "Connecting")
  /\ kk.dns \in {"waiting", "answered"}
  /\ kk.name # kk.host

\* The connection goes where the fetch was told to, unless it was crossed.
Resolved(kk, c) ==
  /\ Stray(kk) => On(c)
  /\ in_progress(kk) /\ kk.addr # None /\ ~ On(c) => kk.addr = AddrOf[kk.host] /\ kk.tport = kk.port

\* Only a server that listens has been spoken to.
Wired(kk) ==
  /\ kk.addr \in Addresses \cup {None}
  /\ kk.reqs >= 1 => kk.tcp # "SynSent"
  /\ kk.reqs >= 1 \/ kk.tcp = "Established" => <<kk.addr, kk.tport>> \in Listeners
  /\ On(kk.peerClosed) => kk.tcp \notin {"SynSent", "Established"}

\* What the fetch knows of the resource; a redirect is followed as soon as it is read.
Sited(kk, c) ==
  /\ in_progress(kk) => kk.host \in DOMAIN AddrOf /\ kk.path \in Paths /\ kk.loc = None
  /\ in_progress(kk) /\ On(kk.tls) /\ kk.session = "Closed" => On(kk.peerClosed)
  /\ kk.phase = "Done" => kk.tcp \notin {"SynSent", "Established"}
  /\ in_progress(kk) /\ On(kk.parsed) /\ ~ On(c) => Site[<<kk.host, kk.path>>].loc = None

Steady(kk, c) ==
  Kernel(kk) /\ Typed(kk) /\ Answering(kk) /\ Resolved(kk, c) /\ Wired(kk) /\ Sited(kk, c)

\* What is left to show of a kernel made from one with its types, where the resolver
\* and the request stay.
LEMMA TypedAgain ==
  ASSUME NEW kk, NEW r, Typed(kk), SameResolver(r, kk), SameRequest(r, kk),
         r.phase \in {"Idle", "Resolving", "Connecting", "Sending", "Receiving", "Done", "Failed"},
         r.session \in {"Idle", "Connecting", "Handshaking", "Established", "Closed", "Failed"},
         r.tcp \in {"Closed", "SynSent", "Established", "FinWait", "FinSent", "Failed"},
         r.err \in 0..8, r.since = kk.since, r.parsed = kk.parsed, r.rx \in 0..3, r.reqs \in Nat,
         Flag(r.peerClosed), in_progress(r) => in_progress(kk)
  PROVE  Typed(r)
BY Zenon DEF Typed, SameResolver, SameRequest

LEMMA ResetIs ==
  ASSUME NEW kk, Kernel(kk), NEW r, r = tcp_reset(kk)
  PROVE  /\ Kernel(r) /\ Fresh(r) /\ SameResolver(r, kk) /\ SameRequest(r, kk) /\ SameProgress(r, kk)
         /\ r.session = kk.session /\ r.echo = kk.echo
<1>1. r.peerClosed = FALSE
  BY DEF tcp_reset, Kernel, Fields
<1>2. Off(r.peerClosed)
  BY Zenon, <1>1, Flags
<1> QED
  <2>1. /\ Kernel(r) /\ SameResolver(r, kk) /\ SameRequest(r, kk) /\ SameProgress(r, kk)
        /\ r.session = kk.session /\ r.echo = kk.echo
    BY DEF tcp_reset, Kernel, Fields, SameResolver, SameRequest, SameProgress
  <2>2. /\ r.tcp = "Closed" /\ r.addr = None /\ r.tport = 0 /\ r.reqs = 0 /\ r.rx = 0 /\ r.shake = "no"
    BY DEF tcp_reset, Kernel, Fields
  <2> QED
    BY Zenon, <1>2, <2>1, <2>2 DEF Fresh

LEMMA ConnectIs ==
  ASSUME NEW kk, Kernel(kk), NEW a, NEW p, NEW r, r = tcp_connect(kk, a, p)
  PROVE  /\ Kernel(r) /\ r.tcp = "SynSent" /\ r.addr = a /\ r.tport = p /\ r.reqs = 0 /\ r.rx = 0
         /\ Off(r.peerClosed)
         /\ SameResolver(r, kk) /\ SameRequest(r, kk) /\ SameProgress(r, kk)
         /\ r.session = kk.session /\ r.echo = kk.echo
<1>1. PICK q : q = tcp_reset(kk)
  OBVIOUS
<1>2. Kernel(q) /\ Fresh(q) /\ SameResolver(q, kk) /\ SameRequest(q, kk) /\ SameProgress(q, kk)
      /\ q.session = kk.session /\ q.echo = kk.echo
  BY <1>1, ResetIs
<1>3. r = [q EXCEPT !.tcp = "SynSent", !.addr = a, !.tport = p]
  BY Zenon, <1>1 DEF tcp_connect
<1> QED
  BY <1>2, <1>3 DEF Kernel, Fields, Fresh, SameResolver, SameRequest, SameProgress

LEMMA DnsStartIs ==
  ASSUME NEW kk, Kernel(kk), NEW h, HasDns, NEW r, r = dns_start(kk, h)
  PROVE  /\ Kernel(r) /\ r.dns = "waiting" /\ r.name = h /\ r.tries = 0
         /\ SameConnection(r, kk) /\ SameRequest(r, kk) /\ SameProgress(r, kk)
         /\ r.session = kk.session /\ r.echo = kk.echo
BY DEF dns_start, Kernel, Fields, SameConnection, SameRequest, SameProgress

LEMMA TlsStartIs ==
  ASSUME NEW kk, Kernel(kk), NEW h, NEW p, NEW r, r = tls_start(kk, h, p)
  PROVE  /\ Kernel(r) /\ SameRequest(r, kk) /\ SameProgress(r, kk) /\ r.echo = kk.echo
         /\ r.reqs = 0 /\ r.rx = 0 /\ Off(r.peerClosed)
         /\ \/ /\ h \in Literals /\ r.session = "Connecting" /\ SameResolver(r, kk)
               /\ r.tcp = "SynSent" /\ r.addr = AddrOf[h] /\ r.tport = p
            \/ /\ r.session = "Connecting" /\ Fresh(r)
               /\ r.dns = "waiting" /\ r.name = h /\ r.tries = 0
            \/ r.session = "Failed" /\ Fresh(r) /\ SameResolver(r, kk)
<1>1. PICK q : q = [kk EXCEPT !.session = "Idle"]
  BY Zenon
<1>2. /\ Kernel(q) /\ SameResolver(q, kk) /\ SameRequest(q, kk) /\ SameProgress(q, kk) /\ q.echo = kk.echo
  BY <1>1 DEF Kernel, Fields, SameResolver, SameRequest, SameProgress
<1>3. PICK kr : kr = tcp_reset(q)
  OBVIOUS
<1>4. /\ Kernel(kr) /\ Fresh(kr) /\ SameResolver(kr, q) /\ SameRequest(kr, q) /\ SameProgress(kr, q)
      /\ kr.echo = q.echo
  BY <1>2, <1>3, ResetIs
<1>5. PICK kc : kc = [kr EXCEPT !.session = "Connecting"]
  BY Zenon
<1>6. /\ Kernel(kc) /\ Fresh(kc) /\ SameResolver(kc, kk) /\ SameRequest(kc, kk) /\ SameProgress(kc, kk)
      /\ kc.echo = kk.echo /\ kc.session = "Connecting"
  BY <1>2, <1>4, <1>5 DEF Kernel, Fields, Fresh, SameResolver, SameRequest, SameProgress
<1>7. r = IF h \in Literals THEN tcp_connect(kc, AddrOf[h], p)
          ELSE IF ~HasDns THEN [kr EXCEPT !.session = "Failed"]
          ELSE dns_start(kc, h)
  BY Zenon, <1>1, <1>3, <1>5 DEF tls_start
<1>8. CASE h \in Literals
  <2>1. /\ Kernel(r) /\ r.tcp = "SynSent" /\ r.addr = AddrOf[h] /\ r.tport = p /\ r.reqs = 0 /\ r.rx = 0
        /\ Off(r.peerClosed) /\ SameResolver(r, kc) /\ SameRequest(r, kc) /\ SameProgress(r, kc)
        /\ r.session = kc.session /\ r.echo = kc.echo
    BY <1>6, <1>7, <1>8, ConnectIs
  <2> QED
    BY <1>6, <1>8, <2>1 DEF SameResolver, SameRequest, SameProgress
<1>9. CASE h \notin Literals /\ ~ HasDns
  BY <1>2, <1>4, <1>7, <1>9 DEF Kernel, Fields, Fresh, SameResolver, SameRequest, SameProgress
<1>10. CASE h \notin Literals /\ HasDns
  <2>1. /\ Kernel(r) /\ r.dns = "waiting" /\ r.name = h /\ r.tries = 0
        /\ SameConnection(r, kc) /\ SameRequest(r, kc) /\ SameProgress(r, kc)
        /\ r.session = kc.session /\ r.echo = kc.echo
    BY <1>6, <1>7, <1>10, DnsStartIs
  <2> QED
    BY <1>6, <2>1 DEF SameConnection, SameRequest, SameProgress, Fresh
<1> QED
  BY Zenon, <1>8, <1>9, <1>10

LEMMA FailIs ==
  ASSUME NEW kk, Kernel(kk), NEW n, NEW r, r = http_fail(kk, n)
  PROVE  /\ Kernel(r) /\ r.phase = "Failed" /\ r.err = n
         /\ SameResolver(r, kk) /\ SameConnection(r, kk) /\ SameRequest(r, kk)
         /\ r.session = kk.session /\ r.echo = kk.echo /\ r.since = kk.since
         /\ r.sent = kk.sent /\ r.parsed = kk.parsed /\ r.declared = kk.declared /\ r.loc = kk.loc
BY DEF http_fail, Kernel, Fields, SameResolver, SameConnection, SameRequest

Unsent(r) == Off(r.parsed) /\ Off(r.sent) /\ Off(r.declared) /\ r.loc = None /\ r.since = -1

LEMMA ClearedIs ==
  ASSUME NEW kk, Kernel(kk), NEW r, r = Cleared(kk)
  PROVE  /\ Kernel(r) /\ Fresh(r) /\ SameResolver(r, kk) /\ SameRequest(r, kk) /\ Unsent(r)
         /\ r.err = 0 /\ r.session = kk.session /\ r.echo = kk.echo
<1>1. PICK q : q = tcp_reset(kk)
  OBVIOUS
<1>2. Kernel(q) /\ Fresh(q) /\ SameResolver(q, kk) /\ SameRequest(q, kk)
      /\ q.session = kk.session /\ q.echo = kk.echo
  BY <1>1, ResetIs
<1>3. r = [q EXCEPT !.phase = "Idle", !.err = 0, !.parsed = FALSE, !.sent = FALSE,
                    !.declared = FALSE, !.loc = None, !.since = -1]
  BY Zenon, <1>1 DEF Cleared
<1>4. r.parsed = FALSE /\ r.sent = FALSE /\ r.declared = FALSE
  BY <1>2, <1>3 DEF Kernel, Fields
<1>5. Off(r.parsed) /\ Off(r.sent) /\ Off(r.declared)
  BY Zenon, <1>4, Flags
<1>6. /\ Kernel(r) /\ r.err = 0 /\ r.loc = None /\ r.since = -1
      /\ r.session = kk.session /\ r.echo = kk.echo
  BY <1>2, <1>3 DEF Kernel, Fields
<1>7. Fresh(r) /\ SameResolver(r, kk) /\ SameRequest(r, kk)
  BY <1>2, <1>3 DEF Kernel, Fields, Fresh, SameResolver, SameRequest
<1> QED
  BY <1>5, <1>6, <1>7 DEF Unsent

\* What begin leaves: a fetch that failed at once, or one that waits for its
\* connection or for the resolver.
Asked(r, u) == u.host # None /\ r.host = u.host /\ r.path = u.path /\ r.port = PortOf(u) /\ r.err = 0

Begun(r, kk, u) ==
  /\ Kernel(r) /\ r.hops = kk.hops /\ r.echo = kk.echo /\ Unsent(r) /\ r.reqs = 0 /\ r.rx = 0
  /\ Off(r.peerClosed) /\ Flag(r.tls) /\ (On(r.tls) <=> u.scheme # "http")
  /\ \/ /\ r.phase = "Failed" /\ r.err \in {1, 2, 4} /\ Fresh(r) /\ SameResolver(r, kk)
        /\ r.session \in {kk.session, "Failed"}
     \/ /\ Asked(r, u) /\ r.phase = "Connecting" /\ SameResolver(r, kk)
        /\ IF On(r.tls) THEN r.session = "Connecting" ELSE r.session = kk.session
        /\ r.tcp = "SynSent" /\ r.addr = AddrOf[u.host] /\ r.tport = PortOf(u)
     \/ /\ Asked(r, u) /\ r.dns = "waiting" /\ r.name = u.host /\ r.tries = 0 /\ Fresh(r)
        /\ IF On(r.tls) THEN r.phase = "Connecting" /\ r.session = "Connecting"
                    ELSE r.phase = "Resolving" /\ r.session = kk.session

LEMMA BeginIs ==
  ASSUME NEW kk, Kernel(kk), NEW u, NEW r, r = begin(kk, u)
  PROVE  Begun(r, kk, u)
<1> DEFINE q == Cleared(kk)
           k1 == [q EXCEPT !.tls = u.scheme # "http"]
           k2 == [k1 EXCEPT !.host = u.host, !.path = u.path, !.port = PortOf(u)]
           kc == [k2 EXCEPT !.phase = "Connecting"]
           kd == [k2 EXCEPT !.phase = "Resolving"]
           ks == tls_start(kc, u.host, k2.port)
<1>1. r = IF u.host = None THEN http_fail(k1, 1)
           ELSE IF k2.tls THEN IF ks.session = "Failed" THEN http_fail(ks, 4) ELSE ks
           ELSE IF u.host \in Literals THEN begin_connect(kc, AddrOf[u.host])
           ELSE IF ~HasDns THEN http_fail(k2, 2)
           ELSE dns_start(kd, u.host)
  BY Zenon DEF begin
<1>2. q = Cleared(kk)
  OBVIOUS
<1>3. k1 = [q EXCEPT !.tls = u.scheme # "http"]
  BY Zenon
<1>4. k2 = [k1 EXCEPT !.host = u.host, !.path = u.path, !.port = PortOf(u)]
  BY Zenon
<1>5. kc = [k2 EXCEPT !.phase = "Connecting"]
  BY Zenon
<1>6. kd = [k2 EXCEPT !.phase = "Resolving"]
  BY Zenon
<1>7. ks = tls_start(kc, u.host, k2.port)
  OBVIOUS
<1> HIDE DEF q, k1, k2, kc, kd, ks
<1>8. /\ Kernel(q) /\ Fresh(q) /\ SameResolver(q, kk) /\ SameRequest(q, kk) /\ Unsent(q)
      /\ q.err = 0 /\ q.session = kk.session /\ q.echo = kk.echo
  BY <1>2, ClearedIs
<1>9. Flag(k1.tls) /\ (On(k1.tls) <=> u.scheme # "http")
  <2>1. k1.tls = (u.scheme # "http")
    BY <1>8, <1>3 DEF Kernel, Fields
  <2> QED
    BY Zenon, <2>1 DEF Flag, On, Off
<1>10. /\ Kernel(k1) /\ Fresh(k1) /\ SameResolver(k1, kk) /\ Unsent(k1) /\ k1.hops = kk.hops
      /\ Flag(k1.tls) /\ (On(k1.tls) <=> u.scheme # "http") /\ k1.session = kk.session /\ k1.echo = kk.echo /\ k1.err = 0
  BY <1>9, <1>8, <1>3 DEF Kernel, Fields, Fresh, SameResolver, SameRequest, Unsent
<1>11. /\ Kernel(k2) /\ Fresh(k2) /\ SameResolver(k2, kk) /\ Unsent(k2) /\ k2.hops = kk.hops
      /\ Flag(k2.tls) /\ (On(k2.tls) <=> u.scheme # "http") /\ k2.session = kk.session /\ k2.echo = kk.echo /\ k2.err = 0
      /\ k2.host = u.host /\ k2.path = u.path /\ k2.port = PortOf(u)
  BY <1>4, <1>10 DEF Kernel, Fields, Fresh, SameResolver, Unsent
<1>12. /\ Kernel(kc) /\ Fresh(kc) /\ SameResolver(kc, kk) /\ Unsent(kc) /\ kc.hops = kk.hops
      /\ Flag(kc.tls) /\ (On(kc.tls) <=> u.scheme # "http") /\ kc.session = kk.session /\ kc.echo = kk.echo /\ kc.err = 0
      /\ kc.host = u.host /\ kc.path = u.path /\ kc.port = PortOf(u) /\ kc.phase = "Connecting"
  BY <1>5, <1>11 DEF Kernel, Fields, Fresh, SameResolver, Unsent
<1>13. /\ Kernel(kd) /\ Fresh(kd) /\ Unsent(kd) /\ kd.hops = kk.hops
      /\ Flag(kd.tls) /\ (On(kd.tls) <=> u.scheme # "http") /\ kd.session = kk.session /\ kd.echo = kk.echo /\ kd.err = 0
      /\ kd.host = u.host /\ kd.path = u.path /\ kd.port = PortOf(u) /\ kd.phase = "Resolving"
  BY <1>6, <1>11 DEF Kernel, Fields, Fresh, SameResolver, Unsent
<1>14. CASE u.host = None
  <2>1. r = http_fail(k1, 1)
    BY Zenon, <1>1, <1>14
  <2>2. /\ Kernel(r) /\ r.phase = "Failed" /\ r.err = 1
        /\ SameResolver(r, k1) /\ SameConnection(r, k1) /\ SameRequest(r, k1)
        /\ r.session = k1.session /\ r.echo = k1.echo /\ r.since = k1.since
        /\ r.sent = k1.sent /\ r.parsed = k1.parsed /\ r.declared = k1.declared /\ r.loc = k1.loc
    BY <1>10, <2>1, FailIs
  <2> QED
    BY <1>10, <2>2 DEF Begun, Fresh, Unsent, SameResolver, SameConnection, SameRequest
<1>15. CASE u.host # None /\ On(k2.tls)
  <2>1. /\ Kernel(ks) /\ SameRequest(ks, kc) /\ SameProgress(ks, kc) /\ ks.echo = kc.echo
        /\ ks.reqs = 0 /\ ks.rx = 0 /\ Off(ks.peerClosed)
        /\ \/ /\ u.host \in Literals /\ ks.session = "Connecting" /\ SameResolver(ks, kc)
              /\ ks.tcp = "SynSent" /\ ks.addr = AddrOf[u.host] /\ ks.tport = k2.port
           \/ /\ ks.session = "Connecting" /\ Fresh(ks)
              /\ ks.dns = "waiting" /\ ks.name = u.host /\ ks.tries = 0
           \/ ks.session = "Failed" /\ Fresh(ks) /\ SameResolver(ks, kc)
    BY <1>12, <1>7, TlsStartIs
  <2>2. CASE ks.session = "Failed"
    <3>1. r = http_fail(ks, 4)
      BY Zenon, <1>1, <1>15, <2>2 DEF On
    <3>2. /\ Kernel(r) /\ r.phase = "Failed" /\ r.err = 4
          /\ SameResolver(r, ks) /\ SameConnection(r, ks) /\ SameRequest(r, ks)
          /\ r.session = ks.session /\ r.echo = ks.echo /\ r.since = ks.since
          /\ r.sent = ks.sent /\ r.parsed = ks.parsed /\ r.declared = ks.declared /\ r.loc = ks.loc
      BY <2>1, <3>1, FailIs
    <3> QED
      BY <1>12, <2>1, <2>2, <3>2 DEF Begun, Fresh, Unsent, SameResolver, SameConnection, SameRequest, SameProgress
  <2>3. CASE ks.session # "Failed"
    <3>1. r = ks
      BY Zenon, <1>1, <1>15, <2>3 DEF On
    <3> QED
      BY Zenon, <1>11, <1>12, <1>15, <2>1, <2>3, <3>1 DEF Begun, Asked, Unsent, SameResolver, SameRequest, SameProgress
  <2> QED
    BY Zenon, <2>2, <2>3
<1>16. CASE u.host # None /\ Off(k2.tls) /\ u.host \in Literals
  <2>1. r = tcp_connect(kc, AddrOf[u.host], kc.port)
    BY Zenon, <1>1, <1>16, Flags DEF begin_connect
  <2>2. /\ Kernel(r) /\ r.tcp = "SynSent" /\ r.addr = AddrOf[u.host] /\ r.tport = kc.port
        /\ r.reqs = 0 /\ r.rx = 0 /\ Off(r.peerClosed) /\ SameResolver(r, kc) /\ SameRequest(r, kc) /\ SameProgress(r, kc)
        /\ r.session = kc.session /\ r.echo = kc.echo
    BY <1>12, <2>1, ConnectIs
  <2> QED
    BY <1>11, <1>12, <1>16, <2>2, Flags DEF Begun, Asked, Unsent, SameResolver, SameRequest, SameProgress
<1>17. CASE u.host # None /\ Off(k2.tls) /\ u.host \notin Literals /\ ~ HasDns
  <2>1. r = http_fail(k2, 2)
    BY Zenon, <1>1, <1>17, Flags
  <2>2. /\ Kernel(r) /\ r.phase = "Failed" /\ r.err = 2
        /\ SameResolver(r, k2) /\ SameConnection(r, k2) /\ SameRequest(r, k2)
        /\ r.session = k2.session /\ r.echo = k2.echo /\ r.since = k2.since
        /\ r.sent = k2.sent /\ r.parsed = k2.parsed /\ r.declared = k2.declared /\ r.loc = k2.loc
    BY <1>11, <2>1, FailIs
  <2> QED
    BY <1>11, <2>2 DEF Begun, Fresh, Unsent, SameResolver, SameConnection, SameRequest
<1>18. CASE u.host # None /\ Off(k2.tls) /\ u.host \notin Literals /\ HasDns
  <2>1. r = dns_start(kd, u.host)
    BY Zenon, <1>1, <1>18, Flags
  <2>2. /\ Kernel(r) /\ r.dns = "waiting" /\ r.name = u.host /\ r.tries = 0
        /\ SameConnection(r, kd) /\ SameRequest(r, kd) /\ SameProgress(r, kd)
        /\ r.session = kd.session /\ r.echo = kd.echo
    BY <1>13, <1>18, <2>1, DnsStartIs
  <2> QED
    BY <1>11, <1>13, <1>18, <2>2, Flags DEF Begun, Asked, Fresh, Unsent, SameConnection, SameRequest, SameProgress
<1> QED
  BY Zenon, <1>11, <1>14, <1>15, <1>16, <1>17, <1>18 DEF Flag

LEMMA UrlIs ==
  ASSUME NEW u \in Url
  PROVE  u.host \in DOMAIN AddrOf \cup {None} /\ u.path \in Paths
BY DEF Url

LEMMA BegunIsSteady ==
  ASSUME NEW kk, Kernel(kk), Typed(kk), Answering(kk), kk.hops <= MAX_HOPS,
         NEW u \in Url, NEW r, Begun(r, kk, u), NEW c, Stray(r) => On(c)
  PROVE  Steady(r, c) /\ Staged(r)
<1>1. Kernel(r)
  BY DEF Begun
<1>2. Typed(r)
  BY BoundsAssumption DEF Begun, Typed, Flag, in_progress, Asked, Unsent, Fresh, SameResolver
<1>3. Answering(r)
  <2>1. u.host # None => u.host \in DOMAIN AddrOf
    BY UrlIs
  <2> QED
    BY <2>1 DEF Begun, Answering, Asked, SameResolver
<1>4. Resolved(r, c)
  BY DEF Begun, Resolved, Stray, in_progress, Asked, Fresh
<1>5. Wired(r)
  <2>1. u.host # None => AddrOf[u.host] \in Addresses
    BY UrlIs DEF Addresses
  <2> QED
    BY <2>1, Flags DEF Begun, Wired, Asked, Fresh
<1>6. Sited(r, c)
  <2>1. u.host # None => u.host \in DOMAIN AddrOf /\ u.path \in Paths
    BY UrlIs
  <2> QED
    BY Zenon, <2>1, Flags DEF Begun, Sited, in_progress, Asked, Unsent, Fresh
<1>7. Staged(r)
  BY Zenon, Flags DEF Begun, Staged, Asked, Flag
<1> QED
  BY Zenon, <1>1, <1>2, <1>3, <1>4, <1>5, <1>6, <1>7 DEF Steady

LEMMA TakeResultIs ==
  ASSUME NEW kk, Kernel(kk), NEW r, r = take_result(kk)
  PROVE  /\ Kernel(r) /\ r.dns \in {kk.dns, "idle"} /\ (kk.dns # "answered" => r = kk)
         /\ (kk.dns = "answered" => r.dns = "idle")
         /\ r.name = kk.name /\ r.result = kk.result /\ r.tries = kk.tries
         /\ SameConnection(r, kk) /\ SameRequest(r, kk) /\ SameProgress(r, kk)
         /\ r.session = kk.session /\ r.echo = kk.echo
BY DEF take_result, Kernel, Fields, SameConnection, SameRequest, SameProgress

LEMMA TlsFailIs ==
  ASSUME NEW kk, Kernel(kk), NEW r, r = tls_fail(kk)
  PROVE  /\ Kernel(r) /\ Fresh(r) /\ r.session = "Failed" /\ r.echo = kk.echo
         /\ SameResolver(r, kk) /\ SameRequest(r, kk) /\ SameProgress(r, kk)
<1>1. PICK q : q = [kk EXCEPT !.session = "Failed"]
  BY Zenon
<1>2. /\ Kernel(q) /\ q.session = "Failed" /\ q.echo = kk.echo
      /\ SameResolver(q, kk) /\ SameRequest(q, kk) /\ SameProgress(q, kk)
  BY <1>1 DEF Kernel, Fields, SameResolver, SameRequest, SameProgress
<1>3. r = tcp_reset(q)
  BY Zenon, <1>1 DEF tls_fail
<1>4. /\ Kernel(r) /\ Fresh(r) /\ SameResolver(r, q) /\ SameRequest(r, q) /\ SameProgress(r, q)
      /\ r.session = q.session /\ r.echo = q.echo
  BY <1>2, <1>3, ResetIs
<1> QED
  BY <1>2, <1>4 DEF SameResolver, SameRequest, SameProgress

\* The session goes on, or comes up, or fails and takes the connection with it.
\* What a tick of the TLS session may do.
Shaken(r, kk, c) ==
  /\ Steady(r, c) /\ SameProgress(r, kk) /\ SameRequest(r, kk) /\ r.echo = kk.echo
  /\ kk.session \in {"Established", "Closed"} =>
       r.session \in {"Established", "Closed"} /\ SameConnection(r, kk)
  /\ kk.session # "Idle" => r.session # "Idle"

LEMMA TlsFailShakes ==
  ASSUME NEW kk, NEW c, Steady(kk, c), kk.session \notin {"Established", "Closed"}, NEW r, r = tls_fail(kk)
  PROVE  Shaken(r, kk, c)
<1>1. /\ Kernel(r) /\ Fresh(r) /\ r.session = "Failed" /\ r.echo = kk.echo
      /\ SameResolver(r, kk) /\ SameRequest(r, kk) /\ SameProgress(r, kk)
  BY TlsFailIs DEF Steady
<1>2. Typed(r)
  BY <1>1, BoundsAssumption DEF Steady, Typed, Flag, in_progress, Fresh, SameResolver, SameRequest, SameProgress
<1>3. Resolved(r, c)
  BY <1>1 DEF Steady, Resolved, Stray, in_progress, Fresh, SameResolver, SameRequest, SameProgress
<1>4. Answering(r) /\ Wired(r)
  BY <1>1, Flags DEF Steady, Answering, Wired, Fresh, SameConnection, SameResolver
<1>5. Sited(r, c)
  BY <1>1 DEF Steady, Sited, in_progress, Fresh, SameConnection, SameRequest, SameProgress
<1> QED
  BY Zenon, <1>1, <1>2, <1>3, <1>4, <1>5 DEF Shaken, Steady

LEMMA SessionMoves ==
  ASSUME NEW kk, NEW c, Steady(kk, c), NEW x \in {"Handshaking", "Established", "Closed"},
         kk.session \in {"Established", "Closed"} => x # "Handshaking",
         x = "Closed" => On(kk.peerClosed),
         NEW r, r = [kk EXCEPT !.session = x]
  PROVE  Shaken(r, kk, c)
<1>1. /\ Kernel(r) /\ r.session = x /\ r.echo = kk.echo /\ SameConnection(r, kk)
      /\ SameResolver(r, kk) /\ SameRequest(r, kk) /\ SameProgress(r, kk)
  BY DEF Steady, Kernel, Fields, SameResolver, SameRequest, SameProgress, SameConnection
<1>2. Typed(r)
  BY <1>1 DEF Steady, Typed, in_progress, SameConnection, SameResolver, SameRequest, SameProgress
<1>3. Resolved(r, c)
  BY <1>1 DEF Steady, Resolved, Stray, in_progress, SameConnection, SameResolver, SameRequest, SameProgress
<1>4. Answering(r) /\ Wired(r)
  BY <1>1, Flags DEF Steady, Answering, Wired, Fresh, SameConnection, SameResolver
<1>5. Sited(r, c)
  BY <1>1 DEF Steady, Sited, in_progress, Fresh, SameConnection, SameRequest, SameProgress
<1> QED
  BY Zenon, <1>1, <1>2, <1>3, <1>4, <1>5 DEF Shaken, Steady

LEMMA TlsConnects ==
  ASSUME NEW kk, NEW c, Steady(kk, c), kk.session = "Connecting", in_progress(kk), On(kk.tls),
         NEW r, r = tls_tick_connecting(kk)
  PROVE  Shaken(r, kk, c)
<1> DEFINE k1 == CASE kk.dns = "answered" -> tcp_connect(take_result(kk), kk.result, kk.port)
                   [] kk.dns = "failed" -> tls_fail(kk)
                   [] OTHER -> kk
<1>1. r = IF k1.tcp = "Established" THEN [k1 EXCEPT !.session = "Handshaking"]
          ELSE IF k1.tcp = "Failed" THEN tls_fail(k1)
          ELSE k1
  BY Zenon DEF tls_tick_connecting
<1>2. CASE kk.dns = "answered"
  <2>1. PICK q : q = take_result(kk)
    OBVIOUS
  <2>2. /\ Kernel(q) /\ q.dns = "idle" /\ q.name = kk.name /\ q.result = kk.result /\ q.tries = kk.tries
        /\ SameConnection(q, kk) /\ SameRequest(q, kk) /\ SameProgress(q, kk)
        /\ q.session = kk.session /\ q.echo = kk.echo
    BY <1>2, <2>1, TakeResultIs DEF Steady
  <2>3. k1 = tcp_connect(q, kk.result, kk.port)
    BY Zenon, <1>2, <2>1
  <2> HIDE DEF k1
  <2>4. /\ Kernel(k1) /\ k1.tcp = "SynSent" /\ k1.addr = kk.result /\ k1.tport = kk.port
        /\ k1.reqs = 0 /\ k1.rx = 0 /\ Off(k1.peerClosed) /\ SameResolver(k1, q) /\ SameRequest(k1, q) /\ SameProgress(k1, q)
        /\ k1.session = q.session /\ k1.echo = q.echo
    BY <2>2, <2>3, ConnectIs
  <2>5. r = k1
    BY <1>1, <2>4
  <2>6. SameProgress(r, kk) /\ SameRequest(r, kk) /\ r.echo = kk.echo /\ r.session = "Connecting"
        /\ r.dns = "idle" /\ r.tries = kk.tries
    BY Zenon, <2>2, <2>4, <2>5 DEF SameProgress, SameRequest, SameResolver
  <2>7. Typed(r)
    BY <2>4, <2>5, <2>6 DEF Steady, Typed, Flag, in_progress, SameRequest, SameProgress
  <2>8. On(c) \/ kk.result = AddrOf[kk.host]
    BY <1>2 DEF Steady, Answering, Resolved, Stray
  <2>9. Resolved(r, c)
    BY <2>4, <2>5, <2>6, <2>8 DEF Resolved, Stray, SameRequest
  <2>10. kk.result \in Addresses
    BY <1>2 DEF Steady, Answering, Addresses
  <2>11. Answering(r) /\ Wired(r)
    BY <2>4, <2>5, <2>6, <2>10, Flags DEF Answering, Wired
  <2>12. Sited(r, c)
    BY Zenon, <2>4, <2>5, <2>6 DEF Steady, Sited, in_progress, SameRequest, SameProgress
  <2> QED
    BY <2>4, <2>5, <2>6, <2>7, <2>9, <2>11, <2>12 DEF Shaken, Steady
<1>3. CASE kk.dns = "failed"
  <2>1. k1 = tls_fail(kk)
    BY Zenon, <1>3
  <2> HIDE DEF k1
  <2>2. Fresh(k1) /\ Kernel(k1)
    BY <2>1, TlsFailIs DEF Steady
  <2>3. r = tls_fail(kk)
    BY <1>1, <2>1, <2>2 DEF Fresh
  <2> QED
    BY <2>3, TlsFailShakes
<1>4. CASE kk.dns \notin {"answered", "failed"}
  <2>1. k1 = kk
    BY Zenon, <1>4
  <2> HIDE DEF k1
  <2>2. CASE kk.tcp = "Established"
    <3>1. r = [kk EXCEPT !.session = "Handshaking"]
      BY Zenon, <1>1, <2>1, <2>2
    <3> QED
      BY <3>1, SessionMoves
  <2>3. CASE kk.tcp = "Failed"
    <3>1. r = tls_fail(kk)
      BY <1>1, <2>1, <2>3
    <3> QED
      BY <3>1, TlsFailShakes
  <2>4. CASE kk.tcp \notin {"Established", "Failed"}
    <3>1. r = kk
      BY <1>1, <2>1, <2>4
    <3> QED
      BY <3>1 DEF Shaken, SameProgress, SameRequest
  <2> QED
    BY Zenon, <2>2, <2>3, <2>4
<1> QED
  BY Zenon, <1>2, <1>3, <1>4

LEMMA SameIsShaken ==
  ASSUME NEW kk, NEW c, Steady(kk, c)
  PROVE  Shaken(kk, kk, c)
BY DEF Shaken, SameProgress, SameRequest, SameConnection

LEMMA TlsShakes ==
  ASSUME NEW kk, NEW c, Steady(kk, c), kk.session = "Handshaking", NEW r, r = tls_tick_handshaking(kk)
  PROVE  Shaken(r, kk, c)
<1>1. \/ r = tls_fail(kk)
      \/ r = [kk EXCEPT !.session = "Established"]
      \/ r = kk
  BY Zenon DEF tls_tick_handshaking
<1>2. CASE r = tls_fail(kk)
  BY <1>2, TlsFailShakes
<1>3. CASE r = [kk EXCEPT !.session = "Established"]
  BY <1>3, SessionMoves
<1>4. CASE r = kk
  BY Zenon, <1>4, SameIsShaken
<1> QED
  BY Zenon, <1>1, <1>2, <1>3, <1>4

LEMMA TlsTicks ==
  ASSUME NEW kk, NEW c, Steady(kk, c), in_progress(kk), On(kk.tls), NEW r, r = tls_tick(kk)
  PROVE  Shaken(r, kk, c)
<1>1. CASE kk.session = "Connecting"
  <2>1. r = tls_tick_connecting(kk)
    BY Zenon, <1>1 DEF tls_tick
  <2> QED
    BY Zenon, <1>1, <2>1, TlsConnects
<1>2. CASE kk.session = "Handshaking"
  <2>1. r = tls_tick_handshaking(kk)
    BY <1>2 DEF tls_tick
  <2> QED
    BY Zenon, <1>2, <2>1, TlsShakes
<1>3. CASE kk.session = "Established" /\ On(kk.peerClosed)
  <2>1. r = [kk EXCEPT !.session = "Closed"]
    BY Zenon, <1>3 DEF tls_tick, On
  <2> QED
    BY <1>3, <2>1, SessionMoves
<1>4. CASE kk.session = "Established" /\ Off(kk.peerClosed)
  <2>1. r = kk
    BY Zenon, <1>4 DEF tls_tick, Off
  <2> QED
    BY Zenon, <2>1, SameIsShaken
<1>5. CASE kk.session \notin {"Connecting", "Handshaking", "Established"}
  <2>1. r = kk
    BY Zenon, <1>5 DEF tls_tick
  <2> QED
    BY Zenon, <2>1, SameIsShaken
<1> QED
  BY Zenon, <1>1, <1>2, <1>3, <1>4, <1>5 DEF Steady, Typed, Flag

(* http::tick *)

\* The ways a tick of the fetch may end: it fails, ...
Failing(r, kk, c) == Steady(r, c) /\ Staged(r) /\ r.phase = "Failed" /\ r.echo = kk.echo

LEMMA FailKeeps ==
  ASSUME NEW kk, NEW c, Kernel(kk), Typed(kk), Answering(kk), Wired(kk), NEW n \in 0..8,
         NEW r, r = http_fail(kk, n)
  PROVE  Failing(r, kk, c)
<1>1. /\ Kernel(r) /\ r.phase = "Failed" /\ r.err = n
      /\ SameResolver(r, kk) /\ SameConnection(r, kk) /\ SameRequest(r, kk)
      /\ r.session = kk.session /\ r.echo = kk.echo /\ r.since = kk.since
      /\ r.sent = kk.sent /\ r.parsed = kk.parsed /\ r.declared = kk.declared /\ r.loc = kk.loc
  BY FailIs
<1>2. Typed(r)
  BY Zenon, <1>1 DEF Typed, Flag, in_progress, SameResolver, SameConnection, SameRequest
<1>3. Answering(r) /\ Wired(r)
  BY Zenon, <1>1 DEF Answering, Wired, SameResolver, SameConnection
<1>4. Resolved(r, c) /\ Sited(r, c) /\ Staged(r)
  BY Zenon, <1>1 DEF Resolved, Stray, Sited, Staged, in_progress
<1> QED
  BY Zenon, <1>1, <1>2, <1>3, <1>4 DEF Failing, Steady

LEMMA DropKeeps ==
  ASSUME NEW kk, NEW c, Kernel(kk), Typed(kk), Answering(kk), NEW n \in 0..8,
         NEW r, r = tcp_reset(http_fail(kk, n))
  PROVE  Failing(r, kk, c)
<1>0. PICK q : q = http_fail(kk, n)
  OBVIOUS
<1>1. /\ Kernel(q) /\ q.phase = "Failed" /\ q.err = n
      /\ SameResolver(q, kk) /\ SameConnection(q, kk) /\ SameRequest(q, kk)
      /\ q.session = kk.session /\ q.echo = kk.echo /\ q.since = kk.since
      /\ q.sent = kk.sent /\ q.parsed = kk.parsed /\ q.declared = kk.declared /\ q.loc = kk.loc
  BY <1>0, FailIs
<1>2. r = tcp_reset(q)
  BY Zenon, <1>0
<1>3. /\ Kernel(r) /\ Fresh(r) /\ SameResolver(r, q) /\ SameRequest(r, q) /\ SameProgress(r, q)
      /\ r.session = q.session /\ r.echo = q.echo
  BY <1>1, <1>2, ResetIs
<1>4. Typed(r)
  BY <1>1, <1>3 DEF Typed, Flag, in_progress, Fresh, SameResolver, SameConnection, SameRequest, SameProgress
<1>5. Answering(r) /\ Wired(r)
  BY <1>1, <1>3, Flags DEF Answering, Wired, Fresh, SameResolver
<1>6. Resolved(r, c) /\ Sited(r, c) /\ Staged(r)
  BY Zenon, <1>1, <1>3 DEF Resolved, Stray, Sited, Staged, in_progress, SameProgress
<1>7. r.phase = "Failed" /\ r.echo = kk.echo
  BY <1>1, <1>3 DEF SameProgress
<1> QED
  BY Zenon, <1>3, <1>4, <1>5, <1>6, <1>7 DEF Failing, Steady

\* The clock starts with the first tick of a hop; past DEADLINE the fetch fails.
\* The first tick starts the clock, and no later one moves it.
Clocked(r, kk) == r.since \in 0..DEADLINE /\ r.since = IF kk.since = -1 THEN 0 ELSE kk.since

Timed(r, kk, c) ==
  \/ Failing(r, kk, c)
  \/ ~ in_progress(kk) /\ r = kk
  \/ /\ Steady(r, c) /\ Staged(r) /\ r.echo = kk.echo /\ SameRequest(r, kk) /\ Clocked(r, kk)
     /\ in_progress(kk) /\ r.phase = kk.phase

LEMMA DeadlineIs ==
  ASSUME NEW kk, NEW c, Steady(kk, c), Staged(kk), NEW r, r = deadline(kk)
  PROVE  Timed(r, kk, c)
<1>1. CASE ~ in_progress(kk)
  BY <1>1 DEF deadline, Timed
<1>2. CASE in_progress(kk) /\ kk.since = -1
  <2>1. r = [kk EXCEPT !.since = 0]
    BY <1>2 DEF deadline
  <2>2. /\ Kernel(r) /\ r.since = 0 /\ SameResolver(r, kk) /\ SameConnection(r, kk) /\ SameRequest(r, kk)
        /\ r.session = kk.session /\ r.echo = kk.echo /\ r.phase = kk.phase /\ r.err = kk.err
        /\ r.sent = kk.sent /\ r.parsed = kk.parsed /\ r.declared = kk.declared /\ r.loc = kk.loc
    BY <2>1 DEF Steady, Kernel, Fields, SameResolver, SameConnection, SameRequest
  <2>3. Typed(r) /\ Clocked(r, kk)
    BY <1>2, <2>2, BoundsAssumption DEF Clocked, Steady, Typed, Flag, in_progress, SameResolver, SameConnection, SameRequest
  <2>4. Answering(r) /\ Wired(r)
    BY Zenon, <2>2 DEF Steady, Answering, Wired, SameResolver, SameConnection
  <2>5. Resolved(r, c) /\ Sited(r, c) /\ Staged(r)
    BY <2>2 DEF Steady, Resolved, Stray, Sited, Staged, in_progress, SameResolver, SameConnection, SameRequest
  <2> QED
    BY Zenon, <1>2, <2>2, <2>3, <2>4, <2>5 DEF Timed, Steady
<1>3. CASE in_progress(kk) /\ kk.since # -1 /\ kk.since > DEADLINE
  <2>1. r = tcp_reset(http_fail(kk, 7))
    BY <1>3 DEF deadline
  <2> QED
    BY <2>1, DropKeeps DEF Timed, Steady
<1>4. CASE in_progress(kk) /\ kk.since # -1 /\ ~ kk.since > DEADLINE
  <2>1. r = kk
    BY <1>4 DEF deadline
  <2>2. Clocked(r, kk)
    BY <1>4, <2>1, BoundsAssumption DEF Clocked, Steady, Typed
  <2> QED
    BY Zenon, <1>4, <2>1, <2>2 DEF Timed, SameRequest
<1> QED
  BY Zenon, <1>1, <1>2, <1>3, <1>4

LEMMA DnsTickIs ==
  ASSUME NEW kk, NEW c, Steady(kk, c), Staged(kk), NEW r, r = dns_tick(kk)
  PROVE  /\ Steady(r, c) /\ Staged(r) /\ SameProgress(r, kk) /\ SameRequest(r, kk) /\ SameConnection(r, kk)
         /\ r.session = kk.session /\ r.echo = kk.echo /\ r.name = kk.name
         /\ (r.dns # kk.dns => kk.dns = "waiting")
<1>1. /\ Kernel(r) /\ SameConnection(r, kk) /\ SameProgress(r, kk) /\ SameRequest(r, kk)
      /\ r.session = kk.session /\ r.echo = kk.echo /\ r.name = kk.name /\ r.result = kk.result
      /\ \/ r.dns = kk.dns /\ r.tries = kk.tries
         \/ kk.dns = "waiting" /\ r.tries = kk.tries + 1 /\ r.dns = "failed"
         \/ kk.dns = "waiting" /\ r.tries = kk.tries + 1 /\ r.dns = "waiting" /\ ~ kk.tries + 1 >= DNS_ATTEMPTS
  BY DEF dns_tick, Steady, Kernel, Fields, SameConnection, SameProgress, SameRequest
<1>2. Typed(r)
  BY <1>1, BoundsAssumption DEF Steady, Typed, Flag, in_progress, SameConnection, SameProgress, SameRequest
<1>3. Answering(r) /\ Wired(r)
  BY Zenon, <1>1 DEF Steady, Answering, Wired, SameConnection
<1>4. Resolved(r, c) /\ Sited(r, c) /\ Staged(r)
  BY <1>1 DEF Steady, Resolved, Stray, Sited, Staged, in_progress, SameConnection, SameProgress, SameRequest
<1> QED
  BY Zenon, <1>1, <1>2, <1>3, <1>4 DEF Steady

\* ... or it moves on, ...
Moved(r, kk, c) ==
  \/ Failing(r, kk, c)
  \/ /\ Steady(r, c) /\ Staged(r) /\ r.echo = kk.echo /\ SameRequest(r, kk) /\ r.since = kk.since
     /\ in_progress(r)

LEMMA ResolvingTicks ==
  ASSUME NEW kk, NEW c, Steady(kk, c), Staged(kk), kk.phase = "Resolving", NEW r, r = tick_resolving(kk)
  PROVE  Moved(r, kk, c)
<1> DEFINE kd == dns_tick(kk)
<1>1. /\ Steady(kd, c) /\ Staged(kd) /\ SameProgress(kd, kk) /\ SameRequest(kd, kk)
      /\ SameConnection(kd, kk) /\ kd.echo = kk.echo
  <2>1. PICK q : q = kd
    OBVIOUS
  <2> QED
    BY <2>1, DnsTickIs
<1> DEFINE ka == [take_result(kd) EXCEPT !.phase = "Connecting", !.remote = kd.result]
<1>2. r = CASE kd.dns = "answered" -> begin_connect(ka, kd.result)
            [] kd.dns = "failed" -> http_fail(kd, 3)
            [] OTHER -> kd
  BY Zenon DEF tick_resolving
<1>3. ka = [take_result(kd) EXCEPT !.phase = "Connecting", !.remote = kd.result]
  BY Zenon
<1> HIDE DEF ka, kd
<1>4. CASE kd.dns = "answered"
  <2>1. PICK q : q = take_result(kd)
    OBVIOUS
  <2>2. /\ Kernel(q) /\ q.dns = "idle" /\ q.name = kd.name /\ q.result = kd.result /\ q.tries = kd.tries
        /\ SameConnection(q, kd) /\ SameRequest(q, kd) /\ SameProgress(q, kd)
        /\ q.session = kd.session /\ q.echo = kd.echo
    BY <1>1, <1>4, <2>1, TakeResultIs DEF Steady
  <2>3. ka = [q EXCEPT !.phase = "Connecting", !.remote = kd.result]
    BY Zenon, <1>3, <2>1
  <2>4. /\ Kernel(ka) /\ ka.dns = "idle" /\ ka.tries = kd.tries /\ ka.phase = "Connecting"
        /\ SameRequest(ka, kk) /\ ka.since = kk.since /\ ka.loc = kk.loc /\ ka.parsed = kk.parsed
        /\ ka.err = kk.err /\ ka.session = kd.session /\ ka.echo = kk.echo
    BY <1>1, <2>2, <2>3 DEF Kernel, Fields, SameRequest, SameProgress
  <2>5. r = tcp_connect(ka, kd.result, ka.port)
    BY Zenon, <1>2, <1>4 DEF begin_connect
  <2>6. /\ Kernel(r) /\ r.tcp = "SynSent" /\ r.addr = kd.result /\ r.tport = ka.port /\ r.reqs = 0 /\ r.rx = 0
        /\ Off(r.peerClosed) /\ SameResolver(r, ka) /\ SameRequest(r, ka) /\ SameProgress(r, ka)
        /\ r.session = ka.session /\ r.echo = ka.echo
    BY <2>4, <2>5, ConnectIs
  <2>7. Typed(r)
    BY <1>1, <2>4, <2>6 DEF Steady, Typed, Flag, in_progress, SameResolver, SameRequest, SameProgress
  <2>8. kd.result = AddrOf[kd.name] /\ kd.name \in DOMAIN AddrOf /\ (On(c) \/ kd.name = kd.host)
    BY Zenon, <1>1, <1>4 DEF Steady, Answering, Resolved, Stray, in_progress, SameProgress
  <2>9. Answering(r) /\ Wired(r)
    BY <2>4, <2>6, <2>8, Flags DEF Answering, Wired, Addresses, SameResolver
  <2>10. Resolved(r, c) /\ Sited(r, c) /\ Staged(r)
    <3>1. kk.host \in DOMAIN AddrOf /\ kk.path \in Paths /\ kk.loc = None /\ Off(kk.tls)
      BY Zenon DEF Steady, Sited, Staged, in_progress
    <3>2. On(kk.parsed) /\ ~ On(c) => Site[<<kk.host, kk.path>>].loc = None
      BY Zenon DEF Steady, Sited, in_progress
    <3> QED
      BY <1>1, <2>4, <2>6, <2>8, <3>1, <3>2, Flags
      DEF Resolved, Stray, Sited, Staged, in_progress, SameResolver, SameRequest, SameProgress
  <2>11. r.echo = kk.echo /\ SameRequest(r, kk) /\ r.since = kk.since /\ in_progress(r)
    BY Zenon, <2>4, <2>6 DEF SameRequest, SameProgress, in_progress
  <2> QED
    BY Zenon, <2>6, <2>7, <2>9, <2>10, <2>11 DEF Moved, Steady
<1>5. CASE kd.dns = "failed"
  <2>1. r = http_fail(kd, 3) /\ 3 \in 0..8
    BY <1>2, <1>5
  <2>2. Failing(r, kd, c)
    BY <1>1, <2>1, FailKeeps DEF Steady
  <2> QED
    BY Zenon, <1>1, <2>2 DEF Moved, Failing
<1>6. CASE kd.dns \notin {"answered", "failed"}
  <2>1. r = kd
    BY Zenon, <1>2, <1>6
  <2> QED
    BY <1>1, <2>1 DEF Moved, SameProgress, in_progress
<1> QED
  BY Zenon, <1>4, <1>5, <1>6

LEMMA PhaseIs ==
  ASSUME NEW kk, Kernel(kk), NEW x, NEW r, r = [kk EXCEPT !.phase = x]
  PROVE  /\ Kernel(r) /\ r.phase = x /\ SameResolver(r, kk) /\ SameConnection(r, kk) /\ SameRequest(r, kk)
         /\ r.session = kk.session /\ r.echo = kk.echo /\ r.since = kk.since /\ r.err = kk.err
         /\ r.sent = kk.sent /\ r.parsed = kk.parsed /\ r.declared = kk.declared /\ r.loc = kk.loc
BY DEF Kernel, Fields, SameResolver, SameConnection, SameRequest

LEMMA ConnectionIsUp ==
  ASSUME NEW kk, NEW c, Steady(kk, c), kk.phase = "Connecting",
         On(kk.tls) => kk.session = "Established", NEW r, r = [kk EXCEPT !.phase = "Sending"]
  PROVE  Steady(r, c) /\ Staged(r) /\ r.echo = kk.echo /\ SameRequest(r, kk) /\ r.since = kk.since /\ in_progress(r)
<1>1. /\ Kernel(r) /\ r.phase = "Sending" /\ SameResolver(r, kk) /\ SameConnection(r, kk) /\ SameRequest(r, kk)
      /\ r.session = kk.session /\ r.echo = kk.echo /\ r.since = kk.since /\ r.err = kk.err
      /\ r.sent = kk.sent /\ r.parsed = kk.parsed /\ r.declared = kk.declared /\ r.loc = kk.loc
  BY PhaseIs DEF Steady
<1>2. Typed(r)
  BY <1>1 DEF Steady, Typed, Flag, in_progress, SameResolver, SameConnection, SameRequest
<1>3. Answering(r) /\ Wired(r)
  BY <1>1 DEF Steady, Answering, Wired, SameResolver, SameConnection
<1>4. Resolved(r, c) /\ Sited(r, c) /\ Staged(r)
  BY <1>1 DEF Steady, Resolved, Stray, Sited, Staged, in_progress, SameResolver, SameConnection, SameRequest
<1>5. in_progress(r)
  BY <1>1 DEF in_progress
<1> QED
  BY Zenon, <1>1, <1>2, <1>3, <1>4, <1>5 DEF Steady

LEMMA TlsConnectingTicks ==
  ASSUME NEW kk, NEW c, Steady(kk, c), Staged(kk), kk.phase = "Connecting", On(kk.tls),
         NEW r, r = tick_connecting_tls(kk)
  PROVE  Moved(r, kk, c)
<1>1. PICK ks : ks = tls_tick(kk)
  OBVIOUS
<1>2. Shaken(ks, kk, c)
  BY <1>1, TlsTicks DEF in_progress
<1>3. r = CASE ks.session = "Established" -> [ks EXCEPT !.phase = "Sending"]
            [] ks.session \in {"Failed", "Closed"} -> http_fail(ks, 4)
            [] OTHER -> ks
  BY Zenon, <1>1 DEF tick_connecting_tls
<1>4. /\ Steady(ks, c) /\ SameProgress(ks, kk) /\ SameRequest(ks, kk) /\ ks.echo = kk.echo
      /\ ks.session # "Idle" /\ ks.phase = "Connecting" /\ ks.since = kk.since
  BY <1>2 DEF Shaken, SameProgress, Staged
<1>5. CASE ks.session = "Established"
  <2>1. r = [ks EXCEPT !.phase = "Sending"]
    BY Zenon, <1>3, <1>5
  <2>2. Steady(r, c) /\ Staged(r) /\ r.echo = ks.echo /\ SameRequest(r, ks) /\ r.since = ks.since /\ in_progress(r)
    BY <1>4, <1>5, <2>1, ConnectionIsUp
  <2> QED
    BY <1>4, <2>2 DEF Moved, SameRequest
<1>6. CASE ks.session \in {"Failed", "Closed"}
  <2>1. r = http_fail(ks, 4) /\ 4 \in 0..8
    BY <1>3, <1>6
  <2>2. Failing(r, ks, c)
    BY <1>4, <2>1, FailKeeps DEF Steady
  <2> QED
    BY Zenon, <1>4, <2>2 DEF Moved, Failing
<1>7. CASE ks.session \notin {"Established", "Failed", "Closed"}
  <2>1. r = ks
    BY Zenon, <1>3, <1>7
  <2>2. Staged(ks) /\ in_progress(ks)
    BY Zenon, <1>4, <1>7, Flags DEF Steady, Typed, Staged, in_progress, SameRequest
  <2> QED
    BY Zenon, <1>4, <2>1, <2>2 DEF Moved
<1> QED
  BY Zenon, <1>5, <1>6, <1>7

LEMMA ConnectingTicks ==
  ASSUME NEW kk, NEW c, Steady(kk, c), Staged(kk), kk.phase = "Connecting", Off(kk.tls),
         NEW r, r = tick_connecting(kk)
  PROVE  Moved(r, kk, c)
<1>1. kk.tcp # "Closed"
  BY DEF Staged
<1>2. CASE kk.tcp = "Established"
  <2>1. r = [kk EXCEPT !.phase = "Sending"]
    BY Zenon, <1>2 DEF tick_connecting
  <2>2. Steady(r, c) /\ Staged(r) /\ r.echo = kk.echo /\ SameRequest(r, kk) /\ r.since = kk.since /\ in_progress(r)
    BY <2>1, ConnectionIsUp, Flags
  <2> QED
    BY Zenon, <2>2 DEF Moved
<1>3. CASE kk.tcp = "Failed"
  <2>1. r = http_fail(kk, 4) /\ 4 \in 0..8
    BY <1>3 DEF tick_connecting
  <2>2. Failing(r, kk, c)
    BY <2>1, FailKeeps DEF Steady
  <2> QED
    BY Zenon, <2>2 DEF Moved
<1>4. CASE kk.tcp \notin {"Established", "Failed"}
  <2>1. r = kk
    BY Zenon, <1>1, <1>4 DEF tick_connecting
  <2> QED
    BY <2>1 DEF Moved, SameRequest, in_progress
<1> QED
  BY Zenon, <1>2, <1>3, <1>4

Transported(k1, kk, c) ==
  /\ Steady(k1, c) /\ SameProgress(k1, kk) /\ SameRequest(k1, kk) /\ k1.echo = kk.echo /\ SameConnection(k1, kk)
  /\ On(k1.tls) => k1.session \in {"Established", "Closed"}

LEMMA TransportTicks ==
  ASSUME NEW kk, NEW c, Steady(kk, c), Staged(kk), kk.phase \in {"Sending", "Receiving"},
         NEW r, r = transport_tick(kk)
  PROVE  Transported(r, kk, c)
<1>1. CASE On(kk.tls)
  <2>1. r = tls_tick(kk)
    BY Zenon, <1>1 DEF transport_tick, On
  <2>2. Shaken(r, kk, c)
    BY <1>1, <2>1, TlsTicks DEF in_progress
  <2>3. kk.session \in {"Established", "Closed"}
    BY <1>1 DEF Staged
  <2> QED
    BY Zenon, <2>2, <2>3 DEF Shaken, Transported
<1>2. CASE Off(kk.tls)
  <2>1. r = kk
    BY Zenon, <1>2 DEF transport_tick, Off
  <2> QED
    BY <1>2, <2>1, Flags DEF Transported, SameProgress, SameRequest, SameConnection
<1> QED
  BY Zenon, <1>1, <1>2 DEF Steady, Typed, Flag

Handed(r, kk) ==
  /\ Kernel(r) /\ SameResolver(r, kk) /\ SameRequest(r, kk) /\ SameProgress(r, kk)
  /\ r.session = kk.session /\ r.echo = kk.echo
  /\ r.tcp = kk.tcp /\ r.addr = kk.addr /\ r.tport = kk.tport /\ r.rx = kk.rx
  /\ r.peerClosed = kk.peerClosed /\ r.shake = kk.shake
  /\ \/ r.reqs = kk.reqs /\ Off(r.told)
     \/ r.reqs = kk.reqs + 1 /\ kk.tcp = "Established"

LEMMA NotTold ==
  ASSUME NEW kk, Kernel(kk), NEW r, r = [kk EXCEPT !.told = FALSE]
  PROVE  Handed(r, kk)
<1>1. r.told = FALSE
  BY DEF Kernel, Fields
<1>2. Off(r.told)
  BY Zenon, <1>1, Flags
<1>3. /\ Kernel(r) /\ SameResolver(r, kk) /\ SameRequest(r, kk) /\ SameProgress(r, kk) /\ SameConnection(r, kk)
      /\ r.session = kk.session /\ r.echo = kk.echo
  BY DEF Kernel, Fields, SameResolver, SameRequest, SameProgress, SameConnection
<1> QED
  BY Zenon, <1>2, <1>3 DEF Handed, SameConnection

LEMMA TcpSends ==
  ASSUME NEW kk, Kernel(kk), NEW r, r = tcp_send(kk)
  PROVE  Handed(r, kk)
<1>1. CASE kk.tcp # "Established"
  <2>1. r = [kk EXCEPT !.told = FALSE]
    BY Zenon, <1>1 DEF tcp_send
  <2> QED
    BY Zenon, <2>1, NotTold
<1>2. CASE kk.tcp = "Established"
  <2>1. r = [kk EXCEPT !.reqs = kk.reqs + 1, !.told = ~kk.late]
    BY <1>2 DEF tcp_send
  <2> QED
    BY <1>2, <2>1 DEF Kernel, Fields, Handed, SameResolver, SameRequest, SameProgress
<1> QED
  BY Zenon, <1>1, <1>2

LEMMA TlsSends ==
  ASSUME NEW kk, Kernel(kk), NEW r, r = tls_send(kk)
  PROVE  Handed(r, kk)
<1>1. CASE kk.session # "Established"
  <2>1. r = [kk EXCEPT !.told = FALSE]
    BY Zenon, <1>1 DEF tls_send
  <2> QED
    BY Zenon, <2>1, NotTold
<1>2. CASE kk.session = "Established"
  <2>1. r = tcp_send(kk)
    BY Zenon, <1>2 DEF tls_send
  <2> QED
    BY Zenon, <2>1, TcpSends
<1> QED
  BY Zenon, <1>1, <1>2

LEMMA SendingTicks ==
  ASSUME NEW kk, NEW c, Steady(kk, c), Staged(kk), kk.phase = "Sending", NEW r, r = tick_sending(kk)
  PROVE  Moved(r, kk, c)
<1> DEFINE k1 == transport_tick(kk)
           k2 == IF k1.sent THEN k1 ELSE IF k1.tls THEN tls_send(k1) ELSE tcp_send(k1)
           k3 == IF ~k1.sent /\ k2.told THEN [k2 EXCEPT !.sent = TRUE, !.phase = "Receiving"] ELSE k2
<1>1. r = IF k3.tcp = "Failed" THEN http_fail(k3, 5) ELSE k3
  BY Zenon DEF tick_sending
<1>2. \/ k3 = k1
      \/ (k2 = tls_send(k1) \/ k2 = tcp_send(k1)) /\ k3 = k2
      \/ (k2 = tls_send(k1) \/ k2 = tcp_send(k1)) /\ k2.told /\ k3 = [k2 EXCEPT !.sent = TRUE, !.phase = "Receiving"]
  BY Zenon
<1>3. Transported(k1, kk, c)
  BY TransportTicks
<1> HIDE DEF k1, k2, k3
<1>4. /\ Steady(k1, c) /\ SameRequest(k1, kk) /\ k1.echo = kk.echo /\ k1.phase = "Sending" /\ k1.since = kk.since
      /\ On(k1.tls) => k1.session \in {"Established", "Closed"}
  BY <1>3 DEF Transported, SameProgress
<1>5. /\ Steady(k3, c) /\ Staged(k3) /\ k3.echo = kk.echo /\ SameRequest(k3, kk) /\ k3.since = kk.since
      /\ in_progress(k3)
  <2>1. CASE k3 = k1
    <3>1. Staged(k1) /\ in_progress(k1)
      BY <1>4 DEF Staged, in_progress
    <3> QED
      BY Zenon, <1>4, <2>1, <3>1
  <2>2. CASE k2 = tls_send(k1) \/ k2 = tcp_send(k1)
    <3>1. Handed(k2, k1)
      BY Zenon, <1>4, <2>2, TlsSends, TcpSends DEF Steady
    <3>2. CASE k3 = k2
      <4>1. Typed(k3)
        <5>1. Typed(k1) /\ k1.reqs \in Nat /\ k1.reqs + 1 \in Nat
          <6>1. Typed(k1) /\ k1.reqs \in Nat
            BY Zenon, <1>4 DEF Steady, Typed
          <6> QED
            BY <6>1
        <5>2. k3.reqs \in Nat
          BY Zenon, <3>1, <3>2, <5>1 DEF Handed
        <5>3. /\ k3.phase = k1.phase /\ k3.session = k1.session /\ k3.tcp = k1.tcp /\ k3.err = k1.err
              /\ k3.since = k1.since /\ k3.parsed = k1.parsed /\ k3.rx = k1.rx /\ k3.peerClosed = k1.peerClosed
              /\ SameResolver(k3, k1) /\ SameRequest(k3, k1)
          BY Zenon, <3>1, <3>2 DEF Handed, SameProgress
        <5>4. in_progress(k3) => in_progress(k1)
          BY Zenon, <5>3 DEF in_progress
        <5> QED
          BY Zenon, <5>1, <5>2, <5>3, <5>4, TypedAgain DEF Typed
      <4>2. Answering(k3) /\ Wired(k3)
        BY Zenon, <1>4, <3>1, <3>2 DEF Handed, Steady, Typed, Answering, Wired, SameResolver
      <4>3. Resolved(k3, c) /\ Sited(k3, c) /\ Staged(k3) /\ in_progress(k3)
        BY Zenon, <1>4, <3>1, <3>2
        DEF Handed, Steady, Resolved, Stray, Sited, Staged, in_progress, SameResolver, SameRequest, SameProgress
      <4>4. Kernel(k3) /\ k3.echo = kk.echo /\ SameRequest(k3, kk) /\ k3.since = kk.since
        BY Zenon, <1>4, <3>1, <3>2 DEF Handed, SameRequest, SameProgress
      <4> QED
        BY Zenon, <4>1, <4>2, <4>3, <4>4 DEF Steady
    <3>3. CASE k2.told /\ k3 = [k2 EXCEPT !.sent = TRUE, !.phase = "Receiving"]
      <4>1. k2.reqs = k1.reqs + 1 /\ k1.tcp = "Established"
        BY Zenon, <3>1, <3>3 DEF Handed, Off
      <4>2. /\ Kernel(k3) /\ k3.phase = "Receiving" /\ SameResolver(k3, k2) /\ SameConnection(k3, k2)
            /\ SameRequest(k3, k2) /\ k3.session = k2.session /\ k3.echo = k2.echo /\ k3.since = k2.since
            /\ k3.err = k2.err /\ k3.parsed = k2.parsed /\ k3.loc = k2.loc
        BY <3>1, <3>3 DEF Handed, Kernel, Fields, SameResolver, SameConnection, SameRequest
      <4>3. Typed(k3)
        <5>1. Typed(k1) /\ k1.reqs \in Nat /\ k1.reqs + 1 \in Nat
          <6>1. Typed(k1) /\ k1.reqs \in Nat
            BY Zenon, <1>4 DEF Steady, Typed
          <6> QED
            BY <6>1
        <5>2. k3.reqs \in Nat
          BY Zenon, <4>1, <4>2, <5>1 DEF SameConnection
        <5>3. /\ k3.session = k1.session /\ k3.tcp = k1.tcp /\ k3.err = k1.err
              /\ k3.since = k1.since /\ k3.parsed = k1.parsed /\ k3.rx = k1.rx /\ k3.peerClosed = k1.peerClosed
              /\ SameResolver(k3, k1) /\ SameRequest(k3, k1)
          BY Zenon, <3>1, <4>2 DEF Handed, SameConnection, SameResolver, SameRequest, SameProgress
        <5>4. in_progress(k1)
          BY Zenon, <1>4 DEF in_progress
        <5> QED
          BY Zenon, <4>2, <5>1, <5>2, <5>3, <5>4, TypedAgain DEF Typed
      <4>4. Answering(k3) /\ Wired(k3)
        BY Zenon, <1>4, <3>1, <4>1, <4>2 DEF Handed, Steady, Answering, Wired, SameResolver, SameConnection
      <4>5. Resolved(k3, c) /\ Sited(k3, c) /\ in_progress(k3)
        <5>1. in_progress(k3) /\ in_progress(k1)
          BY Zenon, <1>4, <4>2 DEF in_progress
        <5>2. ~ Stray(k3)
          BY Zenon, <1>4, <3>1, <4>2 DEF Stray, Handed, SameRequest
        <5>3. /\ k3.addr = k1.addr /\ k3.tport = k1.tport /\ k3.host = k1.host /\ k3.port = k1.port
              /\ k3.path = k1.path /\ k3.tls = k1.tls /\ k3.loc = k1.loc /\ k3.parsed = k1.parsed
              /\ k3.session = k1.session /\ k3.peerClosed = k1.peerClosed
          BY Zenon, <3>1, <4>2 DEF Handed, SameConnection, SameRequest, SameProgress
        <5>4. Resolved(k3, c)
          BY Zenon, <1>4, <5>1, <5>2, <5>3 DEF Steady, Resolved
        <5>5. Sited(k3, c)
          BY Zenon, <1>4, <4>2, <5>1, <5>3 DEF Steady, Sited
        <5> QED
          BY Zenon, <5>1, <5>4, <5>5
      <4>6. Staged(k3)
        <5>1. k1.reqs \in Nat /\ k3.reqs = k1.reqs + 1
          BY Zenon, <1>4, <4>1, <4>2 DEF Steady, Typed, SameConnection
        <5>2. k3.reqs >= 1
          BY <5>1
        <5>3. On(k3.tls) => k3.session \in {"Established", "Closed"}
          BY Zenon, <1>4, <3>1, <4>2 DEF Handed, SameRequest
        <5> QED
          BY Zenon, <4>2, <5>2, <5>3 DEF Staged
      <4>7. k3.echo = kk.echo /\ SameRequest(k3, kk) /\ k3.since = kk.since
        BY Zenon, <1>4, <3>1, <4>2 DEF Handed, SameRequest, SameProgress
      <4> QED
        BY Zenon, <4>2, <4>3, <4>4, <4>5, <4>6, <4>7 DEF Steady
    <3> QED
      BY Zenon, <1>2, <2>1, <3>2, <3>3
  <2> QED
    BY Zenon, <1>2, <2>1, <2>2
<1>6. CASE k3.tcp = "Failed"
  <2>1. r = http_fail(k3, 5) /\ 5 \in 0..8
    BY <1>1, <1>6
  <2>2. Failing(r, k3, c)
    BY <1>5, <2>1, FailKeeps DEF Steady
  <2> QED
    BY Zenon, <1>5, <2>2 DEF Moved, Failing
<1>7. CASE k3.tcp # "Failed"
  <2>1. r = k3
    BY Zenon, <1>1, <1>7
  <2> QED
    BY Zenon, <1>5, <2>1 DEF Moved
<1> QED
  BY Zenon, <1>6, <1>7

(* The response *)

\* A response may be coming in.
Answered(kk, c) ==
  /\ Kernel(kk) /\ Typed(kk) /\ Answering(kk) /\ Wired(kk) /\ kk.reqs >= 1
  /\ kk.host \in DOMAIN AddrOf /\ kk.path \in Paths
  /\ On(kk.tls) /\ kk.session = "Closed" => On(kk.peerClosed)
  /\ kk.addr # None /\ ~ On(c) => kk.addr = AddrOf[kk.host] /\ kk.tport = kk.port
  /\ ~ On(c) => kk.rx < 2 \/ Site[<<kk.host, kk.path>>].loc = None

\* What a finished fetch has brought.
Landed(kk, c) ==
  /\ kk.host \in DOMAIN AddrOf /\ kk.path \in Paths /\ kk.addr \in Addresses
  /\ <<kk.addr, kk.tport>> \in Listeners /\ kk.rx \in 0..3
  /\ ~ On(c) => /\ kk.addr = AddrOf[kk.host] /\ kk.tport = kk.port
                /\ kk.rx < 2 \/ Site[<<kk.host, kk.path>>].loc = None

\* ... or it is done, ...
Arrived(r, kk, c) ==
  Steady(r, c) /\ Staged(r) /\ r.phase = "Done" /\ r.echo = kk.echo /\ SameRequest(r, kk) /\ Landed(r, c)

LEMMA Connected ==
  ASSUME NEW a, NEW p, <<a, p>> \in Listeners
  PROVE  a # None
<1>1. <<a, p>>[1] # None
  BY WorldAssumption
<1> QED
  BY <1>1

LEMMA DoneIs ==
  ASSUME NEW kk, NEW c, Answered(kk, c), kk.tcp \notin {"SynSent", "Established"},
         NEW r, r = [kk EXCEPT !.phase = "Done"]
  PROVE  Arrived(r, kk, c)
<1>1. /\ Kernel(r) /\ r.phase = "Done" /\ SameResolver(r, kk) /\ SameConnection(r, kk) /\ SameRequest(r, kk)
      /\ r.session = kk.session /\ r.echo = kk.echo /\ r.since = kk.since /\ r.err = kk.err
      /\ r.sent = kk.sent /\ r.parsed = kk.parsed /\ r.declared = kk.declared /\ r.loc = kk.loc
  BY PhaseIs DEF Answered
<1>2. Typed(r)
  BY <1>1 DEF Answered, Typed, Flag, in_progress, SameResolver, SameConnection, SameRequest
<1>3. Answering(r) /\ Wired(r)
  BY <1>1 DEF Answered, Answering, Wired, SameResolver, SameConnection
<1>4. Resolved(r, c) /\ Sited(r, c) /\ Staged(r)
  BY <1>1 DEF Resolved, Stray, Sited, Staged, in_progress, SameConnection
<1>5. <<kk.addr, kk.tport>> \in Listeners /\ kk.addr # None
  <2>1. <<kk.addr, kk.tport>> \in Listeners
    BY DEF Answered, Wired
  <2> QED
    BY Zenon, <2>1, Connected
<1>6. Landed(r, c)
  BY <1>1, <1>5 DEF Answered, Typed, Wired, Landed, SameConnection, SameRequest
<1> QED
  BY Zenon, <1>1, <1>2, <1>3, <1>4, <1>6 DEF Arrived, Steady

LEMMA CloseIsDone ==
  ASSUME NEW kk, NEW c, Answered(kk, c), NEW r, r = [tcp_close(kk) EXCEPT !.phase = "Done"]
  PROVE  Arrived(r, kk, c)
<1>1. PICK q : q = tcp_close(kk)
  OBVIOUS
<1>2. r = [q EXCEPT !.phase = "Done"]
  BY Zenon, <1>1
<1>3. CASE kk.tcp = "Established"
  <2>1. q = [kk EXCEPT !.tcp = "FinWait"]
    BY Zenon, <1>1, <1>3 DEF tcp_close
  <2>2. /\ Kernel(q) /\ SameResolver(q, kk) /\ SameRequest(q, kk) /\ SameProgress(q, kk)
        /\ q.session = kk.session /\ q.echo = kk.echo /\ q.tcp = "FinWait"
        /\ q.addr = kk.addr /\ q.tport = kk.tport /\ q.reqs = kk.reqs /\ q.rx = kk.rx /\ q.peerClosed = kk.peerClosed
    BY <2>1 DEF Answered, Kernel, Fields, SameResolver, SameRequest, SameProgress
  <2>3. Typed(q)
    BY <2>2 DEF Answered, Typed, Flag, in_progress, SameResolver, SameRequest, SameProgress
  <2>4. Answering(q) /\ Wired(q)
    BY <2>2 DEF Answered, Answering, Wired, SameResolver
  <2>5. Answered(q, c)
    BY <2>2, <2>3, <2>4 DEF Answered, SameRequest
  <2>6. Arrived(r, q, c)
    BY Zenon, <1>2, <2>2, <2>5, DoneIs
  <2> QED
    BY <2>2, <2>6 DEF Arrived, SameRequest
<1>4. CASE kk.tcp # "Established"
  <2>1. q = kk
    BY Zenon, <1>1, <1>4 DEF tcp_close
  <2>2. kk.tcp # "SynSent"
    BY DEF Answered, Wired
  <2> QED
    BY Zenon, <1>2, <1>4, <2>1, <2>2, DoneIs
<1> QED
  BY Zenon, <1>3, <1>4

LEMMA TransportIsDone ==
  ASSUME NEW kk, NEW c, Answered(kk, c), transport_done(kk), NEW r, r = [kk EXCEPT !.phase = "Done"]
  PROVE  Arrived(r, kk, c)
<1>1. CASE On(kk.tls)
  <2>1. kk.session = "Closed"
    BY Zenon, <1>1 DEF transport_done, On
  <2>2. kk.tcp \notin {"SynSent", "Established"}
    BY <1>1, <2>1 DEF Answered, Wired
  <2> QED
    BY <2>2, DoneIs
<1>2. CASE Off(kk.tls)
  <2>1. kk.tcp \in {"Closed", "FinSent"}
    BY Zenon, <1>2 DEF transport_done, Off
  <2>2. kk.tcp \notin {"SynSent", "Established"}
    BY <2>1
  <2> QED
    BY <2>2, DoneIs
<1> QED
  BY Zenon, <1>1, <1>2 DEF Answered, Typed, Flag

\* The answer of the host's own server leads on to u.
Leads(kk, u) ==
  LET l == Site[<<kk.host, kk.path>>].loc
  IN  /\ l # None /\ l \in Url /\ AddrOf[kk.host] # None
      /\ ~ (l.scheme = "http" /\ On(kk.tls))
      /\ u = IF l.scheme = "none"
             THEN [scheme |-> IF On(kk.tls) THEN "https" ELSE "http", host |-> kk.host,
                   port |-> Dflt, path |-> l.path]
             ELSE l

LEMMA LeadsIs ==
  ASSUME NEW kk, NEW u, kk.host \in DOMAIN AddrOf, Leads(kk, u)
  PROVE  u \in Url /\ (On(kk.tls) => u.scheme # "http")
<1>1. PICK l : l = Site[<<kk.host, kk.path>>].loc
  OBVIOUS
<1>2. /\ l # None /\ l \in Url /\ ~ (l.scheme = "http" /\ On(kk.tls))
      /\ u = IF l.scheme = "none"
             THEN [scheme |-> IF On(kk.tls) THEN "https" ELSE "http", host |-> kk.host,
                   port |-> Dflt, path |-> l.path]
             ELSE l
  BY Zenon, <1>1 DEF Leads
<1>3. CASE l.scheme # "none"
  BY <1>2, <1>3
<1>4. CASE l.scheme = "none"
  <2>1. PICK s : s = IF On(kk.tls) THEN "https" ELSE "http"
    OBVIOUS
  <2>2. u = [scheme |-> s, host |-> kk.host, port |-> Dflt, path |-> l.path]
    BY Zenon, <1>2, <1>4, <2>1
  <2>3. s \in {"http", "https", "bare", "none"} /\ (On(kk.tls) => s # "http")
    BY <2>1
  <2>4. l.path \in Paths
    BY Zenon, <1>2, UrlIs
  <2> QED
    BY <2>2, <2>3, <2>4 DEF Url
<1> QED
  BY Zenon, <1>3, <1>4

\* ... or the next hop has begun.
Hopping(r, kk) ==
  \E u \in Url : \E q :
    /\ Begun(r, q, u) /\ Kernel(q) /\ Typed(q) /\ Answering(q)
    /\ q.hops = kk.hops + 1 /\ q.hops <= MAX_HOPS /\ q.echo = kk.echo /\ Leads(kk, u)

LEMMA RedirectIs ==
  ASSUME NEW kk, NEW c, Kernel(kk), Typed(kk), Answering(kk), kk.hops <= MAX_HOPS, kk.loc # None,
         kk.loc = Site[<<kk.host, kk.path>>].loc, kk.loc \in Url, AddrOf[kk.host] # None,
         kk.host \in DOMAIN AddrOf, NEW r, r = follow_redirect(kk)
  PROVE  Failing(r, kk, c) \/ Hopping(r, kk)
<1> DEFINE k1 == [kk EXCEPT !.hops = @ + 1]
           u == redirect_target(kk)
<1>1. r = IF k1.hops > MAX_HOPS THEN tcp_reset(http_fail(k1, 8))
          ELSE IF u = None THEN tcp_reset(http_fail(k1, 1))
          ELSE begin(k1, u)
  BY Zenon DEF follow_redirect
<1>2. k1 = [kk EXCEPT !.hops = kk.hops + 1]
  BY Zenon
<1>3. u = redirect_target(kk)
  OBVIOUS
<1> HIDE DEF k1, u
<1>4. /\ Kernel(k1) /\ k1.hops = kk.hops + 1 /\ SameResolver(k1, kk) /\ SameConnection(k1, kk)
      /\ SameProgress(k1, kk) /\ k1.session = kk.session /\ k1.echo = kk.echo /\ k1.tls = kk.tls
  BY <1>2 DEF Kernel, Fields, SameResolver, SameConnection, SameProgress
<1>5. Answering(k1)
  BY Zenon, <1>4 DEF Answering, SameResolver
<1>7. ASSUME NEW n \in 0..8, r = tcp_reset(http_fail(k1, n)) PROVE Failing(r, kk, c)
  <2>1. PICK q : q = http_fail(k1, n)
    BY Zenon
  <2>2. /\ Kernel(q) /\ q.phase = "Failed" /\ q.err = n
        /\ SameResolver(q, k1) /\ SameConnection(q, k1) /\ SameRequest(q, k1)
        /\ q.session = k1.session /\ q.echo = k1.echo /\ q.since = k1.since /\ q.parsed = k1.parsed
    BY <1>4, <2>1, FailIs
  <2>3. Typed(q) /\ Answering(q)
    BY <1>4, <1>5, <2>2, BoundsAssumption
    DEF Typed, Flag, Answering, in_progress, SameResolver, SameConnection, SameRequest, SameProgress
  <2>4. PICK x : x = tcp_reset(q)
    BY Zenon
  <2>5. /\ Kernel(x) /\ Fresh(x) /\ SameResolver(x, q) /\ SameRequest(x, q) /\ SameProgress(x, q)
        /\ x.session = q.session /\ x.echo = q.echo
    BY Zenon, <2>2, <2>4, ResetIs
  <2>6. x = r
    BY Zenon, <1>7, <2>1, <2>4
  <2>7. Typed(x)
    <3>1. /\ x.phase = "Failed" /\ x.err = q.err /\ x.since = q.since /\ x.parsed = q.parsed
          /\ x.session = q.session /\ x.tcp = "Closed" /\ x.reqs = 0 /\ x.rx = 0 /\ Flag(x.peerClosed)
      BY Zenon, <2>2, <2>5 DEF Fresh, Flag, SameProgress
    <3>2. 0 \in Nat /\ 0 \in 0..3
      OBVIOUS
    <3>3. ~ in_progress(x)
      BY Zenon, <3>1 DEF in_progress
    <3> QED
      BY Zenon, <2>3, <2>5, <3>1, <3>2, <3>3, TypedAgain DEF Typed
  <2>8. Answering(x) /\ Wired(x)
    BY <2>3, <2>5, Flags DEF Answering, Wired, Fresh, SameResolver
  <2>9. Resolved(x, c) /\ Sited(x, c) /\ Staged(x)
    BY Zenon, <2>2, <2>5 DEF Resolved, Stray, Sited, Staged, in_progress, SameProgress
  <2>10. x.phase = "Failed" /\ x.echo = kk.echo
    BY Zenon, <1>4, <2>2, <2>5 DEF SameProgress
  <2> QED
    BY Zenon, <2>5, <2>6, <2>7, <2>8, <2>9, <2>10 DEF Failing, Steady
<1>8. CASE k1.hops > MAX_HOPS
  <2>1. r = tcp_reset(http_fail(k1, 8)) /\ 8 \in 0..8
    BY <1>1, <1>8
  <2> QED
    BY Zenon, <1>7, <2>1
<1>9. CASE ~ (k1.hops > MAX_HOPS) /\ u = None
  <2>1. r = tcp_reset(http_fail(k1, 1)) /\ 1 \in 0..8
    BY <1>1, <1>9
  <2> QED
    BY Zenon, <1>7, <2>1
<1>10. CASE ~ (k1.hops > MAX_HOPS) /\ u # None
  <2>1. r = begin(k1, u)
    BY Zenon, <1>1, <1>10
  <2>2. Begun(r, k1, u)
    BY Zenon, <1>4, <2>1, BeginIs
  <2>3. ~ (kk.loc.scheme = "http" /\ On(kk.tls))
    BY Zenon, <1>3, <1>10 DEF redirect_target, On
  <2>4. u = IF kk.loc.scheme = "none"
            THEN [scheme |-> IF On(kk.tls) THEN "https" ELSE "http", host |-> kk.host,
                  port |-> Dflt, path |-> kk.loc.path]
            ELSE kk.loc
    <3>1. CASE On(kk.tls)
      BY Zenon, <1>3, <2>3, <3>1 DEF redirect_target, On
    <3>2. CASE Off(kk.tls)
      BY Zenon, <1>3, <2>3, <3>2 DEF redirect_target, On, Off
    <3> QED
      BY Zenon, <3>1, <3>2 DEF Typed, Flag
  <2>5. Leads(kk, u)
    BY Zenon, <2>3, <2>4 DEF Leads
  <2>6. u \in Url
    BY Zenon, <2>5, LeadsIs
  <2>7. Typed(k1) /\ k1.hops <= MAX_HOPS
    BY <1>4, <1>10, <2>2, BoundsAssumption
    DEF Typed, Flag, in_progress, SameResolver, SameConnection, SameProgress
  <2> QED
    BY Zenon, <1>4, <1>5, <2>2, <2>5, <2>6, <2>7 DEF Hopping
<1> QED
  BY Zenon, <1>8, <1>9, <1>10

LEMMA ResourceIs ==
  ASSUME NEW kk, kk.host \in DOMAIN AddrOf, kk.path \in Paths, kk.addr # None
  PROVE  LET s == Resource(kk) IN
         /\ s.declared \in BOOLEAN
         /\ s.loc # None => s.loc = Site[<<kk.host, kk.path>>].loc /\ s.loc \in Url /\ AddrOf[kk.host] # None
         /\ kk.addr = AddrOf[kk.host] => s = Site[<<kk.host, kk.path>>]
         /\ s.kind = "other" => Site[<<kk.host, kk.path>>].loc = None
<1> DEFINE w == Site[<<kk.host, kk.path>>]
<1>1. w \in [kind : {"page", "other"}, declared : BOOLEAN, loc : Url \cup {None}]
  BY Zenon, WorldAssumption
<1>2. w.kind = "other" => w.loc = None
  BY Zenon, WorldAssumption
<1>3. w.declared \in BOOLEAN /\ w.loc \in Url \cup {None}
  BY <1>1
<1> HIDE DEF w
<1>4. CASE AddrOf[kk.host] = kk.addr
  <2>1. Resource(kk) = w
    BY Zenon, <1>4 DEF Resource, w
  <2> QED
    BY Zenon, <1>2, <1>3, <1>4, <2>1 DEF w
<1>5. CASE AddrOf[kk.host] # kk.addr
  <2>1. Resource(kk) = [kind |-> "page", declared |-> TRUE, loc |-> None]
    BY Zenon, <1>5 DEF Resource
  <2>2. Resource(kk).kind = "page" /\ Resource(kk).loc = None
    BY SMT, <2>1
  <2>3. Resource(kk).declared = TRUE
    BY SMT, <2>1
  <2>4. Resource(kk).declared \in BOOLEAN
    BY Zenon, <2>3
  <2> QED
    BY Zenon, <1>5, <2>2, <2>4
<1> QED
  BY Zenon, <1>4, <1>5

\* A tick of a fetch that is in progress.
Ticked(r, kk, c) ==
  \/ Failing(r, kk, c)
  \/ kk.phase = "Receiving" /\ Arrived(r, kk, c)
  \/ kk.phase = "Receiving" /\ Hopping(r, kk)
  \/ /\ Steady(r, c) /\ Staged(r) /\ r.echo = kk.echo /\ SameRequest(r, kk) /\ in_progress(r)
     /\ Off(r.tls) => Clocked(r, kk)
     /\ kk.phase = "Receiving" => r.phase = "Receiving"

LEMMA Concludes ==
  ASSUME NEW kk, NEW c, kk.phase = "Receiving", NEW k2, Answered(k2, c), Steady(k2, c), Staged(k2),
         SameRequest(k2, kk), k2.echo = kk.echo, k2.since = kk.since, k2.phase \in {"Receiving", "Failed"},
         NEW r, \/ r = [tcp_close(k2) EXCEPT !.phase = "Done"]
                \/ transport_done(k2) /\ r = [k2 EXCEPT !.phase = "Done"]
                \/ r = deadline(k2)
  PROVE  Ticked(r, kk, c)
<1>1. ASSUME Arrived(r, k2, c) PROVE Ticked(r, kk, c)
  BY <1>1 DEF Arrived, Ticked, SameRequest
<1>2. CASE r = [tcp_close(k2) EXCEPT !.phase = "Done"]
  BY Zenon, <1>1, <1>2, CloseIsDone
<1>3. CASE transport_done(k2) /\ r = [k2 EXCEPT !.phase = "Done"]
  BY Zenon, <1>1, <1>3, TransportIsDone
<1>4. CASE r = deadline(k2)
  <2>1. Timed(r, k2, c)
    BY Zenon, <1>4, DeadlineIs
  <2>2. CASE Failing(r, k2, c)
    BY Zenon, <2>2 DEF Failing, Ticked
  <2>3. CASE ~ in_progress(k2) /\ r = k2
    <3>1. k2.phase = "Failed"
      BY <2>3 DEF in_progress
    <3> QED
      BY Zenon, <2>3, <3>1 DEF Failing, Ticked
  <2>4. CASE /\ Steady(r, c) /\ Staged(r) /\ r.echo = k2.echo /\ SameRequest(r, k2) /\ Clocked(r, k2)
             /\ in_progress(k2) /\ r.phase = k2.phase
    <3>1. k2.phase = "Receiving" /\ r.phase = "Receiving" /\ in_progress(r)
      BY <2>4 DEF in_progress
    <3>2. Clocked(r, kk) /\ SameRequest(r, kk) /\ r.echo = kk.echo
      BY <2>4 DEF Clocked, SameRequest
    <3> QED
      BY Zenon, <2>4, <3>1, <3>2 DEF Ticked
  <2> QED
    BY Zenon, <2>1, <2>2, <2>3, <2>4 DEF Timed
<1> QED
  BY Zenon, <1>2, <1>3, <1>4

\* The outcomes of parse_headers.
Parsed(r, kk) ==
  \/ r = kk /\ kk.rx < 2
  \/ r = http_fail(kk, 6) /\ Resource(kk).kind = "other"
  \/ r = [kk EXCEPT !.parsed = TRUE, !.declared = Resource(kk).declared, !.loc = Resource(kk).loc]

LEMMA ParseIs ==
  ASSUME NEW kk, kk.rx \in 0..3, NEW r, r = parse_headers(kk)
  PROVE  Parsed(r, kk)
<1>1. CASE kk.rx = 0
  BY <1>1 DEF parse_headers, Parsed
<1>2. CASE kk.rx # 0 /\ Resource(kk).kind = "other"
  <2>1. kk.rx >= 1
    BY <1>2
  <2>2. r = http_fail(kk, 6)
    BY Zenon, <1>2, <2>1 DEF parse_headers
  <2> QED
    BY Zenon, <1>2, <2>2 DEF Parsed
<1>3. CASE kk.rx = 1 /\ Resource(kk).kind # "other"
  <2>1. ~ (kk.rx = 0) /\ kk.rx < 2
    BY <1>3
  <2>2. r = kk
    BY Zenon, <1>3, <2>1 DEF parse_headers
  <2> QED
    BY Zenon, <2>1, <2>2 DEF Parsed
<1>4. CASE kk.rx \notin {0, 1} /\ Resource(kk).kind # "other"
  <2>1. ~ (kk.rx = 0) /\ ~ (kk.rx = 1)
    BY <1>4
  <2>2. r = [kk EXCEPT !.parsed = TRUE, !.declared = Resource(kk).declared, !.loc = Resource(kk).loc]
    BY Zenon, <1>4, <2>1 DEF parse_headers
  <2> QED
    BY Zenon, <2>2 DEF Parsed
<1> QED
  BY <1>1, <1>2, <1>3, <1>4

LEMMA HeadersAreIn ==
  ASSUME NEW kk, NEW c, Steady(kk, c), Staged(kk), kk.phase = "Receiving", kk.addr # None,
         NEW r, r = [kk EXCEPT !.parsed = TRUE, !.declared = Resource(kk).declared, !.loc = Resource(kk).loc]
  PROVE  /\ Kernel(r) /\ Typed(r) /\ Answering(r) /\ Wired(r) /\ Resolved(r, c) /\ Staged(r)
         /\ SameRequest(r, kk) /\ r.echo = kk.echo /\ r.since = kk.since /\ r.phase = "Receiving"
         /\ r.loc = Resource(kk).loc
         /\ r.loc = None => Steady(r, c) /\ Answered(r, c)
<1>1. r.parsed = TRUE
  BY DEF Steady, Kernel, Fields
<1>2. On(r.parsed)
  BY Zenon, <1>1, Flags
<1>3. /\ Kernel(r) /\ SameResolver(r, kk) /\ SameConnection(r, kk) /\ SameRequest(r, kk)
      /\ r.session = kk.session /\ r.echo = kk.echo /\ r.since = kk.since /\ r.phase = kk.phase
      /\ r.err = kk.err /\ r.loc = Resource(kk).loc
  BY DEF Steady, Kernel, Fields, SameResolver, SameConnection, SameRequest
<1>4. Typed(r)
  BY Zenon, <1>2, <1>3 DEF Steady, Typed, Flag, in_progress, SameResolver, SameConnection, SameRequest
<1>5. Answering(r) /\ Wired(r)
  BY <1>3 DEF Steady, Answering, Wired, SameResolver, SameConnection
<1>6. Resolved(r, c) /\ Staged(r)
  BY <1>3 DEF Steady, Resolved, Stray, Staged, in_progress, SameResolver, SameConnection, SameRequest
<1>7. ASSUME r.loc = None PROVE Steady(r, c) /\ Answered(r, c)
  <2>1. kk.host \in DOMAIN AddrOf /\ kk.path \in Paths
    BY DEF Steady, Sited, in_progress
  <2>2. kk.addr = AddrOf[kk.host] => Resource(kk) = Site[<<kk.host, kk.path>>]
    BY Zenon, <2>1, ResourceIs
  <2>3. ~ On(c) => Site[<<kk.host, kk.path>>].loc = None /\ kk.addr = AddrOf[kk.host] /\ kk.tport = kk.port
    <3>1. ~ On(c) => kk.addr = AddrOf[kk.host] /\ kk.tport = kk.port
      BY DEF Steady, Resolved, in_progress
    <3> QED
      BY Zenon, <1>3, <1>7, <2>2, <3>1
  <2>4. Sited(r, c)
    BY Zenon, <1>3, <1>7, <2>1, <2>3 DEF Steady, Sited, in_progress, SameConnection, SameRequest
  <2>5. Answered(r, c)
    BY <1>3, <1>4, <1>5, <2>1, <2>3
    DEF Answered, Steady, Staged, Sited, in_progress, SameConnection, SameRequest
  <2> QED
    BY Zenon, <1>3, <1>4, <1>5, <1>6, <2>4, <2>5 DEF Steady
<1> QED
  BY Zenon, <1>3, <1>4, <1>5, <1>6, <1>7

\* What headers_seen leaves, as tick_receiving sees it.
Read(k2, kk, c) ==
  /\ SameRequest(k2, kk) /\ k2.echo = kk.echo
  /\ \/ /\ k2.loc = None /\ k2.since = kk.since /\ k2.phase \in {"Receiving", "Failed"}
        /\ Steady(k2, c) /\ Staged(k2) /\ Answered(k2, c)
     \/ /\ Kernel(k2) /\ Typed(k2) /\ Answering(k2) /\ k2.hops <= MAX_HOPS /\ k2.loc # None
        /\ k2.loc = Site[<<k2.host, k2.path>>].loc /\ k2.loc \in Url /\ AddrOf[k2.host] # None
        /\ k2.host \in DOMAIN AddrOf

LEMMA HeadersAreRead ==
  ASSUME NEW kk, NEW c, Steady(kk, c), Staged(kk), kk.phase = "Receiving",
         NEW r, r = IF kk.parsed THEN kk ELSE parse_headers(kk)
  PROVE  Read(r, kk, c)
<1>1. kk.reqs >= 1 /\ kk.loc = None /\ kk.host \in DOMAIN AddrOf /\ kk.path \in Paths /\ in_progress(kk)
  BY Zenon DEF Steady, Sited, Staged, in_progress
<1>2. kk.addr # None
  <2>1. <<kk.addr, kk.tport>> \in Listeners
    BY Zenon, <1>1 DEF Steady, Wired
  <2> QED
    BY Zenon, <2>1, Connected
<1>3. SameRequest(kk, kk)
  BY DEF SameRequest
<1>4. ASSUME ~ On(c) => kk.rx < 2 \/ Site[<<kk.host, kk.path>>].loc = None PROVE Answered(kk, c)
  BY Zenon, <1>1, <1>4 DEF Steady, Answered, Resolved, Sited
<1>5. CASE On(kk.parsed)
  <2>1. r = kk
    BY Zenon, <1>5 DEF On
  <2>2. ~ On(c) => kk.rx < 2 \/ Site[<<kk.host, kk.path>>].loc = None
    BY Zenon, <1>1, <1>5 DEF Steady, Sited
  <2> QED
    BY Zenon, <1>1, <1>3, <1>4, <2>1, <2>2 DEF Read
<1>6. CASE Off(kk.parsed)
  <2>1. r = parse_headers(kk)
    BY Zenon, <1>6 DEF Off
  <2>2. kk.rx \in 0..3
    BY Zenon DEF Steady, Typed
  <2>3. Parsed(r, kk)
    BY Zenon, <2>1, <2>2, ParseIs
  <2>4. CASE r = kk /\ kk.rx < 2
    BY Zenon, <1>1, <1>3, <1>4, <2>4 DEF Read
  <2>5. CASE r = http_fail(kk, 6) /\ Resource(kk).kind = "other"
    <3>1. Failing(r, kk, c)
      <4>1. 6 \in 0..8
        OBVIOUS
      <4> QED
        BY Zenon, <2>5, <4>1, FailKeeps DEF Steady
    <3>2. /\ SameRequest(r, kk) /\ SameConnection(r, kk) /\ r.loc = kk.loc /\ r.since = kk.since
          /\ r.session = kk.session
      BY <2>5, FailIs DEF Steady
    <3>3. Site[<<kk.host, kk.path>>].loc = None
      BY Zenon, <1>1, <1>2, <2>5, ResourceIs
    <3>4. Answered(kk, c)
      BY Zenon, <1>4, <3>3
    <3>5. Answered(r, c)
      BY Zenon, <3>1, <3>2, <3>4 DEF Failing, Steady, Answered, SameConnection, SameRequest
    <3> QED
      BY Zenon, <1>1, <3>1, <3>2, <3>5 DEF Failing, Read
  <2>6. CASE r = [kk EXCEPT !.parsed = TRUE, !.declared = Resource(kk).declared, !.loc = Resource(kk).loc]
    <3>1. /\ Kernel(r) /\ Typed(r) /\ Answering(r) /\ Wired(r) /\ Resolved(r, c) /\ Staged(r)
          /\ SameRequest(r, kk) /\ r.echo = kk.echo /\ r.since = kk.since /\ r.phase = "Receiving"
          /\ r.loc = Resource(kk).loc
          /\ r.loc = None => Steady(r, c) /\ Answered(r, c)
      BY Zenon, <1>2, <2>6, HeadersAreIn
    <3>2. CASE r.loc = None
      BY Zenon, <3>1, <3>2 DEF Read
    <3>3. CASE r.loc # None
      <4>1. r.loc = Site[<<kk.host, kk.path>>].loc /\ r.loc \in Url /\ AddrOf[kk.host] # None
        BY Zenon, <1>1, <1>2, <3>1, <3>3, ResourceIs
      <4>2. r.host = kk.host /\ r.path = kk.path
        BY Zenon, <3>1 DEF SameRequest
      <4>3. r.hops <= MAX_HOPS
        BY Zenon, <3>1 DEF Typed, in_progress
      <4> QED
        BY Zenon, <1>1, <3>1, <3>3, <4>1, <4>2, <4>3 DEF Read
    <3> QED
      BY Zenon, <3>2, <3>3
  <2> QED
    BY Zenon, <2>3, <2>4, <2>5, <2>6 DEF Parsed
<1> QED
  BY Zenon, <1>5, <1>6 DEF Steady, Typed, Flag

LEMMA ReceivingTicks ==
  ASSUME NEW kk, NEW c, Steady(kk, c), Staged(kk), kk.phase = "Receiving", NEW r, r = tick_receiving(kk)
  PROVE  Ticked(r, kk, c)
<1> DEFINE k1 == transport_tick(kk)
           k2 == IF k1.parsed THEN k1 ELSE parse_headers(k1)
<1>1. r = IF k2.loc # None THEN follow_redirect(k2)
          ELSE IF k2.declared /\ body_in(k2) THEN [tcp_close(k2) EXCEPT !.phase = "Done"]
          ELSE IF transport_done(k2) THEN [k2 EXCEPT !.phase = "Done"]
          ELSE deadline(k2)
  BY Zenon DEF tick_receiving
<1>2. k1 = transport_tick(kk)
  OBVIOUS
<1>3. k2 = IF k1.parsed THEN k1 ELSE parse_headers(k1)
  OBVIOUS
<1> HIDE DEF k1, k2
<1>4. Transported(k1, kk, c)
  BY <1>2, TransportTicks
<1>5. Steady(k1, c) /\ Staged(k1) /\ k1.phase = "Receiving"
  BY Zenon, <1>4 DEF Transported, Staged, SameProgress, SameConnection, SameRequest
<1>6. Read(k2, k1, c)
  BY Zenon, <1>3, <1>5, HeadersAreRead
<1>7. SameRequest(k2, kk) /\ k2.echo = kk.echo
  BY Zenon, <1>4, <1>6 DEF Read, Transported, SameRequest
<1>8. CASE k2.loc = None
  <2>1. /\ k2.since = kk.since /\ k2.phase \in {"Receiving", "Failed"}
        /\ Steady(k2, c) /\ Staged(k2) /\ Answered(k2, c)
    BY Zenon, <1>4, <1>6, <1>8 DEF Read, Transported, SameProgress
  <2>2. \/ r = [tcp_close(k2) EXCEPT !.phase = "Done"]
        \/ transport_done(k2) /\ r = [k2 EXCEPT !.phase = "Done"]
        \/ r = deadline(k2)
    BY Zenon, <1>1, <1>8
  <2> QED
    BY Zenon, <1>7, <2>1, <2>2, Concludes
<1>9. CASE k2.loc # None
  <2>1. r = follow_redirect(k2)
    BY Zenon, <1>1, <1>9
  <2>2. Failing(r, k2, c) \/ Hopping(r, k2)
    BY Zenon, <1>6, <1>9, <2>1, RedirectIs DEF Read
  <2>3. CASE Failing(r, k2, c)
    BY Zenon, <1>7, <2>3 DEF Failing, Ticked
  <2>4. CASE Hopping(r, k2)
    <3>1. PICK u \in Url : \E q :
            /\ Begun(r, q, u) /\ Kernel(q) /\ Typed(q) /\ Answering(q)
            /\ q.hops = k2.hops + 1 /\ q.hops <= MAX_HOPS /\ q.echo = k2.echo /\ Leads(k2, u)
      BY Zenon, <2>4 DEF Hopping
    <3>2. k2.host = kk.host /\ k2.path = kk.path /\ k2.tls = kk.tls /\ k2.hops = kk.hops
      BY Zenon, <1>7 DEF SameRequest
    <3>3. Leads(kk, u)
      BY Zenon, <3>1, <3>2 DEF Leads
    <3>4. Hopping(r, kk)
      BY Zenon, <1>7, <3>1, <3>2, <3>3 DEF Hopping
    <3> QED
      BY Zenon, <3>4 DEF Ticked
  <2> QED
    BY Zenon, <2>2, <2>3, <2>4
<1> QED
  BY Zenon, <1>8, <1>9

LEMMA DeadlineAfter ==
  ASSUME NEW kk, NEW c, kk.phase # "Receiving", NEW q, Moved(q, kk, c), NEW r, r = deadline(q)
  PROVE  Ticked(r, kk, c)
<1>1. CASE Failing(q, kk, c)
  <2>1. ~ in_progress(q)
    BY Zenon, <1>1 DEF Failing, in_progress
  <2>2. r = q
    BY Zenon, <2>1 DEF deadline
  <2> QED
    BY Zenon, <1>1, <2>2 DEF Ticked
<1>2. CASE /\ Steady(q, c) /\ Staged(q) /\ q.echo = kk.echo /\ SameRequest(q, kk) /\ q.since = kk.since
           /\ in_progress(q)
  <2>1. Timed(r, q, c)
    BY Zenon, <1>2, DeadlineIs
  <2>2. CASE Failing(r, q, c)
    BY Zenon, <1>2, <2>2 DEF Failing, Ticked
  <2>3. CASE /\ Steady(r, c) /\ Staged(r) /\ r.echo = q.echo /\ SameRequest(r, q) /\ Clocked(r, q)
             /\ in_progress(q) /\ r.phase = q.phase
    <3>1. in_progress(r) /\ Clocked(r, kk) /\ SameRequest(r, kk) /\ r.echo = kk.echo
      BY Zenon, <1>2, <2>3 DEF in_progress, Clocked, SameRequest
    <3> QED
      BY Zenon, <2>3, <3>1 DEF Ticked
  <2> QED
    BY Zenon, <1>2, <2>1, <2>2, <2>3 DEF Timed
<1> QED
  BY Zenon, <1>1, <1>2 DEF Moved

LEMMA HttpTicks ==
  ASSUME NEW kk, NEW c, Steady(kk, c), Staged(kk), NEW r, r = http_tick(kk)
  PROVE  IF in_progress(kk) THEN Ticked(r, kk, c) ELSE r = kk
<1>1. CASE kk.phase = "Resolving"
  <2>1. PICK q : q = tick_resolving(kk)
    OBVIOUS
  <2>2. r = deadline(q)
    BY Zenon, <1>1, <2>1 DEF http_tick
  <2>3. Moved(q, kk, c)
    BY Zenon, <1>1, <2>1, ResolvingTicks
  <2>4. in_progress(kk) /\ kk.phase # "Receiving"
    BY <1>1 DEF in_progress
  <2> QED
    BY Zenon, <2>2, <2>3, <2>4, DeadlineAfter
<1>2. CASE kk.phase = "Connecting" /\ On(kk.tls)
  <2>1. ~ (kk.phase = "Resolving") /\ kk.phase # "Receiving" /\ in_progress(kk)
    BY <1>2 DEF in_progress
  <2>2. r = tick_connecting_tls(kk)
    BY Zenon, <1>2, <2>1 DEF http_tick, On
  <2>3. Moved(r, kk, c)
    BY Zenon, <1>2, <2>2, TlsConnectingTicks
  <2>4. CASE Failing(r, kk, c)
    BY Zenon, <2>1, <2>4 DEF Ticked
  <2>5. CASE /\ Steady(r, c) /\ Staged(r) /\ r.echo = kk.echo /\ SameRequest(r, kk) /\ r.since = kk.since
             /\ in_progress(r)
    <3>1. ~ Off(r.tls)
      BY Zenon, <1>2, <2>5, Flags DEF SameRequest
    <3> QED
      BY Zenon, <2>1, <2>5, <3>1 DEF Ticked
  <2> QED
    BY Zenon, <2>3, <2>4, <2>5 DEF Moved
<1>3. CASE kk.phase = "Connecting" /\ Off(kk.tls)
  <2>1. PICK q : q = tick_connecting(kk)
    OBVIOUS
  <2>2. ~ (kk.phase = "Resolving") /\ kk.phase # "Receiving" /\ in_progress(kk)
    BY <1>3 DEF in_progress
  <2>3. r = deadline(q)
    BY Zenon, <1>3, <2>1, <2>2 DEF http_tick, Off
  <2>4. Moved(q, kk, c)
    BY Zenon, <1>3, <2>1, ConnectingTicks
  <2> QED
    BY Zenon, <2>2, <2>3, <2>4, DeadlineAfter
<1>4. CASE kk.phase = "Sending"
  <2>1. PICK q : q = tick_sending(kk)
    OBVIOUS
  <2>2. kk.phase # "Resolving" /\ kk.phase # "Connecting" /\ kk.phase # "Receiving" /\ in_progress(kk)
    BY <1>4 DEF in_progress
  <2>3. r = deadline(q)
    BY Zenon, <1>4, <2>1, <2>2 DEF http_tick
  <2>4. Moved(q, kk, c)
    BY Zenon, <1>4, <2>1, SendingTicks
  <2> QED
    BY Zenon, <2>2, <2>3, <2>4, DeadlineAfter
<1>5. CASE kk.phase = "Receiving"
  <2>1. kk.phase # "Resolving" /\ kk.phase # "Connecting" /\ kk.phase # "Sending" /\ in_progress(kk)
    BY <1>5 DEF in_progress
  <2>2. r = tick_receiving(kk)
    BY Zenon, <1>5, <2>1 DEF http_tick
  <2> QED
    BY Zenon, <1>5, <2>1, <2>2, ReceivingTicks
<1>6. CASE ~ in_progress(kk)
  <2>1. kk.phase # "Resolving" /\ kk.phase # "Connecting" /\ kk.phase # "Sending" /\ kk.phase # "Receiving"
    BY <1>6 DEF in_progress
  <2>2. r = kk
    BY Zenon, <2>1 DEF http_tick
  <2> QED
    BY Zenon, <1>6, <2>2
<1>7. Flag(kk.tls)
  BY Zenon DEF Steady, Typed
<1> QED
  BY Zenon, <1>1, <1>2, <1>3, <1>4, <1>5, <1>6, <1>7 DEF in_progress, Flag

\* What has been brought does not change any more.
SamePage(r, kk) == r.addr = kk.addr /\ r.tport = kk.tport /\ r.rx = kk.rx

\* A tick of the network, whatever the fetch is doing.
Passed(r, kk, c) ==
  IF in_progress(kk) THEN Ticked(r, kk, c)
  ELSE /\ Steady(r, c) /\ Staged(r) /\ r.echo = kk.echo /\ SameRequest(r, kk) /\ SameProgress(r, kk)
       /\ SamePage(r, kk)

LEMMA NetTicks ==
  ASSUME NEW kk, NEW c, Steady(kk, c), Staged(kk), NEW r, r = net_tick(kk)
  PROVE  Passed(r, kk, c)
<1>1. PICK q : q = dns_tick(kk)
  OBVIOUS
<1>2. /\ Steady(q, c) /\ Staged(q) /\ SameProgress(q, kk) /\ SameRequest(q, kk) /\ SameConnection(q, kk)
      /\ q.session = kk.session /\ q.echo = kk.echo
  BY <1>1, DnsTickIs
<1>3. r = http_tick(q)
  BY Zenon, <1>1 DEF net_tick
<1>4. IF in_progress(q) THEN Ticked(r, q, c) ELSE r = q
  BY <1>2, <1>3, HttpTicks
<1>5. in_progress(q) <=> in_progress(kk)
  BY <1>2 DEF SameProgress, in_progress
<1>6. CASE ~ in_progress(kk)
  <2>1. r = q
    BY Zenon, <1>4, <1>5, <1>6
  <2>2. SamePage(q, kk)
    BY <1>2 DEF SamePage, SameConnection
  <2> QED
    BY Zenon, <1>2, <1>6, <2>1, <2>2 DEF Passed
<1>7. CASE in_progress(kk)
  <2>1. Ticked(r, q, c)
    BY Zenon, <1>4, <1>5, <1>7
  <2>2. q.phase = kk.phase /\ q.since = kk.since
    BY <1>2 DEF SameProgress
  <2>3. q.hops = kk.hops /\ q.host = kk.host /\ q.path = kk.path /\ q.tls = kk.tls
    BY <1>2 DEF SameRequest
  <2>4. SameRequest(r, q) => SameRequest(r, kk)
    BY Zenon, <1>2 DEF SameRequest
  <2>5. Failing(r, q, c) => Failing(r, kk, c)
    BY Zenon, <1>2 DEF Failing
  <2>6. Arrived(r, q, c) => Arrived(r, kk, c)
    BY Zenon, <1>2, <2>4 DEF Arrived
  <2>7. Clocked(r, q) => Clocked(r, kk)
    BY Zenon, <2>2 DEF Clocked
  <2>8. ASSUME Hopping(r, q) PROVE Hopping(r, kk)
    <3>1. PICK u \in Url : \E x :
            /\ Begun(r, x, u) /\ Kernel(x) /\ Typed(x) /\ Answering(x)
            /\ x.hops = q.hops + 1 /\ x.hops <= MAX_HOPS /\ x.echo = q.echo /\ Leads(q, u)
      BY Zenon, <2>8 DEF Hopping
    <3>2. Leads(q, u) => Leads(kk, u)
      BY Zenon, <2>3 DEF Leads
    <3> QED
      BY Zenon, <1>2, <2>3, <3>1, <3>2 DEF Hopping
  <2>9. Ticked(r, kk, c)
    BY Zenon, <1>2, <2>1, <2>2, <2>4, <2>5, <2>6, <2>7, <2>8 DEF Ticked
  <2> QED
    BY Zenon, <1>7, <2>9 DEF Passed
<1> QED
  BY Zenon, <1>6, <1>7

(* What may arrive *)

\* A frame that arrives moves the fetch nowhere.
Heard(r, kk, c) ==
  Steady(r, c) /\ Staged(r) /\ SameRequest(r, kk) /\ SameProgress(r, kk) /\ (kk.phase = "Done" => SamePage(r, kk))

LEMMA AnswerIsHeard ==
  ASSUME NEW kk, NEW c, Steady(kk, c), Staged(kk), kk.dns = "waiting", NEW r, r = dns_handle(kk)
  PROVE  Heard(r, kk, c) /\ r.echo = kk.echo
<1>1. /\ Kernel(r) /\ SameConnection(r, kk) /\ SameRequest(r, kk) /\ SameProgress(r, kk)
      /\ r.session = kk.session /\ r.echo = kk.echo /\ r.name = kk.name /\ r.tries = kk.tries
      /\ \/ r.dns = "failed"
         \/ r.dns = "answered" /\ r.result = AddrOf[kk.name]
  BY DEF dns_handle, Steady, Kernel, Fields, SameConnection, SameRequest, SameProgress
<1>2. Typed(r)
  BY Zenon, <1>1 DEF Steady, Typed, Flag, in_progress, SameConnection, SameRequest, SameProgress
<1>3. Answering(r) /\ Wired(r)
  BY Zenon, <1>1 DEF Steady, Answering, Wired, SameConnection
<1>4. Resolved(r, c) /\ Staged(r)
  BY Zenon, <1>1 DEF Steady, Resolved, Stray, Staged, in_progress, SameConnection, SameRequest, SameProgress
<1>5. Sited(r, c) /\ SamePage(r, kk)
  BY Zenon, <1>1 DEF Steady, Sited, SamePage, in_progress, SameConnection, SameRequest, SameProgress
<1> QED
  BY Zenon, <1>1, <1>2, <1>3, <1>4, <1>5 DEF Heard, Steady

LEMMA SegmentIsHeard ==
  ASSUME NEW kk, NEW c, Steady(kk, c), Staged(kk),
         NEW r, Kernel(r), SameResolver(r, kk), SameRequest(r, kk), SameProgress(r, kk),
         r.session = kk.session, r.addr = kk.addr, r.tport = kk.tport, r.reqs = kk.reqs,
         \/ /\ kk.tcp = "SynSent" /\ <<kk.addr, kk.tport>> \in Listeners
            /\ r.tcp = "Established" /\ r.rx = kk.rx /\ r.peerClosed = kk.peerClosed
         \/ /\ r.tcp = "Failed" /\ r.rx = kk.rx /\ r.peerClosed = kk.peerClosed
         \/ /\ r.tcp = kk.tcp /\ r.rx = kk.rx /\ r.peerClosed = kk.peerClosed
         \/ /\ kk.tcp = "Established" /\ r.tcp = kk.tcp /\ kk.rx < 3 /\ r.rx = kk.rx + 1
            /\ r.peerClosed = kk.peerClosed
         \/ /\ r.rx = kk.rx /\ On(r.peerClosed)
            /\ \/ kk.tcp = "FinWait" /\ r.tcp = "Closed"
               \/ r.tcp = "FinSent"
  PROVE  Heard(r, kk, c)
<1>1. Typed(r)
  <2>1. Typed(kk) /\ kk.rx \in 0..3 /\ kk.reqs \in Nat
    BY Zenon DEF Steady, Typed
  <2>2. r.rx = kk.rx \/ (kk.rx < 3 /\ r.rx = kk.rx + 1)
    BY Zenon
  <2>3. r.rx \in 0..3
    BY <2>1, <2>2
  <2>4. r.tcp \in {"Closed", "SynSent", "Established", "FinWait", "FinSent", "Failed"}
    BY Zenon, <2>1 DEF Typed
  <2>5. Flag(r.peerClosed)
    BY Zenon, <2>1 DEF Typed, Flag
  <2>6. r.phase = kk.phase /\ r.err = kk.err /\ r.since = kk.since /\ r.parsed = kk.parsed
    BY Zenon DEF SameProgress
  <2>7. in_progress(r) => in_progress(kk)
    BY Zenon, <2>6 DEF in_progress
  <2> QED
    BY Zenon, <2>1, <2>3, <2>4, <2>5, <2>6, <2>7, TypedAgain DEF Typed
<1>2. Answering(r)
  BY Zenon DEF Steady, Answering, SameResolver
<1>3. Wired(r)
  BY Zenon, Flags DEF Steady, Wired
<1>4. Resolved(r, c)
  BY Zenon DEF Steady, Resolved, Stray, in_progress, SameResolver, SameRequest, SameProgress
<1>5. Staged(r)
  BY Zenon DEF Staged, SameRequest, SameProgress
<1>6. Sited(r, c)
  BY Zenon, Flags DEF Steady, Sited, in_progress, SameRequest, SameProgress
<1>7. kk.phase = "Done" => SamePage(r, kk)
  BY Zenon DEF Steady, Sited, SamePage
<1> QED
  BY Zenon, <1>1, <1>2, <1>3, <1>4, <1>5, <1>6, <1>7 DEF Heard, Steady

\* The events of a poll, one by one.
LEMMA EventIs ==
  ASSUME NEW kk, NEW e, e \in Events(kk)
  PROVE  \/ e = <<"none">>
         \/ e = <<"answer">> /\ kk.dns = "waiting"
         \/ e = <<"synack">> /\ kk.tcp = "SynSent" /\ <<kk.addr, kk.tport>> \in Listeners
         \/ e = <<"lost">>
         \/ e = <<"good">> \/ e = <<"bad">>
         \/ e = <<"more">> /\ kk.tcp = "Established" /\ kk.rx < 3
         \/ e = <<"fin">>
         \/ \E x \in echoes \cup {Stranger} : e = <<"echo", x>>
BY Zenon DEF Events

\* How the resolver, the connection and the fetch take an event that is no echo.
LEMMA EventIsHeard ==
  ASSUME NEW kk, NEW c, Steady(kk, c), Staged(kk), NEW e, e \in Events(kk), e[1] # "echo",
         NEW r, r = arrive(kk, e)
  PROVE  Heard(r, kk, c) /\ r.echo = kk.echo
<1>0. Kernel(kk)
  BY DEF Steady
<1>1. CASE e = <<"none">>
  <2>1. e[1] = "none"
    BY <1>1
  <2>2. r = kk
    BY Zenon, <2>1 DEF arrive
  <2> QED
    BY Zenon, <2>2, SegmentIsHeard DEF Steady, SameResolver, SameRequest, SameProgress
<1>2. CASE e = <<"answer">> /\ kk.dns = "waiting"
  <2>1. e[1] = "answer"
    BY <1>2
  <2>2. r = dns_handle(kk)
    BY <2>1 DEF arrive
  <2> QED
    BY Zenon, <1>2, <2>2, AnswerIsHeard
<1>3. CASE e = <<"synack">> /\ kk.tcp = "SynSent" /\ <<kk.addr, kk.tport>> \in Listeners
  <2>1. e[1] = "synack"
    BY <1>3
  <2>2. r = [kk EXCEPT !.tcp = "Established"]
    BY <2>1 DEF arrive
  <2>3. /\ Kernel(r) /\ SameResolver(r, kk) /\ SameRequest(r, kk) /\ SameProgress(r, kk)
        /\ r.session = kk.session /\ r.addr = kk.addr /\ r.tport = kk.tport /\ r.reqs = kk.reqs
        /\ r.tcp = "Established" /\ r.rx = kk.rx /\ r.peerClosed = kk.peerClosed /\ r.echo = kk.echo
    BY <1>0, <2>2 DEF Kernel, Fields, SameResolver, SameRequest, SameProgress
  <2> QED
    BY Zenon, <1>3, <2>3, SegmentIsHeard
<1>4. CASE e = <<"lost">>
  <2>1. e[1] = "lost"
    BY <1>4
  <2>2. r = [kk EXCEPT !.tcp = "Failed"]
    BY <2>1 DEF arrive
  <2>3. /\ Kernel(r) /\ SameResolver(r, kk) /\ SameRequest(r, kk) /\ SameProgress(r, kk)
        /\ r.session = kk.session /\ r.addr = kk.addr /\ r.tport = kk.tport /\ r.reqs = kk.reqs
        /\ r.tcp = "Failed" /\ r.rx = kk.rx /\ r.peerClosed = kk.peerClosed /\ r.echo = kk.echo
    BY <1>0, <2>2 DEF Kernel, Fields, SameResolver, SameRequest, SameProgress
  <2> QED
    BY Zenon, <2>3, SegmentIsHeard
<1>5. CASE e = <<"good">> \/ e = <<"bad">>
  <2>1. PICK h : h = e[1]
    OBVIOUS
  <2>2. h = "good" \/ h = "bad"
    BY <1>5, <2>1
  <2>3. r = [kk EXCEPT !.shake = h]
    BY <2>1, <2>2 DEF arrive
  <2>4. /\ Kernel(r) /\ SameResolver(r, kk) /\ SameRequest(r, kk) /\ SameProgress(r, kk)
        /\ r.session = kk.session /\ r.addr = kk.addr /\ r.tport = kk.tport /\ r.reqs = kk.reqs
        /\ r.tcp = kk.tcp /\ r.rx = kk.rx /\ r.peerClosed = kk.peerClosed /\ r.echo = kk.echo
    BY <1>0, <2>3 DEF Kernel, Fields, SameResolver, SameRequest, SameProgress
  <2> QED
    BY Zenon, <2>4, SegmentIsHeard
<1>6. CASE e = <<"more">> /\ kk.tcp = "Established" /\ kk.rx < 3
  <2>1. e[1] = "more"
    BY <1>6
  <2>2. r = [kk EXCEPT !.rx = @ + 1]
    BY <2>1 DEF arrive
  <2>3. /\ Kernel(r) /\ SameResolver(r, kk) /\ SameRequest(r, kk) /\ SameProgress(r, kk)
        /\ r.session = kk.session /\ r.addr = kk.addr /\ r.tport = kk.tport /\ r.reqs = kk.reqs
        /\ r.tcp = kk.tcp /\ r.rx = kk.rx + 1 /\ r.peerClosed = kk.peerClosed /\ r.echo = kk.echo
    BY <1>0, <2>2 DEF Kernel, Fields, SameResolver, SameRequest, SameProgress
  <2> QED
    BY Zenon, <1>6, <2>3, SegmentIsHeard
<1>7. CASE e = <<"fin">>
  <2>1. e[1] = "fin"
    BY <1>7
  <2>2. r = [kk EXCEPT !.peerClosed = TRUE, !.tcp = IF @ = "FinWait" THEN "Closed" ELSE "FinSent"]
    BY <2>1 DEF arrive
  <2>3. /\ Kernel(r) /\ SameResolver(r, kk) /\ SameRequest(r, kk) /\ SameProgress(r, kk)
        /\ r.session = kk.session /\ r.addr = kk.addr /\ r.tport = kk.tport /\ r.reqs = kk.reqs
        /\ r.rx = kk.rx /\ r.echo = kk.echo
        /\ (kk.tcp = "FinWait" /\ r.tcp = "Closed") \/ r.tcp = "FinSent"
    BY <1>0, <2>2 DEF Kernel, Fields, SameResolver, SameRequest, SameProgress
  <2>4. r.peerClosed = TRUE
    BY <1>0, <2>2 DEF Kernel, Fields
  <2>5. On(r.peerClosed)
    BY Zenon, <2>4, Flags
  <2> QED
    BY Zenon, <2>3, <2>5, SegmentIsHeard
<1>8. ~ \E x \in echoes \cup {Stranger} : e = <<"echo", x>>
  OBVIOUS
<1> QED
  BY Zenon, <1>1, <1>2, <1>3, <1>4, <1>5, <1>6, <1>7, <1>8, EventIs
=============================================================================
