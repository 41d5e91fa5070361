------------------------------- MODULE Fetch -------------------------------
(***************************************************************************)
(* A fetch from the address the user typed to the page: the HTTP client    *)
(* (net/http.rs), the part of the TLS client that opens its connection     *)
(* (crypto/tls.rs), and the programs that use the network by polling it    *)
(* until they have an answer: the terminal's http, dns and ping commands   *)
(* (apps/terminal.rs) and the self-test at boot (net/mod.rs), with ICMP    *)
(* echo (net/icmp.rs).                                                     *)
(*                                                                         *)
(* There is one resolver, one TCP connection, one TLS session and one      *)
(* fetch in the machine, all of them global.  The kernel is one record;    *)
(* a handler is an operator from a kernel to the kernel it leaves.  TCP,   *)
(* the handshake and the resolver's packets are modelled in Tcp, Tls and   *)
(* NetConfig: here they are what they mean to a fetch.                     *)
(*                                                                         *)
(* Time passes in units of the resolver's RETRY_TICKS.                     *)
(***************************************************************************)
EXTENDS Integers, Sequences, FiniteSets

CONSTANTS
    Urls,          \* what a user may type: [scheme, host, port, path]
    TypedHosts,    \* hosts the user may give to dns and ping
    None,
    Dflt,          \* no port given: 443 or 80 by scheme
    Literals,      \* hosts that are addresses in dotted form
    AddrOf,        \* host -> its address; None: the name does not resolve
    Listeners,     \* <<address, port>> pairs that accept connections
    Site,          \* <<host, path>> -> [kind, declared, loc] at the host's own server
    Gateway,       \* the host the self-test pings, by its address
    SelftestName, SelftestUrl,
    HasDns,        \* DHCP handed out a DNS server
    DNS_ATTEMPTS,  \* dns.rs MAX_ATTEMPTS
    DEADLINE,      \* http.rs DEADLINE_SECS
    HTTP_WAIT,     \* terminal.rs: how long cmd_http waits
    DNS_WAIT,      \* terminal.rs: how long resolve waits
    MAX_HOPS,
    PINGS,         \* echoes a ping command sends
    PING_TRIES,    \* attempts at each
    StartBound,    \* fetches the browser starts
    CommandBound,  \* commands the user types
    LateBound      \* sends that are queued but cannot leave yet

ASSUME BoundsAssumption ==
    /\ {DNS_ATTEMPTS, DEADLINE, HTTP_WAIT, DNS_WAIT, MAX_HOPS, PINGS, PING_TRIES} \subseteq Nat
    /\ {StartBound, CommandBound, LateBound} \subseteq Nat
    /\ DNS_ATTEMPTS # 0

Paths == {d[2] : d \in DOMAIN Site}

PortNumbers == 0..65535   \* u16

Url ==
    [scheme : {"http", "https", "bare", "none"}, host : DOMAIN AddrOf \cup {None},
     port : PortNumbers \cup {Dflt}, path : Paths]

\* Addresses lead to hosts and paths that exist; only HTTP has redirects.
ASSUME WorldAssumption ==
    /\ Urls \subseteq Url /\ SelftestUrl \in Urls
    /\ TypedHosts \cup Literals \cup {Gateway, SelftestName} \subseteq DOMAIN AddrOf
    /\ Site \in [(DOMAIN AddrOf) \X Paths ->
                   [kind : {"page", "other"}, declared : BOOLEAN, loc : Url \cup {None}]]
    /\ \A d \in DOMAIN Site : Site[d].kind = "other" => Site[d].loc = None
    /\ \A l \in Listeners : l[1] # None

VARIABLES
    k,       \* the kernel: resolver, connection, TLS session, fetch, echo
    t,       \* the command that polls the network, if one runs
    boot,    \* commands of the self-test still to come
    echoes,  \* echo replies on the wire
    g        \* bounds and history, see Init

vars == <<k, t, boot, echoes, g>>

-----------------------------------------------------------------------------
(* The resolver and the connection, as far as a fetch can see them.        *)

\* Mutant: an answer nobody took is still there for the next name.
dns_start_keeps(kk, name) ==
    IF ~HasDns \/ kk.dns = "answered" THEN [kk EXCEPT !.name = name]
    ELSE [kk EXCEPT !.dns = "waiting", !.name = name, !.tries = 0, !.due = FALSE]

dns_start(kk, name) ==
    IF ~HasDns THEN kk
    ELSE [kk EXCEPT !.dns = "waiting", !.name = name, !.tries = 0, !.due = FALSE]

take_result(kk) == IF kk.dns = "answered" THEN [kk EXCEPT !.dns = "idle"] ELSE kk

dns_tick(kk) ==
    IF kk.dns # "waiting" \/ ~kk.due THEN kk
    ELSE IF kk.tries + 1 >= DNS_ATTEMPTS THEN [kk EXCEPT !.tries = @ + 1, !.dns = "failed"]
    ELSE [kk EXCEPT !.tries = @ + 1, !.due = FALSE]

tcp_reset(kk) ==
    [kk EXCEPT !.tcp = "Closed", !.addr = None, !.tport = 0, !.reqs = 0, !.rx = 0,
               !.peerClosed = FALSE, !.shake = "no"]

\* The state is SynSent even when the SYN cannot leave before ARP answers.
tcp_connect(kk, addr, port) ==
    [tcp_reset(kk) EXCEPT !.tcp = "SynSent", !.addr = addr, !.tport = port]

tcp_close(kk) == IF kk.tcp = "Established" THEN [kk EXCEPT !.tcp = "FinWait"] ELSE kk

\* Queued whenever the connection is up; told to have been sent unless late.
tcp_send(kk) ==
    IF kk.tcp # "Established" THEN [kk EXCEPT !.told = FALSE]
    ELSE [kk EXCEPT !.reqs = @ + 1, !.told = ~kk.late]

tls_fail(kk) == tcp_reset([kk EXCEPT !.session = "Failed"])

tls_start(kk, host, port) ==
    LET kr == tcp_reset([kk EXCEPT !.session = "Idle"])
    IN  IF host \in Literals
        THEN tcp_connect([kr EXCEPT !.session = "Connecting"], AddrOf[host], port)
        ELSE IF ~HasDns THEN [kr EXCEPT !.session = "Failed"]
        ELSE dns_start([kr EXCEPT !.session = "Connecting"], host)

\* The resolver is asked even when the host was an address.
tls_tick_connecting(kk) ==
    LET k1 == CASE kk.dns = "answered" -> tcp_connect(take_result(kk), kk.result, kk.port)
                [] kk.dns = "failed" -> tls_fail(kk)
                [] OTHER -> kk
    IN  IF k1.tcp = "Established" THEN [k1 EXCEPT !.session = "Handshaking"]
        ELSE IF k1.tcp = "Failed" THEN tls_fail(k1)
        ELSE k1

\* The handshake of module Tls: the server's flight is good or refused.
tls_tick_handshaking(kk) ==
    IF kk.shake = "bad" THEN tls_fail(kk)
    ELSE IF kk.tcp = "Failed" THEN tls_fail(kk)
    ELSE IF kk.shake = "good" THEN [kk EXCEPT !.session = "Established"]
    ELSE IF kk.tcp = "Closed" \/ kk.peerClosed THEN tls_fail(kk)
    ELSE kk

tls_tick(kk) ==
    CASE kk.session = "Connecting" -> tls_tick_connecting(kk)
      [] kk.session = "Handshaking" -> tls_tick_handshaking(kk)
      [] kk.session = "Established" /\ kk.peerClosed -> [kk EXCEPT !.session = "Closed"]
      [] OTHER -> kk

\* A record refused by TCP has used its sequence number; the session goes on.
tls_send(kk) ==
    IF kk.session # "Established" THEN [kk EXCEPT !.told = FALSE] ELSE tcp_send(kk)

-----------------------------------------------------------------------------
(* Starting a fetch.                                                       *)

http_fail(kk, code) == [kk EXCEPT !.err = code, !.phase = "Failed"]

PortOf(u) == IF u.port # Dflt THEN u.port ELSE IF u.scheme = "http" THEN 80 ELSE 443

begin_connect(kk, addr) == tcp_connect(kk, addr, kk.port)

\* Everything but HOPS and REMOTE starts again.
Cleared(kk) ==
    [tcp_reset(kk) EXCEPT !.phase = "Idle", !.err = 0, !.parsed = FALSE, !.sent = FALSE,
                          !.declared = FALSE, !.loc = None, !.since = -1]

\* A host without a scheme is asked for over TLS.
begin(kk, u) ==
    LET k1 == [Cleared(kk) EXCEPT !.tls = u.scheme # "http"]
        k2 == [k1 EXCEPT !.host = u.host, !.path = u.path, !.port = PortOf(u)]
        kc == [k2 EXCEPT !.phase = "Connecting"]
    IN  IF u.host = None THEN http_fail(k1, 1)
        ELSE IF k2.tls
        THEN LET ks == tls_start(kc, u.host, k2.port)
             IN  IF ks.session = "Failed" THEN http_fail(ks, 4) ELSE ks
        ELSE IF u.host \in Literals THEN begin_connect(kc, AddrOf[u.host])
        ELSE IF ~HasDns THEN http_fail(k2, 2)
        ELSE dns_start([k2 EXCEPT !.phase = "Resolving"], u.host)

start(kk, u) == begin([kk EXCEPT !.hops = 0], u)

in_progress(kk) == kk.phase \in {"Resolving", "Connecting", "Sending", "Receiving"}

-----------------------------------------------------------------------------
(* The response.                                                           *)

\* A server answers for its own hosts; for any other it has a page of its own.
Resource(kk) ==
    IF AddrOf[kk.host] = kk.addr THEN Site[<<kk.host, kk.path>>]
    ELSE [kind |-> "page", declared |-> TRUE, loc |-> None]

Page(kk) ==
    [addr |-> kk.addr, port |-> kk.tport, host |-> kk.host, path |-> kk.path, part |-> kk.rx]

\* rx: 0 nothing, 1 the status line, 2 the headers, 3 the body.
parse_headers(kk) ==
    LET r == Resource(kk)
    IN  CASE kk.rx = 0 -> kk
          [] kk.rx >= 1 /\ r.kind = "other" -> http_fail(kk, 6)
          [] kk.rx = 1 /\ r.kind # "other" -> kk
          [] OTHER -> [kk EXCEPT !.parsed = TRUE, !.declared = r.declared, !.loc = r.loc]

\* Where a Location leads; None when it is refused.  The port asked for is
\* not part of the host a relative address is resolved against.
redirect_target(kk) ==
    CASE kk.loc.scheme = "http" /\ kk.tls -> None
      [] kk.loc.scheme = "none" ->
            [scheme |-> IF kk.tls THEN "https" ELSE "http", host |-> kk.host,
             port |-> Dflt, path |-> kk.loc.path]
      [] OTHER -> kk.loc

\* Mutant: a hop starts a fetch of its own.
follow_redirect_afresh(kk) ==
    LET u == redirect_target(kk)
    IN  IF u = None THEN tcp_reset(http_fail(kk, 1)) ELSE start(kk, u)

follow_redirect(kk) ==
    LET k1 == [kk EXCEPT !.hops = @ + 1]
        u == redirect_target(kk)
    IN  IF k1.hops > MAX_HOPS THEN tcp_reset(http_fail(k1, 8))
        ELSE IF u = None THEN tcp_reset(http_fail(k1, 1))
        ELSE begin(k1, u)

-----------------------------------------------------------------------------
(* http::tick.                                                             *)

\* One deadline from the first tick of the fetch, or of the hop.
deadline(kk) ==
    IF ~in_progress(kk) THEN kk
    ELSE IF kk.since = -1 THEN [kk EXCEPT !.since = 0]
    ELSE IF kk.since > DEADLINE THEN tcp_reset(http_fail(kk, 7))
    ELSE kk

tick_resolving(kk) ==
    LET kd == dns_tick(kk)
    IN  CASE kd.dns = "answered" ->
               begin_connect([take_result(kd) EXCEPT !.phase = "Connecting",
                                                     !.remote = kd.result], kd.result)
          [] kd.dns = "failed" -> http_fail(kd, 3)
          [] OTHER -> kd

tick_connecting_tls(kk) ==
    LET ks == tls_tick(kk)
    IN  CASE ks.session = "Established" -> [ks EXCEPT !.phase = "Sending"]
          [] ks.session \in {"Failed", "Closed"} -> http_fail(ks, 4)
          [] OTHER -> ks

tick_connecting(kk) ==
    CASE kk.tcp = "Established" -> [kk EXCEPT !.phase = "Sending"]
      [] kk.tcp = "Failed" -> http_fail(kk, 4)
      [] kk.tcp = "Closed" /\ kk.remote # None -> begin_connect(kk, kk.remote)
      [] OTHER -> kk

transport_tick(kk) == IF kk.tls THEN tls_tick(kk) ELSE kk

tick_sending(kk) ==
    LET k1 == transport_tick(kk)
        k2 == IF k1.sent THEN k1 ELSE IF k1.tls THEN tls_send(k1) ELSE tcp_send(k1)
        k3 == IF ~k1.sent /\ k2.told THEN [k2 EXCEPT !.sent = TRUE, !.phase = "Receiving"]
              ELSE k2
    IN  IF k3.tcp = "Failed" THEN http_fail(k3, 5) ELSE k3

body_in(kk) == kk.parsed /\ kk.rx = 3

transport_done(kk) ==
    IF kk.tls THEN kk.session = "Closed"
    ELSE kk.tcp \in {"Closed", "FinSent"} /\ kk.peerClosed

\* Mutant: a closed connection ends the fetch before its redirect is looked at.
tick_receiving_done_first(kk) ==
    LET k1 == transport_tick(kk)
        k2 == IF k1.parsed THEN k1 ELSE parse_headers(k1)
    IN  IF transport_done(k2) THEN [k2 EXCEPT !.phase = "Done"]
        ELSE IF k2.loc # None THEN follow_redirect(k2)
        ELSE IF k2.declared /\ body_in(k2) THEN [tcp_close(k2) EXCEPT !.phase = "Done"]
        ELSE deadline(k2)

\* A response that is no HTTP fails the fetch, and the end of the
\* connection in the same pass finishes it all the same.
tick_receiving(kk) ==
    LET k1 == transport_tick(kk)
        k2 == IF k1.parsed THEN k1 ELSE parse_headers(k1)
    IN  IF k2.loc # None THEN follow_redirect(k2)
        ELSE IF k2.declared /\ body_in(k2) THEN [tcp_close(k2) EXCEPT !.phase = "Done"]
        ELSE IF transport_done(k2) THEN [k2 EXCEPT !.phase = "Done"]
        ELSE deadline(k2)

\* While TLS connects, the tick returns before it reaches the deadline.
http_tick(kk) ==
    CASE kk.phase = "Resolving" -> deadline(tick_resolving(kk))
      [] kk.phase = "Connecting" /\ kk.tls -> tick_connecting_tls(kk)
      [] kk.phase = "Connecting" /\ ~kk.tls -> deadline(tick_connecting(kk))
      [] kk.phase = "Sending" -> deadline(tick_sending(kk))
      [] kk.phase = "Receiving" -> tick_receiving(kk)
      [] OTHER -> kk

net_tick(kk) == http_tick(dns_tick(kk))

-----------------------------------------------------------------------------
(* ICMP echo.                                                              *)

icmp_request(kk, dst, seq) ==
    [kk EXCEPT !.echo = [pending |-> TRUE, seq |-> seq, target |-> dst,
                         seen |-> FALSE, from |-> None, rseq |-> 0, ours |-> TRUE]]

\* Any reply under our identifier is kept; only PENDING looks at its number.
icmp_handle(kk, r) ==
    IF ~r.ours THEN kk
    ELSE [kk EXCEPT !.echo = [kk.echo EXCEPT !.pending = @ /\ kk.echo.seq # r.seq, !.seen = TRUE,
                                             !.from = r.from, !.rseq = r.seq, !.ours = TRUE]]

take_reply(kk) == [kk EXCEPT !.echo.seen = FALSE]

-----------------------------------------------------------------------------
(* What may arrive in a poll.                                              *)

dns_handle(kk) ==
    IF AddrOf[kk.name] = None THEN [kk EXCEPT !.dns = "failed"]
    ELSE [kk EXCEPT !.dns = "answered", !.result = AddrOf[kk.name]]

arrive(kk, e) ==
    CASE e[1] = "none" -> kk
      [] e[1] = "answer" -> dns_handle(kk)
      [] e[1] = "synack" -> [kk EXCEPT !.tcp = "Established"]
      [] e[1] = "lost" -> [kk EXCEPT !.tcp = "Failed"]
      [] e[1] \in {"good", "bad"} -> [kk EXCEPT !.shake = e[1]]
      [] e[1] = "more" -> [kk EXCEPT !.rx = @ + 1]
      [] e[1] = "fin" -> [kk EXCEPT !.peerClosed = TRUE,
                                    !.tcp = IF @ = "FinWait" THEN "Closed" ELSE "FinSent"]
      [] e[1] = "echo" -> icmp_handle(kk, e[2])

\* An answer to another program's ping, under another identifier.
Stranger == [from |-> AddrOf[Gateway], seq |-> 1, ours |-> FALSE]

\* Servers accept where they listen and answer a request once it is complete;
\* any of them may fall silent, close or reset at any moment.
Events(kk) ==
    {<<"none">>}
      \cup {<<"answer">> : x \in {y \in {1} : kk.dns = "waiting"}}
      \cup {<<"synack">> : x \in {y \in {1} : kk.tcp = "SynSent" /\ <<kk.addr, kk.tport>> \in Listeners}}
      \cup {<<"lost">> : x \in {y \in {1} : kk.tcp \in {"SynSent", "Established"}}}
      \cup {<<h>> : h \in {y \in {"good", "bad"} : kk.session = "Handshaking" /\ kk.tcp = "Established"
                                                    /\ kk.shake = "no"}}
      \cup {<<"more">> : x \in {y \in {1} : kk.tcp = "Established" /\ kk.reqs > 0 /\ kk.rx < 3}}
      \cup {<<"fin">> : x \in {y \in {1} : kk.tcp \in {"Established", "FinWait"}}}
      \cup {<<"echo", r>> : r \in echoes \cup {Stranger}}

-----------------------------------------------------------------------------
(* The machine.                                                            *)

IdleCommand ==
    [cmd |-> "idle", then |-> "show", target |-> None, waited |-> 0, seq |-> 0,
     tries |-> 0, out |-> FALSE]

\* net::selftest, in order; a step that fails ends it.
selftest ==
    << <<"ping", Gateway>>, <<"dns", SelftestName>>, <<"far", SelftestName>>,
       <<"http", SelftestUrl>> >>

\* What happens after the self-test is what happens without one.
Init ==
    /\ k = [dns |-> "idle", name |-> None, result |-> None, tries |-> 0, due |-> FALSE,
            tcp |-> "Closed", addr |-> None, tport |-> 0, reqs |-> 0, rx |-> 0,
            peerClosed |-> FALSE, shake |-> "no", session |-> "Idle", late |-> FALSE, told |-> FALSE,
            phase |-> "Idle", err |-> 0, hops |-> 0, tls |-> FALSE, host |-> None, port |-> 80,
            path |-> None, remote |-> None, sent |-> FALSE, parsed |-> FALSE,
            declared |-> FALSE, loc |-> None, since |-> -1,
            echo |-> [pending |-> FALSE, seq |-> 0, target |-> None, seen |-> FALSE,
                      from |-> None, rseq |-> 0, ours |-> TRUE]]
    /\ t = IdleCommand
    /\ boot \in {<<>>, selftest}
    /\ echoes = {}
    /\ g = [starts |-> IF boot = <<>> THEN StartBound ELSE 0,
            cmds |-> IF boot = <<>> THEN CommandBound ELSE 0,
            lates |-> LateBound, want |-> SelftestUrl, begins |-> 0, age |-> 0,
            fresh |-> FALSE, crossed |-> FALSE, slow |-> FALSE, lied |-> FALSE]

\* The resolver works for somebody else while the fetch waits for it.
Foreign(kk) ==
    /\ in_progress(kk)
    /\ kk.phase = "Resolving" \/ (kk.tls /\ kk.session = "Connecting")
    /\ kk.dns \in {"waiting", "answered"}
    /\ kk.name # kk.host

Note(gg) == [gg EXCEPT !.crossed = @ \/ Foreign(k')]

Started(u) ==
    [g EXCEPT !.want = u, !.begins = 1, !.age = 0, !.crossed = Foreign(k')]

\* A redirect has been followed.
Hopped == k.phase = "Receiving" /\ k'.phase \in {"Resolving", "Connecting"}

desktop == t.cmd = "idle" /\ boot = <<>>

\* The loop's condition in the command that waits, or the desktop's loop.
polling ==
    \/ desktop
    \/ t.cmd = "http" /\ in_progress(k) /\ t.waited <= HTTP_WAIT
    \/ t.cmd = "dns" /\ k.dns = "waiting" /\ t.waited < DNS_WAIT
    \/ t.cmd = "ping" /\ t.out /\ ~k.echo.seen

\* net::poll: the frames that have come, then the timers.
poll(e1, e2, late) ==
    /\ polling
    /\ k' = [net_tick([arrive(arrive(k, e1), e2) EXCEPT !.late = late])
               EXCEPT !.late = FALSE, !.told = FALSE]
    /\ echoes' = echoes \ {e[2] : e \in {x \in {e1, e2} : x[1] = "echo"}}
    /\ g' = Note([g EXCEPT !.fresh = TRUE, !.lates = IF late THEN @ - 1 ELSE @,
                           !.begins = IF Hopped THEN @ + 1 ELSE @,
                           !.age = IF Hopped THEN 0 ELSE @])
    /\ UNCHANGED <<t, boot>>

Poll ==
    \E e1 \in Events(k) : \E e2 \in Events(arrive(k, e1)) : \E late \in {FALSE, g.lates > 0} :
      /\ e1 = <<"none">> => e2 = <<"none">>
      /\ e1[1] = "echo" => e2 # e1
      /\ late => k.phase = "Sending"
      /\ poll(e1, e2, late)

Cap(n) == IF n > DEADLINE + 2 THEN n ELSE n + 1

\* RETRY_TICKS of the PIT go by; the machine polls many times in between.
Time ==
    /\ g.fresh
    /\ k' = [k EXCEPT !.due = k.dns = "waiting",
                      !.since = IF @ = -1 \/ @ > DEADLINE \/ ~in_progress(k) THEN @ ELSE @ + 1]
    /\ t' = IF t.cmd \in {"http", "dns"} /\ t.waited <= HTTP_WAIT
            THEN [t EXCEPT !.waited = @ + 1] ELSE t
    /\ g' = [g EXCEPT !.fresh = FALSE, !.age = IF in_progress(k) THEN Cap(@) ELSE @]
    /\ UNCHANGED <<boot, echoes>>

\* The user enters an address in the browser, or a load asks for the next thing.
Browse(u) ==
    /\ desktop /\ g.starts > 0
    /\ k' = start(k, u)
    /\ g' = [Started(u) EXCEPT !.starts = @ - 1]
    /\ UNCHANGED <<t, boot, echoes>>

\* Who begins a command: the user at the desktop, or the self-test.
Begins(c, arg) ==
    \/ /\ desktop /\ g.cmds > 0
       /\ boot' = boot
    \/ /\ t.cmd = "idle" /\ boot # <<>> /\ Head(boot) = <<c, arg>>
       /\ boot' = Tail(boot)

cmd_http(u) ==
    /\ Begins("http", u)
    /\ k' = start(k, u)
    /\ t' = IF in_progress(k') THEN [IdleCommand EXCEPT !.cmd = "http"] ELSE IdleCommand
    /\ g' = [Started(u) EXCEPT !.cmds = IF boot = <<>> THEN @ - 1 ELSE @]
    /\ UNCHANGED echoes

\* The fetch is over, or the command gives up on it and leaves it running.
HttpEnds ==
    /\ t.cmd = "http" /\ ~polling
    /\ t' = IdleCommand
    /\ UNCHANGED <<k, boot, echoes, g>>

\* resolve: an address needs no query.
resolve(host, then) ==
    /\ IF host \in Literals
       THEN /\ t' = [IdleCommand EXCEPT !.cmd = IF then = "ping" THEN "ping" ELSE "idle",
                                        !.target = AddrOf[host], !.seq = 1]
            /\ k' = k
       ELSE /\ k' = dns_start(k, host)
            /\ t' = IF HasDns THEN [IdleCommand EXCEPT !.cmd = "dns", !.then = then] ELSE IdleCommand
    /\ g' = [Note(g) EXCEPT !.cmds = IF boot = <<>> THEN @ - 1 ELSE @]
    /\ UNCHANGED echoes

cmd_dns(host) == Begins("dns", host) /\ resolve(host, "show")

cmd_ping(host) == Begins("ping", host) /\ resolve(host, "ping")

\* The wait is over: the answer is taken if there is one, else the query
\* stays with the resolver.
ResolveEnds ==
    /\ t.cmd = "dns" /\ ~polling
    /\ k' = take_result(k)
    /\ t' = IF k.dns = "answered" /\ t.then = "ping"
            THEN [IdleCommand EXCEPT !.cmd = "ping", !.target = k.result, !.seq = 1]
            ELSE IdleCommand
    /\ boot' = IF k.dns = "answered" THEN boot ELSE <<>>
    /\ g' = Note(g)
    /\ UNCHANGED echoes

NextSeq ==
    IF t.seq < PINGS THEN [t EXCEPT !.seq = @ + 1, !.tries = 0, !.out = FALSE] ELSE IdleCommand

\* The self-test stops when no echo at all came back from the gateway.
BootAfter(tt) == IF tt = IdleCommand /\ t.then # "far" THEN <<>> ELSE boot

\* The self-test's ping of an address off the subnet.  Nothing depends on it.
far_ping(host) ==
    /\ t.cmd = "idle" /\ boot # <<>> /\ Head(boot) = <<"far", host>>
    /\ boot' = Tail(boot)
    /\ t' = [IdleCommand EXCEPT !.cmd = "ping", !.then = "far", !.target = AddrOf[host],
                                !.seq = PINGS + 1]
    /\ UNCHANGED <<k, echoes, g>>

\* The echo goes out, or the next hop is not resolved yet.
PingSend(hop) ==
    /\ t.cmd = "ping" /\ ~t.out
    /\ IF hop
       THEN /\ k' = icmp_request(k, t.target, t.seq)
            /\ t' = [t EXCEPT !.out = TRUE]
            /\ echoes' \in {echoes, echoes \cup {[from |-> t.target, seq |-> t.seq, ours |-> TRUE]}}
       ELSE /\ t' = IF t.tries + 1 = PING_TRIES THEN NextSeq ELSE [t EXCEPT !.tries = @ + 1]
            /\ UNCHANGED <<k, echoes>>
    /\ boot' = BootAfter(t')
    /\ g' = g

\* The reply about to be shown is the one asked for.
Truthful ==
    k.echo.ours /\ (~g.slow => k.echo.rseq = t.seq /\ k.echo.from = t.target)

PingReply ==
    /\ t.cmd = "ping" /\ t.out /\ k.echo.seen
    /\ k' = take_reply(k)
    /\ g' = [g EXCEPT !.lied = @ \/ ~Truthful]
    /\ t' = IF boot = <<>> THEN NextSeq ELSE IdleCommand
    /\ UNCHANGED <<boot, echoes>>

\* A second without an answer: try again, or report the loss.
PingTimeout ==
    /\ t.cmd = "ping" /\ t.out /\ ~k.echo.seen
    /\ t' = IF t.tries + 1 = PING_TRIES THEN NextSeq ELSE [t EXCEPT !.tries = @ + 1, !.out = FALSE]
    /\ boot' = BootAfter(t')
    /\ g' = [g EXCEPT !.slow = @ \/ \E r \in echoes : r.ours]
    /\ UNCHANGED <<k, echoes>>

Next ==
    \/ Poll
    \/ Time
    \/ \E u \in Urls : Browse(u) \/ cmd_http(u)
    \/ \E h \in TypedHosts \cup {Gateway, SelftestName} : cmd_dns(h) \/ cmd_ping(h)
    \/ far_ping(SelftestName)
    \/ HttpEnds
    \/ ResolveEnds
    \/ \E hop \in BOOLEAN : PingSend(hop)
    \/ PingReply
    \/ PingTimeout

Spec == Init /\ [][Next]_vars

-----------------------------------------------------------------------------
(* Properties.                                                             *)

\* The fields of the kernel that are written from more than one place keep
\* their types: phase and session by http.rs and tls.rs, dns by every program.
TypeOK ==
    /\ k.phase \in {"Idle", "Resolving", "Connecting", "Sending", "Receiving", "Done", "Failed"}
    /\ k.session \in {"Idle", "Connecting", "Handshaking", "Established", "Closed", "Failed"}
    /\ k.dns \in {"idle", "waiting", "answered", "failed"}
    /\ k.tcp \in {"Closed", "SynSent", "Established", "FinWait", "FinSent", "Failed"}
    /\ k.err \in 0..8 /\ k.hops \in 0..MAX_HOPS + 1 /\ k.since \in -1..DEADLINE + 1
    /\ k.tries \in 0..DNS_ATTEMPTS /\ k.rx \in 0..3

\* A fetch talks to the server of the host it was asked for: the address the
\* connection goes to (http.rs begin_connect, tls.rs tick) is the one its
\* host resolves to, on the port of the address typed or redirected to,
\* unless another program's lookup has met it.
RightServer ==
    in_progress(k) /\ k.addr # None /\ ~g.crossed
      => k.addr = AddrOf[k.host] /\ k.tport = k.port

\* A page asked for over TLS, as a bare host is, is never fetched in clear,
\* whatever chain of redirects it goes through (http.rs follow_redirect).
NeverInClear == in_progress(k) /\ g.want.scheme # "http" => k.tls

\* A chain of redirects is a bounded number of fetches (http.rs MAX_HOPS).
HopsBounded == g.begins <= MAX_HOPS + 1

\* Every hop of a fetch in clear is over DEADLINE after its first tick,
\* whatever its server does or does not do (http.rs tick).
PlainDeadline == in_progress(k) /\ ~k.tls => g.age <= DEADLINE + 2

\* Nobody waits for the answer to a request that was never handed to TCP.
AskedBeforeWaiting == k.phase = "Receiving" => k.reqs >= 1

\* What ping shows is an answer to an echo of this machine; and when no
\* answer took longer than ping waits, to the one it is shown for
\* (icmp.rs handle and take_reply under terminal.rs cmd_ping).
PingTruth == ~g.lied

\* What is shown came from the machine that was asked, over the transport
\* that was asked for.
RightPeer == TypeOK /\ RightServer /\ NeverInClear /\ AskedBeforeWaiting /\ PingTruth

\* A fetch is a bounded number of hops, each in clear of bounded length.
FetchBounded == HopsBounded /\ PlainDeadline

-----------------------------------------------------------------------------
(* The fetch as its users see it.                                          *)

\* The addresses one redirect away from u, as follow_redirect documents them.
Hop(u) ==
    LET secure == u.scheme # "http"
        r == Site[<<u.host, u.path>>].loc
    IN  IF u.host = None \/ AddrOf[u.host] = None \/ r = None THEN {}
        ELSE IF r.scheme = "none"
        THEN {[u EXCEPT !.scheme = IF secure THEN "https" ELSE "http", !.port = Dflt, !.path = r.path]}
        ELSE IF r.scheme = "http" /\ secure THEN {}
        ELSE {r}

\* The addresses at most MAX_HOPS redirects away.
Chain(u) ==
    LET after[n \in 0..MAX_HOPS] == IF n = 0 THEN {u} ELSE UNION {Hop(v) : v \in after[n - 1]}
    IN  UNION {after[n] : n \in 0..MAX_HOPS}

Reachable(u) == {v \in Chain(u) : v.host # None}

PageAt(v, n) ==
    [addr |-> AddrOf[v.host], port |-> PortOf(v), host |-> v.host, path |-> v.path, part |-> n]

\* Complete or cut off; a redirect is a page only when it was cut off.
LandsOn(u) == {PageAt(v, n) : v \in Reachable(u), n \in 0..3}

RealPages(u) ==
    {p \in LandsOn(u) : p.part < 2 \/ Site[<<p.host, p.path>>].loc = None}

Addresses == {AddrOf[h] : h \in DOMAIN AddrOf}

Ports == {l[2] : l \in Listeners}

AnyPage ==
    {[addr |-> a, port |-> p, host |-> h, path |-> q, part |-> n] :
       a \in Addresses, p \in Ports, h \in DOMAIN AddrOf, q \in Paths, n \in 0..3}

\* Refinement mapping: the fetch started last is the client's call.
Client == INSTANCE HttpClient WITH
    Pages <- AnyPage,
    LeadsTo <- RealPages,
    NoPage <- None,
    call <- CASE k.phase = "Idle" -> "none"
              [] in_progress(k) -> "busy"
              [] k.phase = "Done" -> "done"
              [] k.phase = "Failed" -> "failed",
    url <- g.want,
    page <- IF k.phase = "Done" THEN Page(k) ELSE None,
    crossed <- g.crossed

\* The HTTP client keeps what HttpClient promises: a fetch ends with a page
\* its address leads to through redirects, or fails, and a new start replaces it.
ImplementsClient == Client!ClientSpec
=============================================================================
