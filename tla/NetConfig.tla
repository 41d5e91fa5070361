----------------------------- MODULE NetConfig -----------------------------
(***************************************************************************)
(* How the machine gets onto the network and stays there: the DHCP client  *)
(* (net/dhcp.rs), the fallback address (net/mod.rs), the ARP cache         *)
(* (net/arp.rs), routing and the address filter (net/ipv4.rs), UDP         *)
(* dispatch (net/udp.rs) and the DNS resolver (net/dns.rs).                *)
(*                                                                         *)
(* The kernel is one record, because every one of these protocols runs     *)
(* inside a single call of net::poll: frames are handled in the order the  *)
(* receive ring holds them, then net::tick advances every timer.  A        *)
(* handler is an operator from a kernel to the kernel it leaves; what it   *)
(* puts on the wire is collected in the field sent.                        *)
(*                                                                         *)
(* The network answers with conforming DHCP servers, LAN hosts and a DNS   *)
(* server.  An answer may be delivered late, out of order or never, and    *)
(* DupBound of them may be delivered again.                                *)
(***************************************************************************)
EXTENDS Integers, Sequences, FiniteSets, SequencesExt

CONSTANTS
    Servers,       \* DHCP servers: [id, addr, mask, router, dns]; None = option absent
    None,          \* an option a message does not carry
    Lan,           \* addresses of hosts that answer ARP requests
    Announced,     \* the LAN host that has just come up
    Names,         \* host names that may be asked for
    AddrOf,        \* what the DNS server answers for a name; None: an error code
    FALLBACK_IP,   \* net/mod.rs:44
    TypedIps,      \* addresses the user may give the terminal's ip command
    FirstIds,      \* QUERY_ID when the behaviour starts
    CACHE_SIZE,    \* slots of the ARP cache
    DHCP_ATTEMPTS, \* dhcp.rs MAX_ATTEMPTS
    DNS_ATTEMPTS,  \* dns.rs MAX_ATTEMPTS
    RX_DESC,       \* frames one poll takes from the receive ring
    DupBound,      \* frames the network delivers twice
    QueryBound     \* queries the applications start

\* 0.0.0.0.  An address is a network and a host number; net/mod.rs UNCONFIGURED.
UNCONFIGURED == [net |-> 0, host |-> 0]
\* A mask either compares the network part or nothing.
DEFAULT_MASK == 1

Addrs ==
    {UNCONFIGURED, FALLBACK_IP} \cup Lan \cup TypedIps
      \cup UNION {{s.id, s.addr, s.router, s.dns} : s \in Servers}

VARIABLES
    k,         \* the kernel's network state
    wire,      \* frames on their way to the kernel
    dups,      \* frames the network has duplicated so far
    asked,     \* queries started so far
    settled,   \* net::settle has returned: applications run
    seen       \* what has happened: [acked, reoffered, moved, late]

vars == <<k, wire, dups, asked, settled, seen>>

-----------------------------------------------------------------------------
(* Frames.  Requests leave the kernel, the others arrive at it.            *)

Discover == [type |-> "discover"]
Request(server, addr) == [type |-> "request", server |-> server, addr |-> addr]
WhoHas(ip) == [type |-> "whohas", ip |-> ip]
Query(id, name, src) == [type |-> "query", id |-> id, name |-> name, src |-> src]

Offer(s) == [type |-> "offer", lease |-> s]
Ack(s) == [type |-> "ack", lease |-> s]
IsAt(ip) == [type |-> "isat", ip |-> ip]
Answer(q) == [type |-> "answer", id |-> q.id, addr |-> AddrOf[q.name], dst |-> q.src]

\* A server offers its address to a DISCOVER and acknowledges a REQUEST that
\* names it; a LAN host answers for its address; the DNS server answers a
\* query from an address the network routes to.
Replies(q) ==
    CASE q.type = "discover" -> {Offer(s) : s \in Servers}
      [] q.type = "request" ->
            {Ack(s) : s \in {t \in Servers : t.id = q.server /\ t.addr = q.addr}}
      [] q.type = "whohas" -> IF q.ip \in Lan THEN {IsAt(q.ip)} ELSE {}
      [] q.type = "query" ->
            IF \E s \in Servers : s.addr = q.src THEN {Answer(q)} ELSE {}

-----------------------------------------------------------------------------
(* ARP cache: slot i is None or the address it resolves.  The hardware     *)
(* address is the host's own, so it is not kept.                           *)

lookup(kk, ip) == \E i \in 0..CACHE_SIZE - 1 : kk.cache[i] = ip

\* The slot remember() leaves in its variable slot.  Zero doubles as "none
\* found yet", so slot 0 is taken only when no other slot is free.
SlotFor(cache, ip) ==
    LET Matching == {i \in 0..CACHE_SIZE - 1 : cache[i] = ip}
        Free == {i \in 1..CACHE_SIZE - 1 : cache[i] = None}
    IN  IF Matching # {} THEN Min(Matching) ELSE IF Free # {} THEN Min(Free) ELSE 0

remember(kk, ip) == [kk EXCEPT !.cache[SlotFor(kk.cache, ip)] = ip]

-----------------------------------------------------------------------------
(* IPv4 and UDP.                                                           *)

on_link(kk, ip) == kk.mask = 0 \/ kk.ip.net = ip.net

\* Mutant: the frame for an address off our network goes to that address.
next_hop_direct(kk, ip) == ip

next_hop(kk, ip) ==
    IF on_link(kk, ip) \/ kk.gateway = UNCONFIGURED THEN ip ELSE kk.gateway

\* An unresolved next hop turns the datagram into an ARP request.
ipv4_send(kk, dst, msg) ==
    LET hop == next_hop(kk, dst)
    IN  [kk EXCEPT !.sent = @ \cup {IF lookup(kk, hop) THEN msg ELSE WhoHas(hop)}]

send_broadcast(kk, msg) == [kk EXCEPT !.sent = @ \cup {msg}]

\* A datagram from 0.0.0.0 is broadcast without resolving anything.
udp_send(kk, dst, msg) ==
    IF kk.ip = UNCONFIGURED THEN send_broadcast(kk, msg) ELSE ipv4_send(kk, dst, msg)

-----------------------------------------------------------------------------
(* DHCP client.                                                            *)

in_progress(kk) == kk.dhcp \in {"Discovering", "Requesting"}

send_discover(kk) == send_broadcast([kk EXCEPT !.dhcpDue = FALSE], Discover)

send_request(kk) ==
    send_broadcast([kk EXCEPT !.dhcpDue = FALSE], Request(kk.server, kk.offered))

\* An OFFER is taken in any state, a bound lease included.
handle_offer(kk, s) ==
    send_request([kk EXCEPT !.offered = s.addr, !.server = s.id,
                            !.dhcp = "Requesting", !.attempts = 0])

Given(option, old) == IF option = None THEN old ELSE option

\* Mutant: the lease is installed but the state stays as it was.
handle_ack_unbound(kk, s) ==
    [kk EXCEPT !.ip = s.addr,
               !.mask = Given(s.mask, @),
               !.gateway = Given(s.router, @),
               !.dnsServer = Given(s.dns, @)]

\* An ACK is taken in any state; an option it lacks keeps its old value.
handle_ack(kk, s) ==
    [kk EXCEPT !.ip = s.addr,
               !.mask = Given(s.mask, @),
               !.gateway = Given(s.router, @),
               !.dnsServer = Given(s.dns, @),
               !.dhcp = "Bound"]

dhcp_tick(kk) ==
    IF ~in_progress(kk) \/ ~kk.dhcpDue THEN kk
    ELSE LET n == kk.attempts + 1
             kn == [kk EXCEPT !.attempts = n]
         IN  IF n >= DHCP_ATTEMPTS THEN [kn EXCEPT !.dhcp = "Failed"]
             ELSE IF kk.dhcp = "Discovering" THEN send_discover(kn) ELSE send_request(kn)

-----------------------------------------------------------------------------
(* DNS resolver.                                                           *)

send_query(kk) ==
    udp_send([kk EXCEPT !.dnsDue = FALSE], kk.dnsServer,
             Query(kk.queryId, kk.name, kk.ip))

\* Mutant: every query goes out with the same id.
NextIdSame(id) == 256

\* wrapping_add(1) | 0x0100 on a u16.
NextId(id) ==
    LET n == (id + 1) % 65536
    IN  IF (n \div 256) % 2 = 1 THEN n ELSE n + 256

dns_start(kk, n) ==
    IF kk.dnsServer = UNCONFIGURED THEN kk
    ELSE send_query([kk EXCEPT !.name = n, !.queryId = NextId(@),
                               !.tries = 0, !.dns = "waiting"])

take_result(kk) == IF kk.dns = "answered" THEN [kk EXCEPT !.dns = "idle"] ELSE kk

\* Mutant: the last retransmission is the last step.
dns_tick_stuck(kk) ==
    IF kk.dns # "waiting" \/ ~kk.dnsDue THEN kk
    ELSE IF kk.tries + 1 >= DNS_ATTEMPTS THEN kk
    ELSE send_query([kk EXCEPT !.tries = @ + 1])

dns_tick(kk) ==
    IF kk.dns # "waiting" \/ ~kk.dnsDue THEN kk
    ELSE LET kn == [kk EXCEPT !.tries = @ + 1]
         IN  IF kn.tries >= DNS_ATTEMPTS THEN [kn EXCEPT !.dns = "failed"]
             ELSE send_query(kn)

\* Only while waiting, and only under the id of the outstanding query.
handle_answer(kk, m) ==
    IF kk.dns # "waiting" \/ m.id # kk.queryId THEN kk
    ELSE IF m.addr = None THEN [kk EXCEPT !.dns = "failed"]
    ELSE [kk EXCEPT !.dns = "answered", !.result = m.addr]

-----------------------------------------------------------------------------
(* net::poll.                                                              *)

\* DHCP replies are broadcast; anything else must be for our address.
ipv4_accepts(kk, m) == m.type \in {"offer", "ack"} \/ m.dst = kk.ip

\* The listener of the port: the DHCP client or the resolver.
udp_handle(kk, m) ==
    CASE m.type = "offer" -> handle_offer(kk, m.lease)
      [] m.type = "ack" -> handle_ack(kk, m.lease)
      [] m.type = "answer" -> handle_answer(kk, m)

dispatch(kk, m) ==
    IF m.type = "isat" THEN remember(kk, m.ip)
    ELSE IF ipv4_accepts(kk, m) THEN udp_handle(kk, m) ELSE kk

\* net::tick: the timers, then the fallback address, once.
net_tick(kk) ==
    LET kt == dns_tick(dhcp_tick(kk))
    IN  IF ~kt.fallbackApplied /\ kt.dhcp = "Failed"
        THEN [kt EXCEPT !.fallbackApplied = TRUE, !.ip = FALLBACK_IP]
        ELSE kt

\* What one poll makes of the frames in the receive ring.
polled(kk, frames) == net_tick(FoldLeft(dispatch, kk, frames))

\* The kernel becomes kn, and the network answers what it sent.
Becomes(kn, taken) ==
    /\ k' = [kn EXCEPT !.sent = {}]
    /\ wire' = (wire \ taken) \cup UNION {Replies(q) : q \in kn.sent}

-----------------------------------------------------------------------------
(* The machine.                                                            *)

\* net::init has run with an adapter present: no address, one DISCOVER out.
\* One LAN host has announced itself, as hosts do when they come up.
Init ==
    /\ \E id \in FirstIds :
         k = [ip |-> UNCONFIGURED, mask |-> DEFAULT_MASK, gateway |-> UNCONFIGURED,
              dnsServer |-> UNCONFIGURED, fallbackApplied |-> FALSE,
              dhcp |-> "Discovering", attempts |-> 0, dhcpDue |-> FALSE,
              offered |-> UNCONFIGURED, server |-> UNCONFIGURED,
              dns |-> "idle", queryId |-> id, name |-> None, result |-> UNCONFIGURED,
              tries |-> 0, dnsDue |-> FALSE,
              cache |-> [i \in 0..CACHE_SIZE - 1 |-> None],
              sent |-> {}]
    /\ wire = Replies(Discover) \cup {IsAt(Announced)}
    /\ dups = 0
    /\ asked = 0
    /\ settled = FALSE
    /\ seen = [acked |-> FALSE, reoffered |-> FALSE, moved |-> FALSE, late |-> FALSE]

\* Frames in the order the ring holds them, each once.
Rings == {f \in UNION {[1..n -> wire] : n \in 0..RX_DESC} :
            \A i, j \in DOMAIN f : f[i] = f[j] => i = j}

\* One pass of net::poll over the frames; one of them may come again later.
poll(frames) ==
    \E again \in {{}} \cup {{m} : m \in Range(frames)} :
      LET Before(i) == FoldLeft(dispatch, k, SubSeq(frames, 1, i - 1))
      IN  /\ dups + Cardinality(again) <= DupBound
          /\ dups' = dups + Cardinality(again)
          /\ Becomes(polled(k, frames), Range(frames) \ again)
          /\ seen' = [seen EXCEPT
                        !.acked = @ \/ \E m \in Range(frames) : m.type = "ack",
                        !.reoffered = @ \/ \E i \in DOMAIN frames :
                                              /\ frames[i].type = "offer"
                                              /\ Before(i).dhcp = "Bound",
                        !.moved = @ \/ (settled /\ k'.ip # k.ip)]
          /\ UNCHANGED <<asked, settled>>

Poll == \E frames \in Rings : poll(frames)

\* RETRY_TICKS of the PIT go by since the last DISCOVER or REQUEST.
DhcpTimer ==
    /\ in_progress(k) /\ ~k.dhcpDue
    /\ k' = [k EXCEPT !.dhcpDue = TRUE]
    /\ seen' = [seen EXCEPT !.late = @ \/ wire # {}]
    /\ UNCHANGED <<wire, dups, asked, settled>>

\* RETRY_TICKS of the PIT go by since the last query.
DnsTimer ==
    /\ k.dns = "waiting" /\ ~k.dnsDue
    /\ k' = [k EXCEPT !.dnsDue = TRUE]
    /\ seen' = [seen EXCEPT !.late = @ \/ wire # {}]
    /\ UNCHANGED <<wire, dups, asked, settled>>

\* net::settle returns, and with it the boot: the desktop's loop starts.
settle ==
    /\ ~settled /\ ~in_progress(k)
    /\ settled' = TRUE
    /\ UNCHANGED <<k, wire, dups, asked, seen>>

\* An application resolves a name.
StartQuery(n) ==
    /\ settled /\ asked < QueryBound
    /\ asked' = asked + 1
    /\ Becomes(dns_start(k, n), {})
    /\ UNCHANGED <<dups, settled, seen>>

\* An application collects the address.
TakeResult ==
    /\ settled /\ k.dns = "answered"
    /\ k' = take_result(k)
    /\ UNCHANGED <<wire, dups, asked, settled, seen>>

\* The user types an address into the terminal's ip command.
cmd_ip(a) ==
    /\ settled
    /\ k' = [k EXCEPT !.ip = a]
    /\ seen' = [seen EXCEPT !.moved = TRUE]
    /\ UNCHANGED <<wire, dups, asked, settled>>

Next ==
    \/ Poll
    \/ DhcpTimer
    \/ DnsTimer
    \/ settle
    \/ \E n \in Names : StartQuery(n)
    \/ TakeResult
    \/ \E a \in TypedIps : cmd_ip(a)

\* A poll that finds no frame but a timer that has run out.
PollDue == (k.dhcpDue \/ k.dnsDue) /\ poll(<<>>)

\* The input loop polls for ever and the PIT keeps counting; nothing is
\* assumed of the network.
Fairness == WF_vars(PollDue) /\ WF_vars(DhcpTimer) /\ WF_vars(DnsTimer)

Spec == Init /\ [][Next]_vars /\ Fairness

-----------------------------------------------------------------------------
(* Properties.                                                             *)

\* Every field keeps its type; in particular the attempt counters stay within
\* the budgets dhcp::tick and dns::tick compare them with.
TypeOK ==
    /\ k.ip \in Addrs /\ k.offered \in Addrs /\ k.server \in Addrs
    /\ k.gateway \in Addrs /\ k.dnsServer \in Addrs /\ k.mask \in {0, 1}
    /\ k.dhcp \in {"Discovering", "Requesting", "Bound", "Failed"}
    /\ k.attempts \in 0..DHCP_ATTEMPTS
    /\ k.dns \in {"idle", "waiting", "answered", "failed"}
    /\ k.queryId \in 0..65535 /\ k.tries \in 0..DNS_ATTEMPTS
    /\ \A i \in 0..CACHE_SIZE - 1 : k.cache[i] \in Lan \cup {None}
    /\ k.sent = {}

\* The address a query ends with is the one of the name asked last, however
\* late the answers to earlier queries arrive and wherever QUERY_ID wraps
\* (dns.rs:88, "a late answer to the previous one is ignored").
AnswerIsForName == k.dns = "answered" => k.result = AddrOf[k.name]

\* No address has two slots of the ARP cache, so lookup() never has to choose
\* between an old and a new answer (arp.rs remember).
OneSlotPerAddress ==
    \A i, j \in 0..CACHE_SIZE - 1 : k.cache[i] # None /\ k.cache[i] = k.cache[j] => i = j

\* A lookup, of a name or of an address, gives the answer to that question.
LookupsTrue == TypeOK /\ AnswerIsForName /\ OneSlotPerAddress

\* While the network delivers everything before the timers run out, DHCP
\* reaches a lease; and if the address then stays the same, every query for a
\* name that exists is answered: the retransmission budget pays for the ARP
\* exchange too (ipv4.rs send, dns.rs tick, dhcp.rs tick).
PromptNetworkWorks ==
    ~seen.late /\ ~seen.moved =>
        /\ k.dhcp # "Failed"
        /\ k.dns = "failed" => AddrOf[k.name] = None

\* The fallback address replaces a lease only if an OFFER arrived after the
\* machine was bound (dhcp.rs handle, net/mod.rs tick).
FallbackSparesLease ==
    [][~k.fallbackApplied /\ k'.fallbackApplied => ~seen.acked \/ seen.reoffered']_vars

\* The exchange ends, bound or given up, so that settle() returns (net/mod.rs
\* 156-157), whatever the network loses.
ExchangeEnds == in_progress(k) ~> ~in_progress(k)

\* A query ends, answered or failed, and the terminal's wait with it (dns.rs
\* tick).
QueryEnds == k.dns = "waiting" ~> k.dns # "waiting"

\* Both exchanges end, on a network that may lose everything.
ExchangesEnd == ExchangeEnds /\ QueryEnds
=============================================================================
