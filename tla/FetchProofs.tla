---------------------------- MODULE FetchProofs -----------------------------
(***************************************************************************)
(* The fetch and the programs that poll for an answer, for any sites,      *)
(* names, servers, deadlines and retry limits, and any number of fetches,  *)
(* commands and hops.                                                      *)
(*                                                                         *)
(* Inv adds to Steady and Staged of FetchSteps the history: how many hops, *)
(* how old the hop is against its clock, and that at most one echo is out. *)
(* RightPeer and FetchBounded follow.  Chained adds that the fetch asks    *)
(* for an address as many redirects down the chain as it has hops behind   *)
(* it, and with it every step is a step of HttpClient.                     *)
(***************************************************************************)
EXTENDS FetchSteps

(* The state *)

EchoFields == {"pending", "seq", "target", "seen", "from", "rseq", "ours"}

CommandFields == {"cmd", "then", "target", "waited", "seq", "tries", "out"}

HistoryFields ==
  {"starts", "cmds", "lates", "want", "begins", "age", "fresh", "crossed", "slow", "lied"}

\* Of the echoes sent at most the last is still to be answered or shown,
\* unless one has been given up before its answer came.
InTurn(ec, tt, es, slow) ==
  /\ DOMAIN ec = EchoFields /\ On(ec.ours) /\ Flag(ec.seen)
  /\ ~ On(slow) /\ es # {} =>
       /\ tt.cmd = "ping" /\ On(tt.out) /\ Off(ec.seen)
       /\ es = {[from |-> tt.target, seq |-> tt.seq, ours |-> TRUE]}
  /\ ~ On(slow) /\ On(ec.seen) =>
       tt.cmd = "ping" /\ On(tt.out) /\ ec.rseq = tt.seq /\ ec.from = tt.target /\ es = {}

\* A fetch asked for over TLS is over TLS.
Secured(kk, u) == in_progress(kk) /\ u.scheme # "http" => On(kk.tls)

\* The connections of a fetch are counted by its hops.
Counted(kk, n) == n \in 0..(MAX_HOPS + 1) /\ (in_progress(kk) => n = kk.hops + 1)

\* A hop in clear is at most one unit older than its clock, which its first
\* tick starts; and the clock has been looked at since time last went by.
Timely(kk, age, fresh) ==
  /\ age \in Nat
  /\ in_progress(kk) /\ Off(kk.tls) =>
       /\ kk.since = -1 => age <= 1 /\ (On(fresh) => age = 0)
       /\ kk.since >= 0 => age <= kk.since + 1
       /\ On(fresh) => kk.since <= DEADLINE

\* The flags and the fields of the history and of the command.
History ==
  /\ DOMAIN g = HistoryFields /\ DOMAIN t = CommandFields /\ g.want \in Urls
  /\ Flag(g.fresh) /\ Flag(g.crossed) /\ Flag(g.slow) /\ Flag(t.out)

\* The inductive invariant.
Inv ==
  /\ Steady(k, g.crossed) /\ Staged(k)
  /\ History
  /\ Secured(k, g.want) /\ Counted(k, g.begins) /\ Timely(k, g.age, g.fresh)
  /\ InTurn(k.echo, t, echoes, g.slow) /\ Off(g.lied)

(* Kernels that a fetch cannot tell apart *)

Alike(r, kk) ==
  /\ Kernel(r) /\ SameResolver(r, kk) /\ SameConnection(r, kk) /\ SameRequest(r, kk) /\ SameProgress(r, kk)
  /\ r.session = kk.session /\ r.echo = kk.echo

LEMMA AlikeIsSteady ==
  ASSUME NEW kk, NEW r, Alike(r, kk), NEW c, NEW d, Steady(kk, c), Staged(kk), On(c) => On(d)
  PROVE  Steady(r, d) /\ Staged(r)
<1>1. Typed(r)
  BY Zenon DEF Alike, Steady, Typed, Flag, in_progress, SameResolver, SameConnection, SameRequest, SameProgress
<1>2. Answering(r) /\ Wired(r)
  BY Zenon DEF Alike, Steady, Answering, Wired, SameResolver, SameConnection
<1>3. Resolved(r, d)
  BY Zenon DEF Alike, Steady, Resolved, Stray, in_progress, SameResolver, SameConnection, SameRequest, SameProgress
<1>4. Sited(r, d)
  BY Zenon DEF Alike, Steady, Sited, in_progress, SameConnection, SameRequest, SameProgress
<1>5. Staged(r)
  BY Zenon DEF Alike, Staged, SameConnection, SameRequest, SameProgress
<1> QED
  BY Zenon, <1>1, <1>2, <1>3, <1>4, <1>5 DEF Alike, Steady

LEMMA AlikeToItself ==
  ASSUME NEW kk, Kernel(kk)
  PROVE  Alike(kk, kk)
BY Zenon DEF Alike, SameResolver, SameConnection, SameRequest, SameProgress

LEMMA AlikeIsBegun ==
  ASSUME NEW kk, NEW r, Alike(r, kk), NEW q, NEW u, Begun(kk, q, u)
  PROVE  Begun(r, q, u)
BY Zenon DEF Alike, Begun, Asked, Unsent, Fresh, SameResolver, SameConnection, SameRequest, SameProgress

LEMMA AlikePasses ==
  ASSUME NEW kk, NEW r, Alike(r, kk), NEW q, NEW c, Passed(kk, q, c)
  PROVE  Passed(r, q, c)
<1>1. Steady(kk, c) /\ Staged(kk) => Steady(r, c) /\ Staged(r)
  BY Zenon, AlikeIsSteady
<1>2. /\ r.echo = kk.echo /\ r.phase = kk.phase /\ r.since = kk.since /\ r.tls = kk.tls
      /\ r.addr = kk.addr /\ r.tport = kk.tport /\ r.rx = kk.rx /\ r.host = kk.host /\ r.path = kk.path
      /\ r.port = kk.port /\ r.hops = kk.hops
  BY Zenon DEF Alike, SameConnection, SameRequest, SameProgress
<1>3. SameRequest(kk, q) => SameRequest(r, q)
  BY Zenon, <1>2 DEF SameRequest
<1>4. CASE in_progress(q)
  <2>1. Failing(kk, q, c) => Failing(r, q, c)
    BY Zenon, <1>1, <1>2 DEF Failing
  <2>2. Landed(kk, c) => Landed(r, c)
    BY Zenon, <1>2 DEF Landed
  <2>3. Arrived(kk, q, c) => Arrived(r, q, c)
    BY Zenon, <1>1, <1>2, <1>3, <2>2 DEF Arrived
  <2>4. Clocked(kk, q) => Clocked(r, q)
    BY Zenon, <1>2 DEF Clocked
  <2>5. in_progress(kk) => in_progress(r)
    BY Zenon, <1>2 DEF in_progress
  <2>6. Hopping(kk, q) => Hopping(r, q)
    BY Zenon, AlikeIsBegun DEF Hopping
  <2>7. Ticked(r, q, c)
    BY Zenon, <1>1, <1>2, <1>3, <1>4, <2>1, <2>3, <2>4, <2>5, <2>6 DEF Passed, Ticked
  <2> QED
    BY Zenon, <1>4, <2>7 DEF Passed
<1>5. CASE ~ in_progress(q)
  <2>1. SameProgress(kk, q) => SameProgress(r, q)
    BY Zenon DEF Alike, SameProgress
  <2>2. SamePage(kk, q) => SamePage(r, q)
    BY Zenon, <1>2 DEF SamePage
  <2> QED
    BY Zenon, <1>1, <1>2, <1>3, <1>5, <2>1, <2>2 DEF Passed
<1> QED
  BY Zenon, <1>4, <1>5

Echoed(r, kk, x) ==
  \/ ~ x.ours /\ r.echo = kk.echo
  \/ /\ DOMAIN r.echo = EchoFields /\ On(r.echo.ours) /\ On(r.echo.seen)
     /\ r.echo.from = x.from /\ r.echo.rseq = x.seq

LEMMA EchoIsHeard ==
  ASSUME NEW kk, NEW c, Steady(kk, c), Staged(kk), DOMAIN kk.echo = EchoFields, NEW x,
         NEW r, r = icmp_handle(kk, x)
  PROVE  Heard(r, kk, c) /\ Echoed(r, kk, x)
<1>0. Kernel(kk)
  BY DEF Steady
<1>1. CASE ~ x.ours
  <2>1. r = kk
    BY Zenon, <1>1 DEF icmp_handle
  <2>2. SameResolver(kk, kk) /\ SameRequest(kk, kk) /\ SameProgress(kk, kk)
    BY Zenon DEF SameResolver, SameRequest, SameProgress
  <2>3. Heard(kk, kk, c)
    BY Zenon, <1>0, <2>2, SegmentIsHeard
  <2> QED
    BY Zenon, <1>1, <2>1, <2>3 DEF Echoed
<1>2. CASE x.ours
  <2>0. PICK y : y = [kk.echo EXCEPT !.pending = @ /\ kk.echo.seq # x.seq, !.seen = TRUE,
                                     !.from = x.from, !.rseq = x.seq, !.ours = TRUE]
    BY Zenon
  <2>1. r = [kk EXCEPT !.echo = y]
    BY Zenon, <1>2, <2>0 DEF icmp_handle
  <2>2. /\ Kernel(r) /\ SameResolver(r, kk) /\ SameRequest(r, kk) /\ SameProgress(r, kk)
        /\ r.session = kk.session /\ r.addr = kk.addr /\ r.tport = kk.tport /\ r.reqs = kk.reqs
        /\ r.tcp = kk.tcp /\ r.rx = kk.rx /\ r.peerClosed = kk.peerClosed
    BY <1>0, <2>1 DEF Kernel, Fields, SameResolver, SameRequest, SameProgress
  <2>3. Heard(r, kk, c)
    BY Zenon, <2>2, SegmentIsHeard
  <2>4. DOMAIN r.echo = EchoFields /\ r.echo.from = x.from /\ r.echo.rseq = x.seq
    BY Zenon, <1>0, <2>0, <2>1 DEF Kernel, Fields, EchoFields
  <2>5. r.echo.ours = TRUE /\ r.echo.seen = TRUE
    BY Zenon, <1>0, <2>0, <2>1 DEF Kernel, Fields, EchoFields
  <2>6. On(r.echo.ours) /\ On(r.echo.seen)
    BY Zenon, <2>5, Flags
  <2> QED
    BY Zenon, <2>3, <2>4, <2>6 DEF Echoed
<1> QED
  BY Zenon, <1>1, <1>2

LEMMA EchoIsInTurn ==
  ASSUME NEW kk, NEW c, Steady(kk, c), Staged(kk), NEW tt, NEW es, NEW s, InTurn(kk.echo, tt, es, s),
         NEW x \in es \cup {Stranger}, NEW r, r = icmp_handle(kk, x)
  PROVE  Heard(r, kk, c) /\ InTurn(r.echo, tt, es \ {x}, s)
<1>1. DOMAIN kk.echo = EchoFields
  BY Zenon DEF InTurn
<1>2. Heard(r, kk, c) /\ Echoed(r, kk, x)
  BY Zenon, <1>1, EchoIsHeard
<1>3. CASE On(s)
  BY Zenon, <1>2, <1>3 DEF InTurn, Echoed, Flag
<1>4. CASE ~ On(s) /\ x \in es
  <2>1. PICK w : w = [from |-> tt.target, seq |-> tt.seq, ours |-> TRUE]
    BY Zenon
  <2>2. tt.cmd = "ping" /\ On(tt.out) /\ es = {w}
    BY Zenon, <1>4, <2>1 DEF InTurn
  <2>3. w.from = tt.target /\ w.seq = tt.seq
    BY SMT, <2>1
  <2>4. w.ours = TRUE
    BY SMT, <2>1
  <2>5. x = w /\ es \ {x} = {}
    BY Zenon, <1>4, <2>2
  <2>6. x.ours
    BY Zenon, <2>4, <2>5
  <2>7. /\ DOMAIN r.echo = EchoFields /\ On(r.echo.ours) /\ On(r.echo.seen)
        /\ r.echo.from = tt.target /\ r.echo.rseq = tt.seq
    BY Zenon, <1>2, <2>3, <2>5, <2>6 DEF Echoed
  <2> QED
    BY Zenon, <1>2, <2>2, <2>5, <2>7 DEF InTurn, Flag
<1>5. CASE x \notin es
  <2>1. x = Stranger
    BY Zenon, <1>5
  <2>2. x.ours = FALSE
    BY SMT, <2>1 DEF Stranger
  <2>3. ~ x.ours
    BY Zenon, <2>2
  <2>4. es \ {x} = es
    BY <1>5
  <2>5. r = kk
    BY Zenon, <2>3 DEF icmp_handle
  <2> QED
    BY Zenon, <1>2, <2>4, <2>5
<1> QED
  BY Zenon, <1>3, <1>4, <1>5

\* What is left on the wire.
Left(es, e) == IF e[1] = "echo" THEN es \ {e[2]} ELSE es

LEMMA ArrivesInTurn ==
  ASSUME NEW kk, NEW c, Steady(kk, c), Staged(kk), NEW tt, NEW es, NEW s, InTurn(kk.echo, tt, es, s),
         NEW e, e \in Events(kk), e[1] = "echo" => e[2] \in es \cup {Stranger}, NEW r, r = arrive(kk, e)
  PROVE  Heard(r, kk, c) /\ InTurn(r.echo, tt, Left(es, e), s)
<1>1. CASE e[1] = "echo"
  <2>1. r = icmp_handle(kk, e[2])
    BY <1>1 DEF arrive
  <2>2. Heard(r, kk, c) /\ InTurn(r.echo, tt, es \ {e[2]}, s)
    BY Zenon, <1>1, <2>1, EchoIsInTurn
  <2> QED
    BY Zenon, <1>1, <2>2 DEF Left
<1>2. CASE e[1] # "echo"
  <2>1. Heard(r, kk, c) /\ r.echo = kk.echo
    BY Zenon, <1>2, EventIsHeard
  <2> QED
    BY Zenon, <1>2, <2>1 DEF Left
<1> QED
  BY Zenon, <1>1, <1>2

LEMMA EchoEvent ==
  ASSUME NEW kk, NEW e, e \in Events(kk), e[1] = "echo"
  PROVE  e[2] \in echoes \cup {Stranger} /\ e = <<"echo", e[2]>>
<1>0. /\ e # <<"none">> /\ e # <<"answer">> /\ e # <<"synack">> /\ e # <<"lost">>
      /\ e # <<"good">> /\ e # <<"bad">> /\ e # <<"more">> /\ e # <<"fin">>
  OBVIOUS
<1>1. \E x \in echoes \cup {Stranger} : e = <<"echo", x>>
  BY Zenon, <1>0, EventIs
<1> QED
  BY <1>1

\* What the frames of a poll make of the kernel, before the timers.
Listened(q, es) ==
  /\ Steady(q, g.crossed) /\ Staged(q) /\ SameRequest(q, k) /\ SameProgress(q, k)
  /\ k.phase = "Done" => SamePage(q, k)
  /\ InTurn(q.echo, t, es, g.slow)

LEMMA PollIs ==
  ASSUME Inv, NEW e1, NEW e2, NEW late, e1 \in Events(k), e2 \in Events(arrive(k, e1)),
         e1[1] = "echo" => e2 # e1, poll(e1, e2, late)
  PROVE  \E q : Listened(q, echoes') /\ Passed(k', q, g.crossed)
<1>1. Steady(k, g.crossed) /\ Staged(k) /\ InTurn(k.echo, t, echoes, g.slow)
  BY DEF Inv
<1>2. PICK k1 : k1 = arrive(k, e1)
  OBVIOUS
<1>3. Heard(k1, k, g.crossed) /\ InTurn(k1.echo, t, Left(echoes, e1), g.slow)
  <2>1. e1[1] = "echo" => e1[2] \in echoes \cup {Stranger}
    BY Zenon, EchoEvent
  <2> QED
    BY Zenon, <1>1, <1>2, <2>1, ArrivesInTurn
<1>4. PICK k2 : k2 = arrive(k1, e2)
  OBVIOUS
<1>5. e2 \in Events(k1)
  BY Zenon, <1>2
<1>6. e2[1] = "echo" => e2[2] \in Left(echoes, e1) \cup {Stranger}
  <2>1. SUFFICES ASSUME e2[1] = "echo" PROVE e2[2] \in Left(echoes, e1) \cup {Stranger}
    OBVIOUS
  <2>2. e2[2] \in echoes \cup {Stranger} /\ e2 = <<"echo", e2[2]>>
    BY Zenon, <1>5, <2>1, EchoEvent
  <2>3. CASE e1[1] = "echo"
    <3>1. e1 = <<"echo", e1[2]>>
      BY Zenon, <2>3, EchoEvent
    <3>2. e1[2] # e2[2]
      BY Zenon, <2>2, <2>3, <3>1
    <3> QED
      BY Zenon, <2>2, <2>3, <3>2 DEF Left
  <2>4. CASE e1[1] # "echo"
    BY Zenon, <2>2, <2>4 DEF Left
  <2> QED
    BY Zenon, <2>3, <2>4
<1>7. Heard(k2, k1, g.crossed) /\ InTurn(k2.echo, t, Left(Left(echoes, e1), e2), g.slow)
  BY Zenon, <1>3, <1>4, <1>5, <1>6, ArrivesInTurn DEF Heard
<1>8. PICK q : q = [k2 EXCEPT !.late = late]
  BY Zenon
<1>9. Alike(q, k2)
  BY <1>7, <1>8
  DEF Heard, Steady, Kernel, Fields, Alike, SameResolver, SameConnection, SameRequest, SameProgress
<1>10. Steady(q, g.crossed) /\ Staged(q)
  BY Zenon, <1>7, <1>9, AlikeIsSteady DEF Heard
<1>11. SameRequest(q, k) /\ SameProgress(q, k) /\ q.echo = k2.echo
  BY Zenon, <1>3, <1>7, <1>9 DEF Heard, Alike, SameRequest, SameProgress
<1>12. k.phase = "Done" => SamePage(q, k)
  BY Zenon, <1>3, <1>7, <1>9 DEF Heard, Alike, SameProgress, SamePage, SameConnection
<1>13. echoes' = Left(Left(echoes, e1), e2)
  BY Zenon DEF poll, Left
<1>14. Listened(q, echoes')
  BY Zenon, <1>7, <1>10, <1>11, <1>12, <1>13 DEF Listened
<1>15. PICK p : p = net_tick(q)
  OBVIOUS
<1>16. k' = [p EXCEPT !.late = FALSE, !.told = FALSE]
  BY Zenon, <1>2, <1>4, <1>8, <1>15 DEF poll
<1>17. Passed(p, q, g.crossed)
  BY Zenon, <1>10, <1>15, NetTicks
<1>18. Kernel(p)
  BY Zenon, <1>17 DEF Passed, Ticked, Failing, Arrived, Hopping, Begun, Steady
<1>19. Alike(k', p)
  BY <1>16, <1>18 DEF Kernel, Fields, Alike, SameResolver, SameConnection, SameRequest, SameProgress
<1>20. Passed(k', q, g.crossed)
  BY Zenon, <1>17, <1>19, AlikePasses
<1> QED
  BY Zenon, <1>14, <1>20

LEMMA ForeignIsStray ==
  ASSUME NEW kk, Flag(kk.tls)
  PROVE  Foreign(kk) <=> Stray(kk)
BY Zenon DEF Foreign, Stray, Flag, On, Off

\* What a step may make of the flag that the fetch has been crossed.
Crossing(d, c, kk) == Flag(d) /\ (On(c) => On(d)) /\ (Stray(kk) => On(d)) /\ (On(d) => On(c) \/ Stray(kk))

SameHistory(h, gg) ==
  /\ DOMAIN h = HistoryFields
  /\ h.want = gg.want /\ h.begins = gg.begins /\ h.age = gg.age /\ h.fresh = gg.fresh
  /\ h.slow = gg.slow /\ h.lied = gg.lied

LEMMA NoteIs ==
  ASSUME NEW gg, DOMAIN gg = HistoryFields, Flag(gg.crossed), Flag(k'.tls), NEW h, h = Note(gg)
  PROVE  SameHistory(h, gg) /\ Crossing(h.crossed, gg.crossed, k')
<1>1. PICK b : b = (gg.crossed \/ Foreign(k'))
  BY Zenon
<1>2. h = [gg EXCEPT !.crossed = b]
  BY Zenon, <1>1 DEF Note
<1>3. SameHistory(h, gg) /\ h.crossed = b
  BY <1>2 DEF SameHistory, HistoryFields
<1>4. Foreign(k') <=> Stray(k')
  BY Zenon, ForeignIsStray
<1>5. Crossing(b, gg.crossed, k')
  BY Zenon, <1>1, <1>4 DEF Crossing, Flag, On, Off
<1> QED
  BY Zenon, <1>3, <1>5

LEMMA PassedKeeps ==
  ASSUME Inv, NEW q, NEW es, Listened(q, es), Passed(k', q, g.crossed),
         NEW d, Crossing(d, g.crossed, k'),
         NEW b, b = IF Hopped THEN g.begins + 1 ELSE g.begins,
         NEW a, a = IF Hopped THEN 0 ELSE g.age, NEW f
  PROVE  /\ Steady(k', d) /\ Staged(k') /\ k'.echo = q.echo
         /\ Secured(k', g.want) /\ Counted(k', b) /\ Timely(k', a, f)
<1>1. /\ Secured(k, g.want) /\ Counted(k, g.begins) /\ Timely(k, g.age, g.fresh)
      /\ On(g.crossed) => On(d)
  BY Zenon DEF Inv, Crossing
<1>2. ASSUME Steady(k', g.crossed), Staged(k') PROVE Steady(k', d)
  <2>1. Alike(k', k')
    BY Zenon, <1>2, AlikeToItself DEF Steady
  <2> QED
    BY Zenon, <1>1, <1>2, <2>1, AlikeIsSteady
<1>3. /\ q.phase = k.phase /\ q.since = k.since /\ q.hops = k.hops /\ q.tls = k.tls
      /\ (in_progress(q) <=> in_progress(k))
  BY Zenon DEF Listened, SameRequest, SameProgress, in_progress
<1>4. g.begins \in Nat /\ g.age \in Nat /\ g.begins <= MAX_HOPS + 1
  BY <1>1, BoundsAssumption DEF Counted, Timely
<1>5. ASSUME ~ in_progress(k'), ~ Hopped PROVE Secured(k', g.want) /\ Counted(k', b) /\ Timely(k', a, f)
  <2>1. b = g.begins /\ a = g.age
    BY Zenon, <1>5
  <2> QED
    BY Zenon, <1>1, <1>4, <1>5, <2>1 DEF Secured, Counted, Timely
<1>6. ASSUME ~ in_progress(k') PROVE ~ Hopped
  BY <1>6 DEF in_progress, Hopped
<1>7. CASE ~ in_progress(k)
  <2>1. /\ Steady(k', g.crossed) /\ Staged(k') /\ k'.echo = q.echo /\ SameProgress(k', q)
    BY Zenon, <1>3, <1>7 DEF Passed
  <2>2. ~ in_progress(k')
    BY Zenon, <1>3, <1>7, <2>1 DEF in_progress, SameProgress
  <2> QED
    BY Zenon, <1>2, <1>5, <1>6, <2>1, <2>2
<1>8. CASE in_progress(k)
  <2>0. Ticked(k', q, g.crossed)
    BY Zenon, <1>3, <1>8 DEF Passed
  <2>1. CASE Failing(k', q, g.crossed)
    <3>1. ~ in_progress(k')
      BY Zenon, <2>1 DEF in_progress, Failing
    <3> QED
      BY Zenon, <1>2, <1>5, <1>6, <2>1, <3>1 DEF Failing
  <2>2. CASE Arrived(k', q, g.crossed)
    <3>1. ~ in_progress(k')
      BY Zenon, <2>2 DEF in_progress, Arrived
    <3> QED
      BY Zenon, <1>2, <1>5, <1>6, <2>2, <3>1 DEF Arrived
  <2>3. CASE q.phase = "Receiving" /\ Hopping(k', q)
    <3>1. PICK u \in Url : \E y :
            /\ Begun(k', y, u) /\ Kernel(y) /\ Typed(y) /\ Answering(y)
            /\ y.hops = q.hops + 1 /\ y.hops <= MAX_HOPS /\ y.echo = q.echo /\ Leads(q, u)
      BY Zenon, <2>3 DEF Hopping
    <3>2. PICK y :
            /\ Begun(k', y, u) /\ Kernel(y) /\ Typed(y) /\ Answering(y)
            /\ y.hops = q.hops + 1 /\ y.hops <= MAX_HOPS /\ y.echo = q.echo /\ Leads(q, u)
      BY Zenon, <3>1
    <3>3. Steady(k', d) /\ Staged(k')
      BY Zenon, <3>2, BegunIsSteady DEF Crossing
    <3>4. /\ k'.echo = q.echo /\ k'.hops = k.hops + 1 /\ k'.hops <= MAX_HOPS /\ k'.since = -1
          /\ (On(k'.tls) <=> u.scheme # "http")
      BY Zenon, <1>3, <3>2 DEF Begun, Unsent
    <3>5. q.host \in DOMAIN AddrOf
      BY Zenon, <1>3, <1>8 DEF Listened, Steady, Sited
    <3>6. On(q.tls) => On(k'.tls)
      BY Zenon, <3>2, <3>4, <3>5, LeadsIs
    <3>7. Secured(k', g.want)
      BY Zenon, <1>1, <1>3, <1>8, <3>6 DEF Secured
    <3>8. CASE in_progress(k')
      <4>1. k'.phase \in {"Resolving", "Connecting"}
        BY Zenon, <3>2, <3>8 DEF Begun, in_progress
      <4>2. Hopped
        BY Zenon, <1>3, <2>3, <4>1 DEF Hopped
      <4>3. b = g.begins + 1 /\ a = 0
        BY Zenon, <4>2
      <4>4. Counted(k', b)
        BY <1>1, <1>4, <1>8, <3>4, <4>3, BoundsAssumption DEF Counted
      <4>5. Timely(k', a, f)
        BY <3>4, <4>3, BoundsAssumption DEF Timely
      <4> QED
        BY Zenon, <3>3, <3>4, <3>7, <4>4, <4>5
    <3>9. CASE ~ in_progress(k')
      BY Zenon, <1>5, <1>6, <3>3, <3>4, <3>9
    <3> QED
      BY Zenon, <3>8, <3>9
  <2>4. CASE /\ Steady(k', g.crossed) /\ Staged(k') /\ k'.echo = q.echo /\ SameRequest(k', q) /\ in_progress(k')
             /\ Off(k'.tls) => Clocked(k', q)
             /\ q.phase = "Receiving" => k'.phase = "Receiving"
    <3>1. ~ Hopped
      BY Zenon, <1>3, <2>4 DEF Hopped
    <3>2. b = g.begins /\ a = g.age
      BY Zenon, <3>1
    <3>3. k'.tls = k.tls /\ k'.hops = k.hops
      BY Zenon, <1>3, <2>4 DEF SameRequest
    <3>4. Secured(k', g.want)
      BY Zenon, <1>1, <1>8, <3>3 DEF Secured
    <3>5. Counted(k', b)
      BY Zenon, <1>1, <1>8, <3>2, <3>3 DEF Counted
    <3>6. Timely(k', a, f)
      <4>1. CASE Off(k.tls)
        <5>1. Clocked(k', q)
          BY Zenon, <2>4, <3>3, <4>1
        <5>2. k.since \in -1..(DEADLINE + 1)
          BY Zenon DEF Inv, Steady, Typed
        <5> QED
          BY <1>1, <1>3, <1>4, <1>8, <3>2, <4>1, <5>1, <5>2, BoundsAssumption DEF Clocked, Timely
      <4>2. CASE ~ Off(k.tls)
        BY Zenon, <1>4, <3>2, <3>3, <4>2 DEF Timely
      <4> QED
        BY Zenon, <4>1, <4>2
    <3> QED
      BY Zenon, <1>2, <2>4, <3>4, <3>5, <3>6
  <2> QED
    BY Zenon, <2>0, <2>1, <2>2, <2>3, <2>4 DEF Ticked
<1> QED
  BY Zenon, <1>7, <1>8

LEMMA PollKeeps ==
  ASSUME Inv, Poll
  PROVE  Inv'
<1>1. PICK e1 \in Events(k) : \E e2 \in Events(arrive(k, e1)) : \E late \in {FALSE, g.lates > 0} :
        /\ e1 = <<"none">> => e2 = <<"none">>
        /\ e1[1] = "echo" => e2 # e1
        /\ late => k.phase = "Sending"
        /\ poll(e1, e2, late)
  BY Zenon DEF Poll
<1>2. PICK e2 \in Events(arrive(k, e1)) : \E late \in {FALSE, g.lates > 0} :
        (e1[1] = "echo" => e2 # e1) /\ poll(e1, e2, late)
  BY Zenon, <1>1
<1>3. PICK late : (e1[1] = "echo" => e2 # e1) /\ poll(e1, e2, late)
  BY Zenon, <1>2
<1>4. PICK q : Listened(q, echoes') /\ Passed(k', q, g.crossed)
  BY Zenon, <1>3, PollIs
<1>5. PICK b : b = IF Hopped THEN g.begins + 1 ELSE g.begins
  BY Zenon
<1>6. PICK a : a = IF Hopped THEN 0 ELSE g.age
  OBVIOUS
<1>7. PICK gg : gg = [g EXCEPT !.fresh = TRUE, !.lates = IF late THEN @ - 1 ELSE @, !.begins = b, !.age = a]
  BY Zenon
<1>8. g' = Note(gg) /\ t' = t
  BY Zenon, <1>3, <1>5, <1>6, <1>7 DEF poll
<1>9. /\ DOMAIN gg = HistoryFields /\ gg.want = g.want /\ gg.begins = b /\ gg.age = a
      /\ gg.slow = g.slow /\ gg.lied = g.lied /\ gg.crossed = g.crossed
  BY <1>7 DEF Inv, History, HistoryFields
<1>10. gg.fresh = TRUE
  BY <1>7 DEF Inv, History, HistoryFields
<1>11. Flag(k'.tls)
  BY Zenon, <1>4 DEF Passed, Ticked, Failing, Arrived, Hopping, Begun, Steady, Typed
<1>12. SameHistory(g', gg) /\ Crossing(g'.crossed, g.crossed, k')
  BY Zenon, <1>8, <1>9, <1>11, NoteIs DEF Inv, History
<1>13. /\ Steady(k', g'.crossed) /\ Staged(k') /\ k'.echo = q.echo
       /\ Secured(k', g.want) /\ Counted(k', b) /\ Timely(k', a, g'.fresh)
  BY Zenon, <1>4, <1>5, <1>6, <1>12, PassedKeeps
<1>14. /\ g'.want = g.want /\ g'.begins = b /\ g'.age = a /\ g'.slow = g.slow /\ g'.lied = g.lied
       /\ g'.fresh = TRUE /\ DOMAIN g' = HistoryFields
  BY Zenon, <1>9, <1>10, <1>12 DEF SameHistory
<1>15. Flag(g'.fresh)
  BY Zenon, <1>14 DEF Flag, On
<1>16. History'
  BY Zenon, <1>8, <1>12, <1>14, <1>15 DEF Inv, History, Crossing
<1>17. InTurn(k'.echo, t', echoes', g'.slow)
  BY Zenon, <1>4, <1>8, <1>13, <1>14 DEF Listened
<1>18. Off(g'.lied)
  BY Zenon, <1>14 DEF Inv
<1> QED
  BY Zenon, <1>13, <1>14, <1>16, <1>17, <1>18 DEF Inv

\* The fields of the command the echoes are about.
SamePing(r, tt) ==
  DOMAIN r = CommandFields /\ r.cmd = tt.cmd /\ r.out = tt.out /\ r.target = tt.target /\ r.seq = tt.seq

LEMMA PingStaysInTurn ==
  ASSUME NEW ec, NEW tt, NEW es, NEW s, InTurn(ec, tt, es, s), NEW r, SamePing(r, tt)
  PROVE  InTurn(ec, r, es, s)
BY Zenon DEF InTurn, SamePing

LEMMA TimeKeeps ==
  ASSUME Inv, Time
  PROVE  Inv'
<1>0. Kernel(k) /\ Typed(k) /\ DOMAIN g = HistoryFields /\ DOMAIN t = CommandFields
  BY Zenon DEF Inv, Steady, History
<1>1. PICK w : w = (k.dns = "waiting")
  BY Zenon
<1>2. PICK n : n = IF k.since = -1 \/ k.since > DEADLINE \/ ~ in_progress(k) THEN k.since ELSE k.since + 1
  OBVIOUS
<1>3. k' = [k EXCEPT !.due = w, !.since = n]
  BY Zenon, <1>1, <1>2 DEF Time
<1>4. /\ Kernel(k') /\ SameResolver(k', k) /\ SameConnection(k', k) /\ SameRequest(k', k)
      /\ k'.session = k.session /\ k'.echo = k.echo /\ k'.since = n /\ k'.phase = k.phase /\ k'.err = k.err
      /\ k'.parsed = k.parsed /\ k'.loc = k.loc
  BY <1>0, <1>3 DEF Kernel, Fields, SameResolver, SameConnection, SameRequest
<1>5. n \in -1..(DEADLINE + 1)
  BY <1>0, <1>2, BoundsAssumption DEF Typed
<1>6. Typed(k')
  BY Zenon, <1>0, <1>4, <1>5 DEF Typed, Flag, in_progress, SameResolver, SameConnection, SameRequest
<1>7. Answering(k') /\ Wired(k')
  BY Zenon, <1>4 DEF Inv, Steady, Answering, Wired, SameResolver, SameConnection
<1>8. Resolved(k', g.crossed) /\ Staged(k')
  BY Zenon, <1>4 DEF Inv, Steady, Resolved, Stray, Staged, in_progress, SameResolver, SameConnection, SameRequest
<1>9. Sited(k', g.crossed)
  BY Zenon, <1>4 DEF Inv, Steady, Sited, in_progress, SameConnection, SameRequest
<1>10. PICK a : a = IF in_progress(k) THEN Cap(g.age) ELSE g.age
  OBVIOUS
<1>11. g' = [g EXCEPT !.fresh = FALSE, !.age = a]
  BY Zenon, <1>10 DEF Time
<1>12. /\ DOMAIN g' = HistoryFields /\ g'.want = g.want /\ g'.begins = g.begins /\ g'.age = a
       /\ g'.slow = g.slow /\ g'.lied = g.lied /\ g'.crossed = g.crossed
  BY <1>0, <1>11 DEF HistoryFields
<1>13. g'.fresh = FALSE
  BY <1>0, <1>11 DEF HistoryFields
<1>14. SamePing(t', t)
  <2>1. CASE t' = t
    BY Zenon, <1>0, <2>1 DEF SamePing
  <2>2. CASE t' = [t EXCEPT !.waited = @ + 1]
    BY <1>0, <2>2 DEF SamePing, CommandFields
  <2> QED
    BY Zenon, <2>1, <2>2 DEF Time
<1>15. Flag(g'.fresh)
  BY Zenon, <1>13 DEF Flag, Off
<1>16. History'
  BY Zenon, <1>12, <1>14, <1>15 DEF Inv, History, SamePing
<1>17. InTurn(k'.echo, t', echoes', g'.slow)
  <2>1. InTurn(k.echo, t, echoes, g.slow) /\ echoes' = echoes
    BY Zenon DEF Inv, Time
  <2>2. InTurn(k.echo, t', echoes, g.slow)
    BY Zenon, <1>14, <2>1, PingStaysInTurn
  <2> QED
    BY Zenon, <1>4, <1>12, <2>1, <2>2
<1>18. Secured(k', g'.want) /\ Counted(k', g'.begins)
  BY Zenon, <1>4, <1>12 DEF Inv, Secured, Counted, in_progress, SameRequest
<1>19. On(g.fresh)
  BY Zenon DEF Inv, History, Flag, Off, Time
<1>20. Timely(k', g'.age, g'.fresh)
  <2>1. ~ On(g'.fresh)
    BY Zenon, <1>13, Flags
  <2>2. a \in Nat /\ a <= g.age + 1 /\ g.age \in Nat
    BY <1>10, BoundsAssumption DEF Cap, Inv, Timely
  <2>3. /\ k'.tls = k.tls /\ (in_progress(k') <=> in_progress(k))
    BY Zenon, <1>4 DEF in_progress, SameRequest
  <2>4. CASE in_progress(k) /\ Off(k.tls)
    <3>1. /\ k.since = -1 => g.age = 0
          /\ k.since >= 0 => g.age <= k.since + 1
          /\ k.since <= DEADLINE
      BY Zenon, <1>19, <2>4 DEF Inv, Timely
    <3>2. k.since \in -1..(DEADLINE + 1)
      BY Zenon, <1>0 DEF Typed
    <3> QED
      BY <1>2, <1>4, <1>12, <2>1, <2>2, <2>4, <3>1, <3>2, BoundsAssumption DEF Timely
  <2> QED
    BY Zenon, <1>12, <2>2, <2>3, <2>4 DEF Timely
<1>21. Steady(k', g'.crossed)
  BY Zenon, <1>4, <1>6, <1>7, <1>8, <1>9, <1>12 DEF Steady
<1> QED
  BY Zenon, <1>8, <1>12, <1>16, <1>17, <1>18, <1>20, <1>21 DEF Inv

\* The terminal's command as it is between two commands.
LEMMA IdleIs ==
  /\ DOMAIN IdleCommand = CommandFields /\ IdleCommand.cmd = "idle" /\ IdleCommand.out = FALSE
  /\ Off(IdleCommand.out)
<1>1. DOMAIN IdleCommand = CommandFields /\ IdleCommand.cmd = "idle"
  BY SMT DEF IdleCommand, CommandFields
<1>2. IdleCommand.out = FALSE
  BY SMT DEF IdleCommand
<1> QED
  BY Zenon, <1>1, <1>2 DEF Off

\* Nothing is on the wire or waiting to be shown when no ping runs.
LEMMA QuietInTurn ==
  ASSUME NEW ec, NEW tt, NEW es, NEW s, InTurn(ec, tt, es, s), tt.cmd # "ping" \/ ~ On(tt.out), NEW r
  PROVE  InTurn(ec, r, es, s)
BY Zenon DEF InTurn

\* The history of a fetch that has just been started.
Restarted(h, u) ==
  /\ DOMAIN h = HistoryFields /\ h.want = u /\ h.begins = 1 /\ h.age = 0
  /\ h.fresh = g.fresh /\ h.slow = g.slow /\ h.lied = g.lied
  /\ Flag(h.crossed) /\ (On(h.crossed) <=> Stray(k'))

LEMMA StartBegins ==
  ASSUME Inv, NEW u \in Urls, k' = start(k, u)
  PROVE  \E q : /\ Kernel(q) /\ Typed(q) /\ Answering(q) /\ q.hops = 0 /\ q.echo = k.echo
                /\ Begun(k', q, u) /\ u \in Url
<1>1. PICK q : q = [k EXCEPT !.hops = 0]
  BY Zenon
<1>2. k' = begin(q, u)
  BY Zenon, <1>1 DEF start
<1>3. /\ Kernel(q) /\ SameResolver(q, k) /\ SameConnection(q, k) /\ SameProgress(q, k)
      /\ q.session = k.session /\ q.echo = k.echo /\ q.hops = 0 /\ q.tls = k.tls
  BY <1>1 DEF Inv, Steady, Kernel, Fields, SameResolver, SameConnection, SameProgress
<1>4. Typed(q)
  BY <1>3, BoundsAssumption DEF Inv, Steady, Typed, Flag, in_progress, SameResolver, SameConnection, SameProgress
<1>5. Answering(q)
  BY Zenon, <1>3 DEF Inv, Steady, Answering, SameResolver
<1>6. Begun(k', q, u)
  BY Zenon, <1>2, <1>3, BeginIs
<1>7. u \in Url
  BY Zenon, WorldAssumption
<1> QED
  BY Zenon, <1>3, <1>4, <1>5, <1>6, <1>7

LEMMA StartedIs ==
  ASSUME Inv, NEW u \in Urls, k' = start(k, u), NEW h, h = Started(u)
  PROVE  Restarted(h, u)
<1>1. PICK q : Begun(k', q, u)
  BY Zenon, StartBegins
<1>2. Flag(k'.tls)
  BY Zenon, <1>1 DEF Begun
<1>3. Foreign(k') <=> Stray(k')
  BY Zenon, <1>2, ForeignIsStray
<1>4. PICK b : b = Foreign(k')
  BY Zenon
<1>5. h = [g EXCEPT !.want = u, !.begins = 1, !.age = 0, !.crossed = b]
  BY Zenon, <1>4 DEF Started
<1>6. /\ DOMAIN h = HistoryFields /\ h.want = u /\ h.begins = 1 /\ h.age = 0
      /\ h.fresh = g.fresh /\ h.slow = g.slow /\ h.lied = g.lied /\ h.crossed = b
  BY <1>5 DEF Inv, History, HistoryFields
<1>7. b \in BOOLEAN
  BY Zenon, <1>4 DEF Foreign
<1>8. Flag(b) /\ (On(b) <=> Stray(k'))
  BY Zenon, <1>3, <1>4, <1>7 DEF Flag, On, Off
<1> QED
  BY Zenon, <1>6, <1>8 DEF Restarted

LEMMA StartKeeps ==
  ASSUME Inv, NEW u \in Urls, k' = start(k, u), Restarted(g', u), DOMAIN t' = CommandFields, Flag(t'.out),
         InTurn(k.echo, t', echoes', g.slow)
  PROVE  Inv'
<1>1. PICK q : /\ Kernel(q) /\ Typed(q) /\ Answering(q) /\ q.hops = 0 /\ q.echo = k.echo
               /\ Begun(k', q, u) /\ u \in Url
  BY Zenon, StartBegins
<1>2. q.hops <= MAX_HOPS /\ 1 \in 0..(MAX_HOPS + 1)
  BY <1>1, BoundsAssumption
<1>3. Steady(k', g'.crossed) /\ Staged(k')
  BY Zenon, <1>1, <1>2, BegunIsSteady DEF Restarted
<1>4. k'.echo = k.echo /\ k'.hops = 0 /\ k'.since = -1 /\ (On(k'.tls) <=> u.scheme # "http")
  BY Zenon, <1>1 DEF Begun, Unsent
<1>5. Secured(k', g'.want)
  BY Zenon, <1>4 DEF Secured, Restarted
<1>6. Counted(k', g'.begins)
  BY <1>2, <1>4 DEF Counted, Restarted
<1>7. Timely(k', g'.age, g'.fresh)
  BY <1>4, BoundsAssumption DEF Timely, Restarted
<1>8. History'
  BY Zenon DEF Inv, History, Restarted
<1>9. InTurn(k'.echo, t', echoes', g'.slow) /\ Off(g'.lied)
  BY Zenon, <1>4 DEF Inv, Restarted
<1> QED
  BY Zenon, <1>3, <1>5, <1>6, <1>7, <1>8, <1>9 DEF Inv

\* Only a bound changes.
LEMMA RestartedStill ==
  ASSUME NEW h, NEW u, Restarted(h, u), NEW z, NEW r,
         r = [h EXCEPT !.starts = z] \/ r = [h EXCEPT !.cmds = z]
  PROVE  Restarted(r, u)
<1>1. /\ DOMAIN r = HistoryFields /\ r.want = h.want /\ r.begins = h.begins /\ r.age = h.age
      /\ r.fresh = h.fresh /\ r.slow = h.slow /\ r.lied = h.lied /\ r.crossed = h.crossed
  BY DEF Restarted, HistoryFields
<1> QED
  BY Zenon, <1>1 DEF Restarted

LEMMA BrowseKeeps ==
  ASSUME Inv, NEW u \in Urls, Browse(u)
  PROVE  Inv'
<1>1. PICK h : h = Started(u)
  OBVIOUS
<1>2. k' = start(k, u) /\ t' = t /\ echoes' = echoes
  BY Zenon DEF Browse
<1>3. PICK z : g' = [h EXCEPT !.starts = z]
  BY Zenon, <1>1 DEF Browse
<1>4. Restarted(h, u)
  BY Zenon, <1>1, <1>2, StartedIs
<1>5. Restarted(g', u)
  BY Zenon, <1>3, <1>4, RestartedStill
<1>6. DOMAIN t' = CommandFields /\ Flag(t'.out) /\ InTurn(k.echo, t', echoes', g.slow)
  BY Zenon, <1>2 DEF Inv, History
<1> QED
  BY Zenon, <1>2, <1>5, <1>6, StartKeeps

LEMMA HttpKeeps ==
  ASSUME Inv, NEW u \in Urls, cmd_http(u)
  PROVE  Inv'
<1>1. PICK h : h = Started(u)
  OBVIOUS
<1>2. k' = start(k, u) /\ echoes' = echoes /\ t.cmd = "idle"
  BY Zenon DEF cmd_http, Begins, desktop
<1>3. PICK z : g' = [h EXCEPT !.cmds = z]
  BY Zenon, <1>1 DEF cmd_http
<1>4. Restarted(h, u)
  BY Zenon, <1>1, <1>2, StartedIs
<1>5. Restarted(g', u)
  BY Zenon, <1>3, <1>4, RestartedStill
<1>6. DOMAIN t' = CommandFields /\ Flag(t'.out)
  <2>1. CASE t' = IdleCommand
    BY Zenon, <2>1, IdleIs DEF Flag
  <2>2. CASE t' = [IdleCommand EXCEPT !.cmd = "http"]
    <3>1. DOMAIN t' = CommandFields /\ t'.out = IdleCommand.out
      BY <2>2, IdleIs DEF CommandFields
    <3> QED
      BY Zenon, <3>1, IdleIs DEF Flag
  <2> QED
    BY Zenon, <2>1, <2>2 DEF cmd_http
<1>7. t.cmd # "ping"
  BY <1>2
<1>8. InTurn(k.echo, t', echoes', g.slow)
  BY Zenon, <1>2, <1>7, QuietInTurn DEF Inv
<1> QED
  BY Zenon, <1>2, <1>5, <1>6, <1>8, StartKeeps

(* The steps that leave the fetch alone *)

\* Only the resolver has been told something, or an answer been taken from it.
Aside(r, kk) ==
  /\ Kernel(r) /\ SameConnection(r, kk) /\ SameRequest(r, kk) /\ SameProgress(r, kk) /\ r.session = kk.session
  /\ \/ SameResolver(r, kk)
     \/ r.dns = "idle" /\ r.tries = kk.tries
     \/ r.dns = "waiting" /\ r.name \in DOMAIN AddrOf /\ r.tries = 0

LEMMA AsideIsSteady ==
  ASSUME NEW kk, NEW c, Steady(kk, c), Staged(kk), NEW r, Aside(r, kk), NEW d, Crossing(d, c, r)
  PROVE  Steady(r, d) /\ Staged(r)
<1>0. (On(c) => On(d)) /\ (Stray(r) => On(d))
  BY Zenon DEF Crossing
<1>1. Typed(r)
  BY BoundsAssumption
  DEF Aside, Steady, Typed, Flag, in_progress, SameResolver, SameConnection, SameRequest, SameProgress
<1>2. Answering(r) /\ Wired(r)
  BY Zenon DEF Aside, Steady, Answering, Wired, SameResolver, SameConnection
<1>3. Resolved(r, d)
  BY Zenon, <1>0 DEF Aside, Steady, Resolved, in_progress, SameConnection, SameRequest, SameProgress
<1>4. Sited(r, d)
  BY Zenon, <1>0 DEF Aside, Steady, Sited, in_progress, SameConnection, SameRequest, SameProgress
<1>5. Staged(r)
  BY Zenon DEF Aside, Staged, SameConnection, SameRequest, SameProgress
<1> QED
  BY Zenon, <1>1, <1>2, <1>3, <1>4, <1>5 DEF Aside, Steady

LEMMA AsideKeeps ==
  ASSUME Inv, Aside(k', k), Crossing(g'.crossed, g.crossed, k'),
         DOMAIN g' = HistoryFields, g'.want = g.want, g'.begins = g.begins, g'.age = g.age, g'.fresh = g.fresh,
         Flag(g'.slow), Off(g'.lied), DOMAIN t' = CommandFields, Flag(t'.out),
         InTurn(k'.echo, t', echoes', g'.slow)
  PROVE  Inv'
<1>1. Steady(k', g'.crossed) /\ Staged(k')
  BY Zenon, AsideIsSteady DEF Inv
<1>2. k'.hops = k.hops /\ k'.tls = k.tls /\ k'.since = k.since /\ (in_progress(k') <=> in_progress(k))
  BY Zenon DEF Aside, SameRequest, SameProgress, in_progress
<1>3. Secured(k', g'.want) /\ Counted(k', g'.begins) /\ Timely(k', g'.age, g'.fresh)
  BY Zenon, <1>2 DEF Inv, Secured, Counted, Timely
<1>4. History'
  BY Zenon DEF Inv, History, Crossing
<1> QED
  BY Zenon, <1>1, <1>3, <1>4 DEF Inv

LEMMA NothingAside ==
  ASSUME Inv, k' = k
  PROVE  Aside(k', k) /\ Flag(k'.tls) /\ Crossing(g.crossed, g.crossed, k') /\ k'.echo = k.echo
<1>1. Aside(k, k)
  BY Zenon DEF Inv, Steady, Aside, SameResolver, SameConnection, SameRequest, SameProgress
<1>2. Stray(k) => On(g.crossed)
  BY Zenon DEF Inv, Steady, Resolved
<1> QED
  BY Zenon, <1>1, <1>2 DEF Inv, Steady, Typed, Crossing, History

LEMMA LookupAside ==
  ASSUME Inv, NEW h \in DOMAIN AddrOf, k' = dns_start(k, h)
  PROVE  Aside(k', k) /\ Flag(k'.tls) /\ k'.echo = k.echo
<1>0. Kernel(k) /\ Flag(k.tls)
  BY Zenon DEF Inv, Steady, Typed
<1>1. CASE HasDns
  <2>1. /\ Kernel(k') /\ k'.dns = "waiting" /\ k'.name = h /\ k'.tries = 0
        /\ SameConnection(k', k) /\ SameRequest(k', k) /\ SameProgress(k', k)
        /\ k'.session = k.session /\ k'.echo = k.echo
    BY <1>0, <1>1, DnsStartIs
  <2> QED
    BY Zenon, <1>0, <2>1 DEF Aside, SameRequest
<1>2. CASE ~ HasDns
  <2>1. k' = k
    BY Zenon, <1>2 DEF dns_start
  <2> QED
    BY Zenon, <2>1, NothingAside
<1> QED
  BY Zenon, <1>1, <1>2

LEMMA TakenAside ==
  ASSUME Inv, k' = take_result(k)
  PROVE  Aside(k', k) /\ Flag(k'.tls) /\ k'.echo = k.echo
<1>0. Kernel(k) /\ Flag(k.tls)
  BY Zenon DEF Inv, Steady, Typed
<1>1. /\ Kernel(k') /\ (k.dns # "answered" => k' = k)
      /\ (k.dns = "answered" => k'.dns = "idle") /\ k'.tries = k.tries
      /\ SameConnection(k', k) /\ SameRequest(k', k) /\ SameProgress(k', k)
      /\ k'.session = k.session /\ k'.echo = k.echo
  BY Zenon, <1>0, TakeResultIs
<1>2. CASE k.dns = "answered"
  BY Zenon, <1>0, <1>1, <1>2 DEF Aside, SameRequest
<1>3. CASE k.dns # "answered"
  BY Zenon, <1>1, <1>3, NothingAside
<1> QED
  BY Zenon, <1>2, <1>3

LEMMA HttpEndsKeeps ==
  ASSUME Inv, HttpEnds
  PROVE  Inv'
<1>1. k' = k /\ echoes' = echoes /\ g' = g /\ t' = IdleCommand /\ t.cmd = "http"
  BY Zenon DEF HttpEnds
<1>2. t.cmd # "ping"
  BY <1>1
<1>3. InTurn(k.echo, t', echoes, g.slow)
  BY Zenon, <1>2, QuietInTurn DEF Inv
<1>4. DOMAIN t' = CommandFields /\ Flag(t'.out)
  BY Zenon, <1>1, IdleIs DEF Flag
<1>5. Aside(k', k) /\ Crossing(g.crossed, g.crossed, k') /\ k'.echo = k.echo
  BY Zenon, <1>1, NothingAside
<1> QED
  BY Zenon, <1>1, <1>3, <1>4, <1>5, AsideKeeps DEF Inv, History

LEMMA ResolveKeeps ==
  ASSUME Inv, NEW h \in DOMAIN AddrOf, NEW then, t.cmd = "idle", resolve(h, then)
  PROVE  Inv'
<1>1. Aside(k', k) /\ Flag(k'.tls) /\ k'.echo = k.echo
  <2>1. k' = k \/ k' = dns_start(k, h)
    BY Zenon DEF resolve
  <2> QED
    BY Zenon, <2>1, NothingAside, LookupAside
<1>2. DOMAIN t' = CommandFields /\ Flag(t'.out)
  <2>1. PICK c, a, s, x :
          \/ t' = [IdleCommand EXCEPT !.cmd = c, !.target = a, !.seq = s]
          \/ t' = [IdleCommand EXCEPT !.cmd = c, !.then = x]
          \/ t' = IdleCommand
    <3>1. CASE h \in Literals
      <4>1. PICK c : c = IF then = "ping" THEN "ping" ELSE "idle"
        OBVIOUS
      <4>2. t' = [IdleCommand EXCEPT !.cmd = c, !.target = AddrOf[h], !.seq = 1]
        BY Zenon, <3>1, <4>1 DEF resolve
      <4> QED
        BY Zenon, <4>2
    <3>2. CASE h \notin Literals
      <4>1. t' = [IdleCommand EXCEPT !.cmd = "dns", !.then = then] \/ t' = IdleCommand
        BY Zenon, <3>2 DEF resolve
      <4> QED
        BY Zenon, <4>1
    <3> QED
      BY Zenon, <3>1, <3>2
  <2>2. DOMAIN t' = CommandFields /\ t'.out = IdleCommand.out
    BY Zenon, <2>1, IdleIs DEF CommandFields
  <2> QED
    BY Zenon, <2>2, IdleIs DEF Flag
<1>3. PICK gg : gg = Note(g)
  OBVIOUS
<1>4. SameHistory(gg, g) /\ Crossing(gg.crossed, g.crossed, k')
  BY Zenon, <1>1, <1>3, NoteIs DEF Inv, History
<1>5. PICK z : g' = [gg EXCEPT !.cmds = z]
  BY Zenon, <1>3 DEF resolve
<1>6. SameHistory(g', gg) /\ g'.crossed = gg.crossed
  BY <1>4, <1>5 DEF SameHistory, HistoryFields
<1>7. SameHistory(g', g) /\ Crossing(g'.crossed, g.crossed, k')
  BY Zenon, <1>4, <1>6 DEF SameHistory
<1>8. t.cmd # "ping" /\ echoes' = echoes
  BY DEF resolve
<1>9. InTurn(k.echo, t', echoes, g.slow)
  BY Zenon, <1>8, QuietInTurn DEF Inv
<1>10. InTurn(k'.echo, t', echoes', g'.slow)
  BY Zenon, <1>1, <1>7, <1>8, <1>9 DEF SameHistory
<1> QED
  BY Zenon, <1>1, <1>2, <1>7, <1>10, AsideKeeps DEF Inv, History, SameHistory

LEMMA ResolveEndsKeeps ==
  ASSUME Inv, ResolveEnds
  PROVE  Inv'
<1>1. k' = take_result(k) /\ g' = Note(g) /\ echoes' = echoes /\ t.cmd = "dns"
  BY Zenon DEF ResolveEnds
<1>2. Aside(k', k) /\ Flag(k'.tls) /\ k'.echo = k.echo
  BY Zenon, <1>1, TakenAside
<1>3. SameHistory(g', g) /\ Crossing(g'.crossed, g.crossed, k')
  BY Zenon, <1>1, <1>2, NoteIs DEF Inv, History
<1>4. DOMAIN t' = CommandFields /\ Flag(t'.out)
  <2>1. t' = [IdleCommand EXCEPT !.cmd = "ping", !.target = k.result, !.seq = 1] \/ t' = IdleCommand
    BY Zenon DEF ResolveEnds
  <2>2. DOMAIN t' = CommandFields /\ t'.out = IdleCommand.out
    BY Zenon, <2>1, IdleIs DEF CommandFields
  <2> QED
    BY Zenon, <2>2, IdleIs DEF Flag
<1>5. t.cmd # "ping"
  BY <1>1
<1>6. InTurn(k.echo, t', echoes, g.slow)
  BY Zenon, <1>5, QuietInTurn DEF Inv
<1>7. InTurn(k'.echo, t', echoes', g'.slow)
  BY Zenon, <1>1, <1>2, <1>3, <1>6 DEF SameHistory
<1> QED
  BY Zenon, <1>2, <1>3, <1>4, <1>7, AsideKeeps DEF Inv, History, SameHistory

LEMMA FarPingKeeps ==
  ASSUME Inv, NEW h, far_ping(h)
  PROVE  Inv'
<1>1. k' = k /\ echoes' = echoes /\ g' = g /\ t.cmd = "idle"
  BY Zenon DEF far_ping
<1>2. DOMAIN t' = CommandFields /\ Flag(t'.out)
  <2>1. t' = [IdleCommand EXCEPT !.cmd = "ping", !.then = "far", !.target = AddrOf[h], !.seq = PINGS + 1]
    BY Zenon DEF far_ping
  <2>2. DOMAIN t' = CommandFields /\ t'.out = IdleCommand.out
    BY <2>1, IdleIs DEF CommandFields
  <2> QED
    BY Zenon, <2>2, IdleIs DEF Flag
<1>3. t.cmd # "ping"
  BY <1>1
<1>4. InTurn(k.echo, t', echoes, g.slow)
  BY Zenon, <1>3, QuietInTurn DEF Inv
<1>5. Aside(k', k) /\ Crossing(g.crossed, g.crossed, k') /\ k'.echo = k.echo
  BY Zenon, <1>1, NothingAside
<1> QED
  BY Zenon, <1>1, <1>2, <1>4, <1>5, AsideKeeps DEF Inv, History

\* What the commands that ping do with their own state.
LEMMA CommandIs ==
  ASSUME DOMAIN t = CommandFields, Flag(t.out), NEW r,
         r = NextSeq \/ r = IdleCommand \/ r = [t EXCEPT !.tries = @ + 1]
           \/ r = [t EXCEPT !.tries = @ + 1, !.out = FALSE]
  PROVE  DOMAIN r = CommandFields /\ Flag(r.out)
<1>1. CASE r = IdleCommand
  BY Zenon, <1>1, IdleIs DEF Flag
<1>2. CASE r = [t EXCEPT !.tries = @ + 1]
  <2>1. DOMAIN r = CommandFields /\ r.out = t.out
    BY <1>2 DEF CommandFields
  <2> QED
    BY Zenon, <2>1
<1>3. CASE r = [t EXCEPT !.tries = @ + 1, !.out = FALSE]
  <2>1. DOMAIN r = CommandFields /\ r.out = FALSE
    BY Zenon, <1>3 DEF CommandFields
  <2> QED
    BY Zenon, <2>1 DEF Flag, Off
<1>4. CASE r = [t EXCEPT !.seq = @ + 1, !.tries = 0, !.out = FALSE]
  <2>1. DOMAIN r = CommandFields /\ r.out = FALSE
    BY Zenon, <1>4 DEF CommandFields
  <2> QED
    BY Zenon, <2>1 DEF Flag, Off
<1> QED
  BY Zenon, <1>1, <1>2, <1>3, <1>4 DEF NextSeq

LEMMA PingSendKeeps ==
  ASSUME Inv, NEW hop, PingSend(hop)
  PROVE  Inv'
<1>0. DOMAIN t = CommandFields /\ Flag(t.out) /\ Kernel(k) /\ InTurn(k.echo, t, echoes, g.slow)
  BY Zenon DEF Inv, History, Steady
<1>1. t.cmd = "ping" /\ ~ On(t.out) /\ g' = g
  BY Zenon DEF PingSend, On
<1>2. CASE hop
  <2>1. PICK ec : ec = [pending |-> TRUE, seq |-> t.seq, target |-> t.target,
                        seen |-> FALSE, from |-> None, rseq |-> 0, ours |-> TRUE]
    BY Zenon
  <2>2. k' = [k EXCEPT !.echo = ec] /\ t' = [t EXCEPT !.out = TRUE]
    BY Zenon, <1>2, <2>1 DEF PingSend, icmp_request
  <2>3. Aside(k', k) /\ k'.echo = ec /\ k'.dns = k.dns /\ k'.name = k.name
    BY <1>0, <2>2 DEF Kernel, Fields, Aside, SameResolver, SameConnection, SameRequest, SameProgress
  <2>4. DOMAIN ec = EchoFields
    BY SMT, <2>1 DEF EchoFields
  <2>5. ec.seen = FALSE
    BY SMT, <2>1
  <2>6. ec.ours = TRUE
    BY SMT, <2>1
  <2>7. DOMAIN t' = CommandFields /\ t'.cmd = t.cmd /\ t'.target = t.target /\ t'.seq = t.seq
    BY <1>0, <2>2 DEF CommandFields
  <2>8. t'.out = TRUE
    BY <1>0, <2>2 DEF CommandFields
  <2>9. On(ec.ours) /\ Off(ec.seen) /\ ~ On(ec.seen) /\ On(t'.out)
    BY Zenon, <2>5, <2>6, <2>8, Flags
  <2>10. PICK w : w = [from |-> t'.target, seq |-> t'.seq, ours |-> TRUE]
    BY Zenon
  <2>11. echoes' = echoes \/ echoes' = echoes \cup {w}
    BY Zenon, <1>2, <2>7, <2>10 DEF PingSend
  <2>12. ~ On(g.slow) => echoes = {}
    BY Zenon, <1>0, <1>1 DEF InTurn
  <2>13. ~ On(g.slow) /\ echoes' # {} => echoes' = {w}
    BY Zenon, <2>11, <2>12
  <2>14. InTurn(k'.echo, t', echoes', g'.slow)
    BY Zenon, <1>1, <2>3, <2>4, <2>7, <2>9, <2>10, <2>13 DEF InTurn, Flag
  <2>15. Crossing(g'.crossed, g.crossed, k')
    <3>1. Stray(k') <=> Stray(k)
      BY Zenon, <2>3 DEF Stray, Aside, SameRequest, SameProgress, in_progress
    <3> QED
      BY Zenon, <1>1, <3>1 DEF Inv, History, Steady, Resolved, Crossing
  <2> QED
    BY Zenon, <1>1, <2>3, <2>7, <2>9, <2>14, <2>15, AsideKeeps DEF Inv, History, Flag
<1>3. CASE ~ hop
  <2>1. k' = k /\ echoes' = echoes /\ (t' = NextSeq \/ t' = [t EXCEPT !.tries = @ + 1])
    BY Zenon, <1>3 DEF PingSend
  <2>2. DOMAIN t' = CommandFields /\ Flag(t'.out)
    BY Zenon, <1>0, <2>1, CommandIs
  <2>3. InTurn(k.echo, t', echoes, g.slow)
    BY Zenon, <1>0, <1>1, QuietInTurn
  <2>4. Aside(k', k) /\ Crossing(g.crossed, g.crossed, k')
    BY Zenon, <2>1, NothingAside
  <2> QED
    BY Zenon, <1>1, <2>1, <2>2, <2>3, <2>4, AsideKeeps DEF Inv, History
<1> QED
  BY Zenon, <1>2, <1>3

LEMMA PingReplyKeeps ==
  ASSUME Inv, PingReply
  PROVE  Inv'
<1>0. /\ DOMAIN t = CommandFields /\ Flag(t.out) /\ Kernel(k) /\ InTurn(k.echo, t, echoes, g.slow)
      /\ DOMAIN g = HistoryFields /\ Flag(g.slow)
  BY Zenon DEF Inv, History, Steady
<1>1. t.cmd = "ping" /\ On(k.echo.seen) /\ echoes' = echoes
  BY Zenon, <1>0 DEF PingReply, InTurn, Flag, On, Off
<1>2. PICK b : b = (g.lied \/ ~Truthful)
  BY Zenon
<1>3. k' = [k EXCEPT !.echo.seen = FALSE] /\ g' = [g EXCEPT !.lied = b]
  BY Zenon, <1>2 DEF PingReply, take_reply
<1>4. Truthful
  BY Zenon, <1>0, <1>1 DEF Truthful, InTurn, Flag, On, Off
<1>5. Off(b)
  BY Zenon, <1>2, <1>4 DEF Inv, Off
<1>6. /\ DOMAIN g' = HistoryFields /\ g'.want = g.want /\ g'.begins = g.begins /\ g'.age = g.age
      /\ g'.fresh = g.fresh /\ g'.slow = g.slow /\ g'.crossed = g.crossed /\ g'.lied = b
  BY <1>0, <1>3 DEF HistoryFields
<1>7. Aside(k', k) /\ k'.dns = k.dns /\ k'.name = k.name /\ k'.echo = [k.echo EXCEPT !.seen = FALSE]
  BY <1>0, <1>3 DEF Kernel, Fields, Aside, SameResolver, SameConnection, SameRequest, SameProgress
<1>8. DOMAIN k'.echo = EchoFields /\ k'.echo.ours = k.echo.ours /\ k'.echo.seen = FALSE
  BY Zenon, <1>0, <1>7 DEF InTurn, EchoFields
<1>9. On(k'.echo.ours) /\ Off(k'.echo.seen) /\ ~ On(k'.echo.seen)
  BY Zenon, <1>0, <1>8, Flags DEF InTurn
<1>10. ~ On(g.slow) => echoes = {}
  BY Zenon, <1>0, <1>1 DEF InTurn
<1>11. InTurn(k'.echo, t', echoes', g'.slow)
  BY Zenon, <1>1, <1>6, <1>8, <1>9, <1>10 DEF InTurn, Flag
<1>12. DOMAIN t' = CommandFields /\ Flag(t'.out)
  BY Zenon, <1>0, CommandIs DEF PingReply
<1>13. Crossing(g'.crossed, g.crossed, k')
  <2>1. Stray(k') <=> Stray(k)
    BY <1>7 DEF Stray, Aside, SameRequest, SameProgress, in_progress
  <2> QED
    BY Zenon, <1>6, <2>1 DEF Inv, History, Steady, Resolved, Crossing
<1> QED
  BY Zenon, <1>0, <1>5, <1>6, <1>7, <1>11, <1>12, <1>13, AsideKeeps

LEMMA PingTimeoutKeeps ==
  ASSUME Inv, PingTimeout
  PROVE  Inv'
<1>0. /\ DOMAIN t = CommandFields /\ Flag(t.out) /\ InTurn(k.echo, t, echoes, g.slow)
      /\ DOMAIN g = HistoryFields /\ Flag(g.slow) /\ Off(g.lied)
  BY Zenon DEF Inv, History
<1>1. k' = k /\ echoes' = echoes /\ Off(k.echo.seen)
  BY Zenon, <1>0 DEF PingTimeout, InTurn, Flag, On, Off
<1>2. PICK b : b = (g.slow \/ \E r \in echoes : r.ours)
  BY Zenon
<1>3. g' = [g EXCEPT !.slow = b]
  BY Zenon, <1>2 DEF PingTimeout
<1>4. Flag(b) /\ (On(g.slow) => On(b)) /\ ((\E r \in echoes : r.ours) => On(b))
  BY Zenon, <1>0, <1>2 DEF Flag, On, Off
<1>5. /\ DOMAIN g' = HistoryFields /\ g'.want = g.want /\ g'.begins = g.begins /\ g'.age = g.age
      /\ g'.fresh = g.fresh /\ g'.slow = b /\ g'.crossed = g.crossed /\ g'.lied = g.lied
  BY <1>0, <1>3 DEF HistoryFields
<1>6. ~ On(b) => echoes = {}
  <2>1. SUFFICES ASSUME ~ On(b), echoes # {} PROVE FALSE
    BY Zenon
  <2>2. PICK w : w = [from |-> t.target, seq |-> t.seq, ours |-> TRUE]
    BY Zenon
  <2>3. echoes = {w}
    BY Zenon, <1>0, <1>4, <2>1, <2>2 DEF InTurn
  <2>4. w.ours = TRUE
    BY SMT, <2>2
  <2> QED
    BY Zenon, <1>4, <2>1, <2>3, <2>4
<1>7. InTurn(k'.echo, t', echoes', g'.slow)
  <2>1. ~ On(k.echo.seen)
    BY Zenon, <1>1, Flags
  <2> QED
    BY Zenon, <1>0, <1>1, <1>5, <1>6, <2>1 DEF InTurn
<1>8. DOMAIN t' = CommandFields /\ Flag(t'.out)
  BY Zenon, <1>0, CommandIs DEF PingTimeout
<1>9. Aside(k', k) /\ Crossing(g.crossed, g.crossed, k')
  BY Zenon, <1>1, NothingAside
<1> QED
  BY Zenon, <1>0, <1>4, <1>5, <1>7, <1>8, <1>9, AsideKeeps

LEMMA InitHolds ==
  ASSUME Init
  PROVE  Inv
<1>1. PICK ec : ec = [pending |-> FALSE, seq |-> 0, target |-> None, seen |-> FALSE,
                      from |-> None, rseq |-> 0, ours |-> TRUE]
  BY Zenon
<1>2. k = [dns |-> "idle", name |-> None, result |-> None, tries |-> 0, due |-> FALSE,
           tcp |-> "Closed", addr |-> None, tport |-> 0, reqs |-> 0, rx |-> 0,
           peerClosed |-> FALSE, shake |-> "no", session |-> "Idle", late |-> FALSE, told |-> FALSE,
           phase |-> "Idle", err |-> 0, hops |-> 0, tls |-> FALSE, host |-> None, port |-> 80,
           path |-> None, remote |-> None, sent |-> FALSE, parsed |-> FALSE,
           declared |-> FALSE, loc |-> None, since |-> -1, echo |-> ec]
  BY Zenon, <1>1 DEF Init
<1>3. Kernel(k)
  BY SMT, <1>2 DEF Kernel, Fields
<1>4. /\ k.dns = "idle" /\ k.tries = 0 /\ k.tcp = "Closed" /\ k.addr = None /\ k.reqs = 0 /\ k.rx = 0
      /\ k.session = "Idle" /\ k.phase = "Idle" /\ k.err = 0 /\ k.hops = 0 /\ k.since = -1 /\ k.echo = ec
  BY SMT, <1>2
<1>5. k.peerClosed = FALSE /\ k.tls = FALSE /\ k.parsed = FALSE
  BY SMT, <1>2
<1>6. Off(k.peerClosed) /\ Off(k.tls) /\ Off(k.parsed) /\ ~ On(k.peerClosed)
  BY Zenon, <1>5, Flags
<1>7. Typed(k)
  BY <1>4, <1>6, BoundsAssumption DEF Typed, Flag, in_progress
<1>8. Answering(k) /\ Wired(k) /\ Staged(k)
  BY <1>4, <1>6 DEF Answering, Wired, Staged
<1>9. Resolved(k, g.crossed) /\ Sited(k, g.crossed) /\ ~ in_progress(k)
  BY Zenon, <1>4 DEF Resolved, Stray, Sited, in_progress
<1>10. PICK a, b, c : g = [starts |-> a, cmds |-> b,
                           lates |-> c, want |-> SelftestUrl, begins |-> 0, age |-> 0,
                           fresh |-> FALSE, crossed |-> FALSE, slow |-> FALSE, lied |-> FALSE]
  BY Zenon DEF Init
<1>11. DOMAIN g = HistoryFields /\ g.want = SelftestUrl /\ g.begins = 0 /\ g.age = 0
  BY SMT, <1>10 DEF HistoryFields
<1>12. g.fresh = FALSE /\ g.crossed = FALSE /\ g.slow = FALSE /\ g.lied = FALSE
  BY SMT, <1>10
<1>13. Off(g.fresh) /\ Off(g.crossed) /\ Off(g.slow) /\ Off(g.lied)
  BY Zenon, <1>12, Flags
<1>14. DOMAIN t = CommandFields /\ Off(t.out)
  BY Zenon, IdleIs DEF Init
<1>15. History
  BY Zenon, <1>11, <1>13, <1>14, WorldAssumption DEF History, Flag
<1>16. Secured(k, g.want) /\ Counted(k, g.begins) /\ Timely(k, g.age, g.fresh)
  BY <1>9, <1>11, BoundsAssumption DEF Secured, Counted, Timely
<1>17. DOMAIN ec = EchoFields
  BY SMT, <1>1 DEF EchoFields
<1>18. ec.ours = TRUE
  BY SMT, <1>1
<1>19. ec.seen = FALSE
  BY SMT, <1>1
<1>20. On(ec.ours) /\ Off(ec.seen) /\ ~ On(ec.seen)
  BY Zenon, <1>18, <1>19, Flags
<1>21. echoes = {}
  BY Zenon DEF Init
<1>22. InTurn(k.echo, t, echoes, g.slow)
  BY Zenon, <1>4, <1>17, <1>20, <1>21 DEF InTurn, Flag
<1> QED
  BY Zenon, <1>3, <1>7, <1>8, <1>9, <1>13, <1>15, <1>16, <1>22 DEF Inv, Steady

LEMMA StepKeeps ==
  ASSUME Inv, [Next]_vars
  PROVE  Inv'
<1>1. CASE Poll
  BY Zenon, <1>1, PollKeeps
<1>2. CASE Time
  BY Zenon, <1>2, TimeKeeps
<1>3. ASSUME NEW u \in Urls, Browse(u) \/ cmd_http(u) PROVE Inv'
  BY Zenon, <1>3, BrowseKeeps, HttpKeeps
<1>4. ASSUME NEW h \in TypedHosts \cup {Gateway, SelftestName}, cmd_dns(h) \/ cmd_ping(h) PROVE Inv'
  <2>1. h \in DOMAIN AddrOf
    BY Zenon, WorldAssumption
  <2>2. t.cmd = "idle"
    BY Zenon, <1>4 DEF cmd_dns, cmd_ping, Begins, desktop
  <2>3. resolve(h, "show") \/ resolve(h, "ping")
    BY Zenon, <1>4 DEF cmd_dns, cmd_ping
  <2> QED
    BY Zenon, <2>1, <2>2, <2>3, ResolveKeeps
<1>5. CASE far_ping(SelftestName)
  BY Zenon, <1>5, FarPingKeeps
<1>6. CASE HttpEnds
  BY Zenon, <1>6, HttpEndsKeeps
<1>7. CASE ResolveEnds
  BY Zenon, <1>7, ResolveEndsKeeps
<1>8. ASSUME NEW hop \in BOOLEAN, PingSend(hop) PROVE Inv'
  BY Zenon, <1>8, PingSendKeeps
<1>9. CASE PingReply
  BY Zenon, <1>9, PingReplyKeeps
<1>10. CASE PingTimeout
  BY Zenon, <1>10, PingTimeoutKeeps
<1>11. CASE UNCHANGED vars
  <2>1. k' = k /\ t' = t /\ echoes' = echoes /\ g' = g
    BY Zenon, <1>11 DEF vars
  <2> QED
    BY Zenon, <2>1 DEF Inv, History
<1> QED
  BY Zenon, <1>1, <1>2, <1>3, <1>4, <1>5, <1>6, <1>7, <1>8, <1>9, <1>10, <1>11 DEF Next

LEMMA InvIsRightPeer ==
  ASSUME Inv
  PROVE  RightPeer
<1>1. TypeOK
  BY Zenon DEF Inv, Steady, Typed, TypeOK
<1>2. RightServer
  BY Zenon DEF Inv, Steady, Resolved, RightServer, On
<1>3. NeverInClear
  BY Zenon DEF Inv, Secured, NeverInClear, On
<1>4. AskedBeforeWaiting
  BY Zenon DEF Inv, Staged, AskedBeforeWaiting
<1>5. PingTruth
  BY Zenon DEF Inv, PingTruth, Off
<1> QED
  BY Zenon, <1>1, <1>2, <1>3, <1>4, <1>5 DEF RightPeer

LEMMA InvIsBounded ==
  ASSUME Inv
  PROVE  FetchBounded
<1>1. HopsBounded
  BY BoundsAssumption DEF Inv, Counted, HopsBounded
<1>2. PlainDeadline
  <2>1. SUFFICES ASSUME in_progress(k), ~ k.tls PROVE g.age <= DEADLINE + 2
    BY Zenon DEF PlainDeadline
  <2>2. Off(k.tls)
    BY Zenon, <2>1 DEF Inv, Steady, Typed, Flag, On
  <2>3. k.since \in -1..(DEADLINE + 1) /\ g.age \in Nat
    BY Zenon DEF Inv, Steady, Typed, Timely
  <2> QED
    BY <2>1, <2>2, <2>3, BoundsAssumption DEF Inv, Timely
<1> QED
  BY Zenon, <1>1, <1>2 DEF FetchBounded

\* The invariant of the fetch and of the programs that poll for an answer.
THEOREM InvHolds == Spec => []Inv
<1>1. Init => Inv
  BY InitHolds
<1>2. Inv /\ [Next]_vars => Inv'
  BY StepKeeps
<1> QED
  BY <1>1, <1>2, PTL DEF Spec

\* Whatever the servers, the resolver and the other programs do, a fetch goes
\* to the address its host resolves to unless another program's lookup has met
\* it, never in clear when TLS was asked for, waits only for a request handed
\* to TCP, and ping shows only answers to its own echoes (http.rs begin_connect,
\* follow_redirect and tick, tls.rs tick, icmp.rs handle).
THEOREM AlwaysRightPeer == Spec => []RightPeer
<1>1. Inv => RightPeer
  BY InvIsRightPeer
<1> QED
  BY <1>1, InvHolds, PTL

\* Whatever redirects it meets, a fetch is at most MAX_HOPS + 1 connections,
\* and each in clear is over DEADLINE after its first tick (http.rs
\* follow_redirect and tick).
THEOREM FetchIsBounded == Spec => []FetchBounded
<1>1. Inv => FetchBounded
  BY InvIsBounded
<1> QED
  BY <1>1, InvHolds, PTL

(* The chain of redirects *)

AfterStep(u, f) ==
  f = [n \in 0..MAX_HOPS |-> IF n = 0 THEN {u} ELSE UNION {Hop(v) : v \in f[n - 1]}]

\* The addresses exactly n redirects away.
After(u) == CHOOSE f : AfterStep(u, f)

LEMMA ChainIs ==
  ASSUME NEW u
  PROVE  Chain(u) = UNION {After(u)[n] : n \in 0..MAX_HOPS}
BY DEF Chain, After, AfterStep

LEMMA SiteIs ==
  ASSUME NEW h \in DOMAIN AddrOf, NEW p \in Paths
  PROVE  Site[<<h, p>>].loc \in Url \cup {None}
<1>1. Site[<<h, p>>] \in [kind : {"page", "other"}, declared : BOOLEAN, loc : Url \cup {None}]
  BY Zenon, WorldAssumption
<1> QED
  BY Zenon, <1>1

\* The address a redirect within the site leads to.
Within(v, l) == [v EXCEPT !.scheme = IF v.scheme # "http" THEN "https" ELSE "http", !.port = Dflt, !.path = l.path]

LEMMA WithinIs ==
  ASSUME NEW v \in Url, NEW l \in Url
  PROVE  /\ Within(v, l) = [scheme |-> IF v.scheme # "http" THEN "https" ELSE "http", host |-> v.host,
                            port |-> Dflt, path |-> l.path]
         /\ Within(v, l) \in Url
<1>1. PICK s : s = IF v.scheme # "http" THEN "https" ELSE "http"
  OBVIOUS
<1>2. Within(v, l) = [v EXCEPT !.scheme = s, !.port = Dflt, !.path = l.path]
  BY Zenon, <1>1 DEF Within
<1>3. s \in {"http", "https", "bare", "none"}
  BY <1>1
<1>4. Within(v, l) = [scheme |-> s, host |-> v.host, port |-> Dflt, path |-> l.path] /\ Within(v, l) \in Url
  BY Zenon, <1>2, <1>3 DEF Url
<1> QED
  BY Zenon, <1>1, <1>4

LEMMA HopIs ==
  ASSUME NEW v, NEW w
  PROVE  LET l == Site[<<v.host, v.path>>].loc IN
         w \in Hop(v) <=> /\ v.host # None /\ AddrOf[v.host] # None /\ l # None
                          /\ ~ (l.scheme = "http" /\ v.scheme # "http")
                          /\ w = IF l.scheme = "none" THEN Within(v, l) ELSE l
<1>1. PICK l : l = Site[<<v.host, v.path>>].loc
  OBVIOUS
<1>2. Hop(v) = IF v.host = None \/ AddrOf[v.host] = None \/ l = None THEN {}
               ELSE IF l.scheme = "none" THEN {Within(v, l)}
               ELSE IF l.scheme = "http" /\ v.scheme # "http" THEN {}
               ELSE {l}
  BY Zenon, <1>1 DEF Hop, Within
<1>3. l.scheme = "none" => ~ (l.scheme = "http")
  OBVIOUS
<1> QED
  BY Zenon, <1>1, <1>2, <1>3

LEMMA HopStays ==
  ASSUME NEW v \in Url, NEW w \in Hop(v)
  PROVE  w \in Url
<1>1. PICK l : l = Site[<<v.host, v.path>>].loc
  BY Zenon
<1>2. v.host # None /\ l # None /\ w = IF l.scheme = "none" THEN Within(v, l) ELSE l
  BY Zenon, <1>1, HopIs
<1>3. v.host \in DOMAIN AddrOf /\ v.path \in Paths
  BY Zenon, <1>2 DEF Url
<1>4. l \in Url
  BY Zenon, <1>1, <1>2, <1>3, SiteIs
<1> QED
  BY Zenon, <1>2, <1>4, WithinIs

\* The fetch asks for v.
Asks(kk, v) ==
  /\ v \in Url /\ v.host # None /\ kk.host = v.host /\ kk.path = v.path /\ kk.port = PortOf(v)
  /\ On(kk.tls) <=> v.scheme # "http"

LEMMA LeadsToHop ==
  ASSUME NEW kk, NEW v, Asks(kk, v), NEW u, Leads(kk, u)
  PROVE  u \in Hop(v)
<1>1. PICK l : l = Site[<<kk.host, kk.path>>].loc
  BY Zenon
<1>2. /\ l # None /\ l \in Url /\ AddrOf[kk.host] # None /\ ~ (l.scheme = "http" /\ On(kk.tls))
      /\ u = IF l.scheme = "none"
             THEN [scheme |-> IF On(kk.tls) THEN "https" ELSE "http", host |-> kk.host,
                   port |-> Dflt, path |-> l.path]
             ELSE l
  BY Zenon, <1>1 DEF Leads
<1>3. v.host = kk.host /\ v.path = kk.path /\ v.host # None /\ v \in Url /\ (On(kk.tls) <=> v.scheme # "http")
  BY Zenon DEF Asks
<1>4. u = IF l.scheme = "none" THEN Within(v, l) ELSE l
  <2>1. CASE l.scheme = "none"
    <3>1. (IF On(kk.tls) THEN "https" ELSE "http") = (IF v.scheme # "http" THEN "https" ELSE "http")
      BY Zenon, <1>3
    <3>2. u = [scheme |-> IF v.scheme # "http" THEN "https" ELSE "http", host |-> v.host,
               port |-> Dflt, path |-> l.path]
      BY Zenon, <1>2, <1>3, <2>1, <3>1
    <3> QED
      BY Zenon, <1>2, <1>3, <2>1, <3>2, WithinIs
  <2>2. CASE l.scheme # "none"
    BY Zenon, <1>2, <2>2
  <2> QED
    BY Zenon, <2>1, <2>2
<1> QED
  BY Zenon, <1>1, <1>2, <1>3, <1>4, HopIs

\* The addresses n redirects from u, by the paths that lead to them.
Trail(u, n, p) == p[0] = u /\ \A i \in 1..n : p[i] \in Hop(p[i - 1])

Reached(u, n) == {v \in Url : \E p \in [0..n -> Url] : Trail(u, n, p) /\ p[n] = v}

LEMMA ReachedFirst ==
  ASSUME NEW u \in Url
  PROVE  Reached(u, 0) = {u}
<1>1. ASSUME NEW v \in Reached(u, 0) PROVE v = u
  BY Zenon, <1>1 DEF Reached, Trail
<1>2. u \in Reached(u, 0)
  <2>1. PICK p : p = [i \in 0..0 |-> u]
    BY Zenon
  <2>2. p \in [0..0 -> Url] /\ p[0] = u /\ Trail(u, 0, p)
    BY <2>1 DEF Trail
  <2> QED
    BY Zenon, <2>2 DEF Reached
<1> QED
  BY Zenon, <1>1, <1>2

LEMMA ReachedNext ==
  ASSUME NEW u \in Url, NEW n \in Nat, n # 0
  PROVE  Reached(u, n) = UNION {Hop(v) : v \in Reached(u, n - 1)}
<1>0. PICK m : m = n - 1
  OBVIOUS
<1>1. m \in Nat /\ n = m + 1
  BY <1>0
<1>2. ASSUME NEW w \in Reached(u, n) PROVE \E v \in Reached(u, m) : w \in Hop(v)
  <2>1. PICK p \in [0..n -> Url] : Trail(u, n, p) /\ p[n] = w
    BY Zenon, <1>2 DEF Reached
  <2>2. PICK q : q = [i \in 0..m |-> p[i]]
    BY Zenon
  <2>3. q \in [0..m -> Url]
    BY <1>1, <2>1, <2>2
  <2>4. Trail(u, m, q)
    BY <1>1, <2>1, <2>2 DEF Trail
  <2>5. q[m] \in Url /\ w \in Hop(q[m])
    <3>1. q[m] = p[n - 1] /\ n \in 1..n
      BY <1>0, <1>1, <2>2
    <3>2. p[n] \in Hop(p[n - 1])
      BY Zenon, <2>1, <3>1 DEF Trail
    <3>3. m \in 0..m
      BY <1>1
    <3> QED
      BY Zenon, <2>1, <2>3, <3>1, <3>2, <3>3
  <2> QED
    BY Zenon, <2>3, <2>4, <2>5 DEF Reached
<1>3. ASSUME NEW v \in Reached(u, m), NEW w \in Hop(v) PROVE w \in Reached(u, n)
  <2>1. PICK p \in [0..m -> Url] : Trail(u, m, p) /\ p[m] = v
    BY Zenon, <1>3 DEF Reached
  <2>2. w \in Url
    BY Zenon, HopStays DEF Reached
  <2>3. PICK q : q = [i \in 0..n |-> IF i = n THEN w ELSE p[i]]
    BY Zenon
  <2>4. q \in [0..n -> Url] /\ q[n] = w
    BY <1>1, <2>1, <2>2, <2>3
  <2>5. \A i \in 0..m : q[i] = p[i]
    BY <1>1, <2>3
  <2>6. ASSUME NEW i \in 1..n PROVE q[i] \in Hop(q[i - 1])
    <3>1. CASE i = n
      <4>1. q[i - 1] = v /\ q[i] = w
        BY <1>0, <1>1, <2>1, <2>4, <2>5, <3>1
      <4> QED
        BY Zenon, <4>1
    <3>2. CASE i # n
      <4>1. i \in 1..m /\ q[i] = p[i] /\ q[i - 1] = p[i - 1]
        BY <1>1, <2>5, <3>2
      <4> QED
        BY Zenon, <2>1, <4>1 DEF Trail
    <3> QED
      BY Zenon, <3>1, <3>2
  <2>7. q[0] = u
    BY <1>1, <2>1, <2>5 DEF Trail
  <2> QED
    BY Zenon, <2>2, <2>4, <2>6, <2>7 DEF Trail, Reached
<1> QED
  BY Zenon, <1>0, <1>2, <1>3

LEMMA AfterIs ==
  ASSUME NEW u \in Url
  PROVE  /\ After(u)[0] = {u}
         /\ \A n \in 0..MAX_HOPS : n # 0 => After(u)[n] = UNION {Hop(v) : v \in After(u)[n - 1]}
<1>1. PICK f : f = [n \in 0..MAX_HOPS |-> Reached(u, n)]
  BY Zenon
<1>2. ASSUME NEW n \in 0..MAX_HOPS
      PROVE  f[n] = IF n = 0 THEN {u} ELSE UNION {Hop(v) : v \in f[n - 1]}
  <2>1. CASE n = 0
    BY Zenon, <1>1, <2>1, ReachedFirst
  <2>2. CASE n # 0
    <3>1. n \in Nat /\ n - 1 \in 0..MAX_HOPS
      BY <2>2, BoundsAssumption
    <3> QED
      BY Zenon, <1>1, <2>2, <3>1, ReachedNext
  <2> QED
    BY Zenon, <2>1, <2>2
<1>3. AfterStep(u, f)
  <2>1. f = [n \in 0..MAX_HOPS |-> IF n = 0 THEN {u} ELSE UNION {Hop(v) : v \in f[n - 1]}]
    BY Zenon, <1>1, <1>2
  <2> QED
    BY Zenon, <2>1 DEF AfterStep
<1>4. AfterStep(u, After(u))
  BY Zenon, <1>3 DEF After
<1>5. \A n \in 0..MAX_HOPS :
        After(u)[n] = IF n = 0 THEN {u} ELSE UNION {Hop(v) : v \in After(u)[n - 1]}
  BY Zenon, <1>4 DEF AfterStep
<1>6. 0 \in 0..MAX_HOPS
  BY BoundsAssumption
<1> QED
  BY Zenon, <1>5, <1>6

(* What a step does, as a user of the client sees it *)

\* The last start is still the one, and nothing uncrosses its fetch.
SameCall == g'.want = g.want /\ (On(g.crossed) => On(g'.crossed))

\* The fetch goes on as it was, whatever else happens.
Untouched == SameCall /\ SameRequest(k', k) /\ k'.phase = k.phase /\ SamePage(k', k)

Turned(q) ==
  /\ SameCall /\ SameRequest(q, k) /\ q.phase = k.phase /\ (k.phase = "Done" => SamePage(q, k))
  /\ Passed(k', q, g.crossed)

LEMMA PollTurns ==
  ASSUME Inv, Poll
  PROVE  \E q : Turned(q)
<1>1. PICK e1 \in Events(k) : \E e2 \in Events(arrive(k, e1)) : \E late \in {FALSE, g.lates > 0} :
        /\ e1 = <<"none">> => e2 = <<"none">>
        /\ e1[1] = "echo" => e2 # e1
        /\ late => k.phase = "Sending"
        /\ poll(e1, e2, late)
  BY Zenon DEF Poll
<1>2. PICK e2 \in Events(arrive(k, e1)) : \E late \in {FALSE, g.lates > 0} :
        (e1[1] = "echo" => e2 # e1) /\ poll(e1, e2, late)
  BY Zenon, <1>1
<1>3. PICK late : (e1[1] = "echo" => e2 # e1) /\ poll(e1, e2, late)
  BY Zenon, <1>2
<1>4. PICK q : Listened(q, echoes') /\ Passed(k', q, g.crossed)
  BY Zenon, <1>3, PollIs
<1>5. PICK a, b, z : g' = Note([g EXCEPT !.fresh = TRUE, !.lates = z, !.begins = b, !.age = a])
  BY Zenon, <1>3 DEF poll
<1>6. PICK gg : gg = [g EXCEPT !.fresh = TRUE, !.lates = z, !.begins = b, !.age = a]
  BY Zenon
<1>7. DOMAIN gg = HistoryFields /\ gg.want = g.want /\ gg.crossed = g.crossed
  BY <1>6 DEF Inv, History, HistoryFields
<1>8. Flag(k'.tls)
  BY Zenon, <1>4 DEF Passed, Ticked, Failing, Arrived, Hopping, Begun, Steady, Typed
<1>9. SameHistory(g', gg) /\ Crossing(g'.crossed, g.crossed, k')
  BY Zenon, <1>5, <1>6, <1>7, <1>8, NoteIs DEF Inv, History
<1>10. SameCall
  BY Zenon, <1>7, <1>9 DEF SameHistory, Crossing, SameCall
<1> QED
  BY Zenon, <1>4, <1>10 DEF Listened, SameProgress, Turned

LEMMA TimeLeaves ==
  ASSUME Inv, Time
  PROVE  Untouched
<1>1. Kernel(k) /\ DOMAIN g = HistoryFields
  BY Zenon DEF Inv, Steady, History
<1>2. PICK w, n : k' = [k EXCEPT !.due = w, !.since = n]
  BY Zenon DEF Time
<1>3. SameRequest(k', k) /\ k'.phase = k.phase /\ SamePage(k', k)
  BY <1>1, <1>2 DEF Kernel, Fields, SameRequest, SamePage
<1>4. PICK a : g' = [g EXCEPT !.fresh = FALSE, !.age = a]
  BY Zenon DEF Time
<1>5. g'.want = g.want /\ g'.crossed = g.crossed
  BY <1>1, <1>4 DEF HistoryFields
<1> QED
  BY Zenon, <1>3, <1>5 DEF SameCall, Untouched

LEMMA AsideLeaves ==
  ASSUME Aside(k', k), SameCall
  PROVE  Untouched
BY Zenon DEF Aside, SameConnection, SameProgress, SamePage, Untouched

LEMMA ResolveLeaves ==
  ASSUME Inv, NEW h \in DOMAIN AddrOf, NEW then, resolve(h, then)
  PROVE  Untouched
<1>1. Aside(k', k) /\ Flag(k'.tls)
  <2>1. k' = k \/ k' = dns_start(k, h)
    BY Zenon DEF resolve
  <2> QED
    BY Zenon, <2>1, NothingAside, LookupAside
<1>2. PICK gg : gg = Note(g)
  OBVIOUS
<1>3. SameHistory(gg, g) /\ Crossing(gg.crossed, g.crossed, k')
  BY Zenon, <1>1, <1>2, NoteIs DEF Inv, History
<1>4. PICK z : g' = [gg EXCEPT !.cmds = z]
  BY Zenon, <1>2 DEF resolve
<1>5. g'.want = gg.want /\ g'.crossed = gg.crossed
  BY <1>3, <1>4 DEF SameHistory, HistoryFields
<1>6. SameCall
  BY Zenon, <1>3, <1>5 DEF SameHistory, Crossing, SameCall
<1> QED
  BY Zenon, <1>1, <1>6, AsideLeaves

LEMMA ResolveEndsLeaves ==
  ASSUME Inv, ResolveEnds
  PROVE  Untouched
<1>1. k' = take_result(k) /\ g' = Note(g)
  BY Zenon DEF ResolveEnds
<1>2. Aside(k', k) /\ Flag(k'.tls)
  BY Zenon, <1>1, TakenAside
<1>3. SameHistory(g', g) /\ Crossing(g'.crossed, g.crossed, k')
  BY Zenon, <1>1, <1>2, NoteIs DEF Inv, History
<1>4. SameCall
  BY Zenon, <1>3 DEF SameHistory, Crossing, SameCall
<1> QED
  BY Zenon, <1>2, <1>4, AsideLeaves

LEMMA PingLeaves ==
  ASSUME Inv, PingReply \/ PingTimeout \/ \E hop \in BOOLEAN : PingSend(hop)
  PROVE  Untouched
<1>0. Kernel(k) /\ DOMAIN g = HistoryFields
  BY Zenon DEF Inv, Steady, History
<1>1. \E ec : k' = [k EXCEPT !.echo = ec] \/ k' = [k EXCEPT !.echo.seen = ec] \/ k' = k
  BY Zenon DEF PingReply, PingTimeout, PingSend, take_reply, icmp_request
<1>2. SameRequest(k', k) /\ k'.phase = k.phase /\ SamePage(k', k)
  BY <1>0, <1>1 DEF Kernel, Fields, SameRequest, SamePage
<1>3. \E b : g' = [g EXCEPT !.lied = b] \/ g' = [g EXCEPT !.slow = b] \/ g' = g
  BY Zenon DEF PingReply, PingTimeout, PingSend
<1>4. g'.want = g.want /\ g'.crossed = g.crossed
  BY <1>0, <1>3 DEF HistoryFields
<1> QED
  BY Zenon, <1>2, <1>4 DEF SameCall, Untouched

LEMMA StartIs ==
  ASSUME Inv, NEW u \in Urls, Browse(u) \/ cmd_http(u)
  PROVE  k' = start(k, u) /\ Restarted(g', u)
<1>1. PICK h : h = Started(u)
  OBVIOUS
<1>2. k' = start(k, u)
  BY Zenon DEF Browse, cmd_http
<1>3. \E z : g' = [h EXCEPT !.starts = z] \/ g' = [h EXCEPT !.cmds = z]
  BY Zenon, <1>1 DEF Browse, cmd_http
<1>4. Restarted(h, u)
  BY Zenon, <1>1, <1>2, StartedIs
<1> QED
  BY Zenon, <1>2, <1>3, <1>4, RestartedStill

LEMMA StepIs ==
  ASSUME Inv, [Next]_vars
  PROVE  \/ \E u \in Urls : k' = start(k, u) /\ Restarted(g', u)
         \/ \E q : Turned(q)
         \/ Untouched
<1>1. ASSUME NEW u \in Urls, Browse(u) \/ cmd_http(u)
      PROVE  \E v \in Urls : k' = start(k, v) /\ Restarted(g', v)
  BY Zenon, <1>1, StartIs
<1>2. ASSUME NEW h \in TypedHosts \cup {Gateway, SelftestName}, cmd_dns(h) \/ cmd_ping(h) PROVE Untouched
  <2>1. h \in DOMAIN AddrOf
    BY Zenon, WorldAssumption
  <2> QED
    BY Zenon, <1>2, <2>1, ResolveLeaves DEF cmd_dns, cmd_ping
<1>3. ASSUME k' = k, g' = g PROVE Untouched
  BY Zenon, <1>3 DEF SameCall, SameRequest, SamePage, Untouched
<1>4. CASE far_ping(SelftestName) \/ HttpEnds \/ UNCHANGED vars
  <2>1. k' = k /\ g' = g
    BY Zenon, <1>4 DEF far_ping, HttpEnds, vars
  <2> QED
    BY Zenon, <1>3, <2>1
<1> QED
  BY Zenon, <1>1, <1>2, <1>4, PollTurns, TimeLeaves, ResolveEndsLeaves, PingLeaves DEF Next

\* The fetch asks for an address on the chain of the one it was started with.
OnChain(kk, u, c) == in_progress(kk) /\ ~ On(c) => \E v \in After(u)[kk.hops] : Asks(kk, v)

\* The inductive invariant of the refinement.
Chained == Inv /\ OnChain(k, g.want, g.crossed)

LEMMA HopIsOnChain ==
  ASSUME Inv, OnChain(k, g.want, g.crossed), in_progress(k), ~ On(g.crossed),
         NEW q, SameRequest(q, k), Hopping(k', q), in_progress(k')
  PROVE  \E v \in After(g.want)[k'.hops] : Asks(k', v)
<1>1. PICK u \in Url : \E y : /\ Begun(k', y, u) /\ y.hops = q.hops + 1 /\ y.hops <= MAX_HOPS /\ Leads(q, u)
  BY Zenon DEF Hopping
<1>2. /\ k'.hops = k.hops + 1 /\ k'.hops <= MAX_HOPS /\ (On(k'.tls) <=> u.scheme # "http") /\ Asked(k', u)
  BY Zenon, <1>1 DEF Begun, SameRequest, in_progress
<1>3. Asks(k', u)
  BY Zenon, <1>2 DEF Asks, Asked
<1>4. PICK v \in After(g.want)[k.hops] : Asks(k, v)
  BY Zenon DEF OnChain
<1>5. Leads(k, u)
  <2>1. q.host = k.host /\ q.path = k.path /\ q.tls = k.tls
    BY Zenon DEF SameRequest
  <2> QED
    BY Zenon, <1>1, <2>1 DEF Leads
<1>6. u \in Hop(v)
  BY Zenon, <1>4, <1>5, LeadsToHop
<1>7. k'.hops \in 0..MAX_HOPS /\ k'.hops # 0 /\ k'.hops - 1 = k.hops
  <2>1. k.hops \in 0..(MAX_HOPS + 1)
    BY Zenon DEF Inv, Steady, Typed
  <2> QED
    BY <1>2, <2>1, BoundsAssumption
<1>8. g.want \in Url
  BY Zenon, WorldAssumption DEF Inv, History
<1>9. After(g.want)[k'.hops] = UNION {Hop(x) : x \in After(g.want)[k.hops]}
  BY Zenon, <1>7, <1>8, AfterIs
<1> QED
  BY Zenon, <1>3, <1>4, <1>6, <1>9

LEMMA ChainKept ==
  ASSUME Chained, [Next]_vars
  PROVE  Chained'
<1>1. Inv /\ OnChain(k, g.want, g.crossed) /\ Inv'
  BY Zenon, StepKeeps DEF Chained
<1>2. ASSUME NEW u \in Urls, k' = start(k, u), Restarted(g', u) PROVE OnChain(k', g'.want, g'.crossed)
  <2>1. PICK q : q.hops = 0 /\ Begun(k', q, u) /\ u \in Url
    BY Zenon, <1>1, <1>2, StartBegins
  <2>2. k'.hops = 0 /\ (On(k'.tls) <=> u.scheme # "http") /\ (in_progress(k') => Asked(k', u))
    BY Zenon, <2>1 DEF Begun, in_progress
  <2>3. in_progress(k') => Asks(k', u)
    BY Zenon, <2>1, <2>2 DEF Asks, Asked
  <2>4. After(g'.want)[k'.hops] = {u}
    BY Zenon, <1>2, <2>1, <2>2, AfterIs DEF Restarted
  <2> QED
    BY Zenon, <2>3, <2>4 DEF OnChain
<1>3. ASSUME NEW q, SameCall, SameRequest(q, k), SameRequest(k', q), in_progress(k)
      PROVE  OnChain(k', g'.want, g'.crossed)
  <2>1. /\ k'.hops = k.hops /\ k'.host = k.host /\ k'.path = k.path /\ k'.port = k.port /\ k'.tls = k.tls
    BY Zenon, <1>3 DEF SameRequest
  <2>2. \A v : Asks(k, v) => Asks(k', v)
    BY Zenon, <2>1 DEF Asks
  <2>3. g'.want = g.want /\ (On(g.crossed) => On(g'.crossed))
    BY Zenon, <1>3 DEF SameCall
  <2> QED
    BY Zenon, <1>1, <1>3, <2>1, <2>2, <2>3 DEF OnChain
<1>4. ASSUME NEW q, Turned(q) PROVE OnChain(k', g'.want, g'.crossed)
  <2>1. CASE ~ in_progress(k')
    BY Zenon, <2>1 DEF OnChain
  <2>2. CASE in_progress(k')
    <3>1. in_progress(q) <=> in_progress(k)
      BY <1>4 DEF Turned, in_progress
    <3>2. in_progress(k)
      <4>1. SUFFICES ASSUME ~ in_progress(k) PROVE FALSE
        BY Zenon
      <4>2. SameProgress(k', q)
        BY Zenon, <1>4, <3>1, <4>1 DEF Turned, Passed
      <4> QED
        BY Zenon, <2>2, <3>1, <4>1, <4>2 DEF SameProgress, in_progress
    <3>3. Ticked(k', q, g.crossed)
      BY Zenon, <1>4, <3>1, <3>2 DEF Turned, Passed
    <3>4. ~ Failing(k', q, g.crossed) /\ ~ Arrived(k', q, g.crossed)
      BY Zenon, <2>2 DEF Failing, Arrived, in_progress
    <3>5. CASE Hopping(k', q)
      BY Zenon, <1>1, <1>4, <2>2, <3>2, <3>5, HopIsOnChain DEF Turned, SameCall, OnChain
    <3>6. CASE SameRequest(k', q)
      BY Zenon, <1>3, <1>4, <3>2, <3>6 DEF Turned
    <3> QED
      BY Zenon, <3>3, <3>4, <3>5, <3>6 DEF Ticked
  <2> QED
    BY Zenon, <2>1, <2>2
<1>5. ASSUME Untouched PROVE OnChain(k', g'.want, g'.crossed)
  <2>1. SameRequest(k, k) /\ SameRequest(k', k) /\ SameCall /\ (in_progress(k') <=> in_progress(k))
    BY Zenon, <1>5 DEF SameRequest, Untouched, in_progress
  <2> QED
    BY Zenon, <1>3, <2>1 DEF OnChain
<1>6. OnChain(k', g'.want, g'.crossed)
  BY Zenon, <1>1, <1>2, <1>4, <1>5, StepIs
<1> QED
  BY Zenon, <1>1, <1>6 DEF Chained

(* The refinement *)

CallOf(kk) ==
  CASE kk.phase = "Idle" -> "none"
    [] in_progress(kk) -> "busy"
    [] kk.phase = "Done" -> "done"
    [] kk.phase = "Failed" -> "failed"

PageOf(kk) == IF kk.phase = "Done" THEN Page(kk) ELSE None

LEMMA CallIs ==
  ASSUME NEW kk
  PROVE  /\ kk.phase = "Idle" => CallOf(kk) = "none"
         /\ in_progress(kk) => CallOf(kk) = "busy" /\ PageOf(kk) = None
         /\ kk.phase = "Done" => CallOf(kk) = "done" /\ PageOf(kk) = Page(kk)
         /\ kk.phase = "Failed" => CallOf(kk) = "failed" /\ PageOf(kk) = None
<1>1. kk.phase = "Idle" => CallOf(kk) = "none"
  BY DEF CallOf, in_progress
<1>2. in_progress(kk) => CallOf(kk) = "busy" /\ PageOf(kk) = None
  BY DEF CallOf, PageOf, in_progress
<1>3. kk.phase = "Done" => CallOf(kk) = "done" /\ PageOf(kk) = Page(kk)
  <2>1. kk.phase = "Done" => CallOf(kk) = "done"
    BY DEF CallOf, in_progress
  <2> QED
    BY Zenon, <2>1 DEF PageOf
<1>4. kk.phase = "Failed" => CallOf(kk) = "failed" /\ PageOf(kk) = None
  BY DEF CallOf, PageOf, in_progress
<1> QED
  BY Zenon, <1>1, <1>2, <1>3, <1>4

\* The steps of HttpClient under the mapping.
LEMMA StartsClient ==
  ASSUME NEW u \in Urls, CallOf(k') \in {"busy", "failed"}, g'.want = u, PageOf(k') = None,
         g'.crossed \in BOOLEAN
  PROVE  Client!ClientNext
<1>1. Client!StartFetch(u)
  BY Zenon DEF Client!StartFetch, CallOf, PageOf
<1> QED
  BY Zenon, <1>1 DEF Client!ClientNext

LEMMA FailsClient ==
  ASSUME CallOf(k) = "busy", CallOf(k') = "failed", PageOf(k') = None, g'.want = g.want,
         g'.crossed \in {TRUE, g.crossed}
  PROVE  Client!ClientNext
<1>1. Client!FetchFails
  BY Zenon DEF Client!FetchFails, CallOf, PageOf
<1> QED
  BY Zenon, <1>1 DEF Client!ClientNext

LEMMA DoesClient ==
  ASSUME CallOf(k) = "busy", CallOf(k') = "done", g'.want = g.want, g'.crossed \in {TRUE, g.crossed},
         PageOf(k') \in IF g'.crossed THEN AnyPage ELSE RealPages(g.want)
  PROVE  Client!ClientNext
<1>1. Client!FetchDone
  BY Zenon DEF Client!FetchDone, CallOf, PageOf
<1> QED
  BY Zenon, <1>1 DEF Client!ClientNext

LEMMA LeavesClient ==
  ASSUME CallOf(k') = CallOf(k), PageOf(k') = PageOf(k), g'.want = g.want, g'.crossed \in {TRUE, g.crossed}
  PROVE  [Client!ClientNext]_(Client!clientVars)
<1>1. CASE g'.crossed = TRUE
  <2>1. Client!Cross
    BY Zenon, <1>1 DEF Client!Cross, CallOf, PageOf
  <2> QED
    BY Zenon, <2>1 DEF Client!ClientNext
<1>2. CASE g'.crossed = g.crossed
  BY Zenon, <1>2 DEF Client!clientVars, CallOf, PageOf
<1> QED
  BY Zenon, <1>1, <1>2

LEMMA PageAmong ==
  ASSUME NEW a0 \in Addresses, NEW p0 \in Ports, NEW h0 \in DOMAIN AddrOf,
         NEW q0 \in Paths, NEW n0 \in 0..3
  PROVE  [addr |-> a0, port |-> p0, host |-> h0, path |-> q0, part |-> n0] \in AnyPage
BY SMT DEF AnyPage

LEMMA PageOnChain ==
  ASSUME NEW u, NEW v0 \in Reachable(u), NEW n0 \in 0..3
  PROVE  PageAt(v0, n0) \in LandsOn(u)
BY SMT DEF LandsOn

\* A fetch that ends uncrossed ends on its chain, a crossed one somewhere.
LEMMA LandsOnChain ==
  ASSUME Chained, in_progress(k), NEW c, Landed(k', c), On(c) => On(g'.crossed),
         On(g.crossed) => On(g'.crossed), Flag(g'.crossed),
         NEW q, SameRequest(q, k), SameRequest(k', q), c = g.crossed
  PROVE  Page(k') \in IF g'.crossed THEN AnyPage ELSE RealPages(g.want)
<1>1. CASE On(g'.crossed)
  <2>1. k'.tport \in Ports
    <3>1. <<k'.addr, k'.tport>> \in Listeners /\ <<k'.addr, k'.tport>>[2] = k'.tport
      BY Zenon DEF Landed
    <3> QED
      BY Zenon, <3>1 DEF Ports
  <2>2. k'.addr \in Addresses /\ k'.host \in DOMAIN AddrOf /\ k'.path \in Paths /\ k'.rx \in 0..3
    BY Zenon DEF Landed
  <2>3. Page(k') \in AnyPage
    BY Zenon, <2>1, <2>2, PageAmong DEF Page
  <2> QED
    BY Zenon, <1>1, <2>3 DEF On
<1>2. CASE Off(g'.crossed)
  <2>1. ~ On(g'.crossed)
    BY Zenon, <1>2, Flags
  <2>2. PICK v \in After(g.want)[k.hops] : Asks(k, v)
    BY Zenon, <2>1 DEF Chained, OnChain
  <2>3. /\ k'.addr = AddrOf[k'.host] /\ k'.tport = k'.port
        /\ k'.rx < 2 \/ Site[<<k'.host, k'.path>>].loc = None
        /\ k'.rx \in 0..3
    BY Zenon, <2>1 DEF Landed
  <2>4. k'.host = v.host /\ k'.path = v.path /\ k'.port = PortOf(v) /\ v.host # None
    BY Zenon, <2>2 DEF Asks, SameRequest
  <2>5. k.hops \in 0..MAX_HOPS
    <3>1. k.hops \in 0..(MAX_HOPS + 1) /\ k.hops <= MAX_HOPS
      BY Zenon DEF Chained, Inv, Steady, Typed
    <3> QED
      BY <3>1, BoundsAssumption
  <2>6. v \in Reachable(g.want)
    BY Zenon, <2>2, <2>4, <2>5, ChainIs DEF Reachable
  <2>7. PICK p : p = Page(k')
    BY Zenon
  <2>8. p = PageAt(v, k'.rx)
    BY Zenon, <2>3, <2>4, <2>7 DEF Page, PageAt
  <2>9. p \in LandsOn(g.want)
    BY Zenon, <2>3, <2>4, <2>6, <2>8, PageOnChain
  <2>10. p.part = k'.rx /\ p.host = k'.host /\ p.path = k'.path
    BY SMT, <2>7 DEF Page
  <2>11. p \in RealPages(g.want)
    BY Zenon, <2>3, <2>9, <2>10 DEF RealPages
  <2> QED
    BY Zenon, <1>2, <2>7, <2>11 DEF Off
<1> QED
  BY Zenon, <1>1, <1>2 DEF Flag

LEMMA SameCallIs ==
  ASSUME SameCall, Flag(g.crossed), Flag(g'.crossed)
  PROVE  g'.want = g.want /\ g'.crossed \in {TRUE, g.crossed}
BY Zenon DEF SameCall, Flag, On, Off

\* A fetch that is over, or that goes on, looks the same to the client.
LEMMA StaysSame ==
  ASSUME Typed(k),
         \/ in_progress(k) /\ in_progress(k')
         \/ k'.phase = k.phase /\ (k.phase = "Done" => SamePage(k', k) /\ k'.host = k.host /\ k'.path = k.path)
  PROVE  CallOf(k') = CallOf(k) /\ PageOf(k') = PageOf(k)
<1>1. CASE in_progress(k) /\ in_progress(k')
  BY Zenon, <1>1, CallIs
<1>2. CASE k'.phase = k.phase /\ (k.phase = "Done" => SamePage(k', k) /\ k'.host = k.host /\ k'.path = k.path)
  <2>1. CallOf(k') = CallOf(k)
    BY Zenon, <1>2 DEF CallOf, in_progress
  <2>2. CASE k.phase = "Done"
    BY Zenon, <1>2, <2>1, <2>2 DEF PageOf, Page, SamePage
  <2>3. CASE k.phase # "Done"
    BY Zenon, <1>2, <2>1, <2>3 DEF PageOf
  <2> QED
    BY Zenon, <2>2, <2>3
<1> QED
  BY Zenon, <1>1, <1>2

LEMMA StepOfClient ==
  ASSUME Chained, [Next]_vars
  PROVE  [Client!ClientNext]_(Client!clientVars)
<1>0. /\ Inv /\ Typed(k) /\ Flag(g.crossed) /\ Flag(g'.crossed)
  BY Zenon, StepKeeps DEF Chained, Inv, Steady, History
<1>1. ASSUME NEW u \in Urls, k' = start(k, u), Restarted(g', u) PROVE Client!ClientNext
  <2>1. PICK q : Begun(k', q, u)
    BY Zenon, <1>0, <1>1, StartBegins
  <2>2. in_progress(k') \/ k'.phase = "Failed"
    BY Zenon, <2>1 DEF Begun, in_progress
  <2>3. CallOf(k') \in {"busy", "failed"} /\ PageOf(k') = None
    BY Zenon, <2>2, CallIs
  <2>4. g'.want = u /\ g'.crossed \in BOOLEAN
    BY Zenon, <1>1, Flags DEF Restarted, Flag
  <2> QED
    BY Zenon, <2>3, <2>4, StartsClient
<1>2. ASSUME NEW q, Turned(q) PROVE [Client!ClientNext]_(Client!clientVars)
  <2>1. g'.want = g.want /\ g'.crossed \in {TRUE, g.crossed}
    BY Zenon, <1>0, <1>2, SameCallIs DEF Turned
  <2>2. in_progress(q) <=> in_progress(k)
    BY <1>2 DEF Turned, in_progress
  <2>3. CASE ~ in_progress(k)
    <3>1. SameRequest(k', q) /\ SameProgress(k', q) /\ SamePage(k', q)
      BY Zenon, <1>2, <2>2, <2>3 DEF Turned, Passed
    <3>2. k'.phase = k.phase /\ (k.phase = "Done" => SamePage(k', k) /\ k'.host = k.host /\ k'.path = k.path)
      BY Zenon, <1>2, <3>1 DEF Turned, SameRequest, SameProgress, SamePage
    <3> QED
      BY Zenon, <1>0, <2>1, <3>2, StaysSame, LeavesClient
  <2>4. CASE in_progress(k)
    <3>1. Ticked(k', q, g.crossed)
      BY Zenon, <1>2, <2>2, <2>4 DEF Turned, Passed
    <3>2. CallOf(k) = "busy"
      BY Zenon, <2>4, CallIs
    <3>3. CASE k'.phase = "Failed"
      <4>1. CallOf(k') = "failed" /\ PageOf(k') = None
        BY Zenon, <3>3, CallIs
      <4> QED
        BY Zenon, <2>1, <3>2, <4>1, FailsClient
    <3>4. CASE in_progress(k')
      BY Zenon, <1>0, <2>1, <2>4, <3>4, StaysSame, LeavesClient
    <3>5. CASE Arrived(k', q, g.crossed)
      <4>1. CallOf(k') = "done" /\ PageOf(k') = Page(k')
        BY Zenon, <3>5, CallIs DEF Arrived
      <4>2. Page(k') \in IF g'.crossed THEN AnyPage ELSE RealPages(g.want)
        BY Zenon, <1>0, <1>2, <2>4, <3>5, LandsOnChain DEF Arrived, Turned, SameCall
      <4> QED
        BY Zenon, <2>1, <3>2, <4>1, <4>2, DoesClient
    <3>6. CASE Hopping(k', q)
      <4>1. in_progress(k') \/ k'.phase = "Failed"
        BY Zenon, <3>6 DEF Hopping, Begun, in_progress
      <4> QED
        BY Zenon, <3>3, <3>4, <4>1
    <3> QED
      BY Zenon, <3>1, <3>3, <3>4, <3>5, <3>6 DEF Ticked, Failing
  <2> QED
    BY Zenon, <2>3, <2>4
<1>3. ASSUME Untouched PROVE [Client!ClientNext]_(Client!clientVars)
  <2>1. g'.want = g.want /\ g'.crossed \in {TRUE, g.crossed}
    BY Zenon, <1>0, <1>3, SameCallIs DEF Untouched
  <2>2. k'.phase = k.phase /\ (k.phase = "Done" => SamePage(k', k) /\ k'.host = k.host /\ k'.path = k.path)
    BY Zenon, <1>3 DEF Untouched, SameRequest
  <2> QED
    BY Zenon, <1>0, <2>1, <2>2, StaysSame, LeavesClient
<1> QED
  BY Zenon, <1>0, <1>1, <1>2, <1>3, StepIs

LEMMA InitOfClient ==
  ASSUME Init
  PROVE  Chained /\ Client!ClientInit
<1>1. Inv
  BY Zenon, InitHolds
<1>2. k.phase = "Idle"
  BY SMT DEF Init
<1>3. ~ in_progress(k)
  BY <1>2 DEF in_progress
<1>4. g.want = SelftestUrl /\ g.crossed = FALSE
  BY SMT DEF Init
<1>5. CallOf(k) = "none" /\ PageOf(k) = None
  <2>1. k.phase # "Done"
    BY <1>2
  <2> QED
    BY Zenon, <1>2, <2>1, CallIs DEF PageOf
<1>6. Client!ClientInit
  BY Zenon, <1>4, <1>5, WorldAssumption DEF Client!ClientInit, CallOf, PageOf
<1> QED
  BY Zenon, <1>1, <1>3, <1>6 DEF Chained, OnChain

\* The machine's one fetch, shared resolver, connection and session included, is
\* the client HttpClient describes: unless another program's lookup has met it, a
\* fetch ends with a page of the chain of redirects of the address it was started
\* with, or fails, and a page once brought stays until the next start (http.rs).
THEOREM FetchIsAClient == Spec => ImplementsClient
<1>1. Init => Chained /\ Client!ClientInit
  BY InitOfClient
<1>2. Chained /\ [Next]_vars => Chained' /\ [Client!ClientNext]_(Client!clientVars)
  BY ChainKept, StepOfClient
<1> QED
  BY <1>1, <1>2, PTL DEF Spec, ImplementsClient, Client!ClientSpec
============================================================================
