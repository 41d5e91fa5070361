------------------------------ MODULE Browser ------------------------------
(***************************************************************************)
(* The browser above the HTTP client (apps/browser.rs): the address bar,   *)
(* the history behind the back and forward buttons, and the four steps of  *)
(* a page load: the document, its stylesheets and scripts, the scripts'    *)
(* run, the pictures.  The fetches are HttpClient's.                       *)
(*                                                                         *)
(* The browser only looks at the client when the input loop calls its      *)
(* tick, and only acts when the client's phase or the length of the body   *)
(* is not what it was at the last tick.  A command of the terminal that    *)
(* waits for the network polls it without giving the browser a tick, and   *)
(* its http command uses the same client.                                  *)
(***************************************************************************)
EXTENDS HttpClient, TLC, Naturals, Sequences, FiniteSets, SequencesExt

CONSTANTS
    None,
    Blank,      \* the empty address
    Garbled,    \* bytes of one address cut to the length of another
    LenOf,      \* address -> its length in bytes
    BodyLen,    \* page -> the length of its body
    Doc,        \* page -> [css, js, imgs: sequences of references, nav, links]
    HomeUrl,
    HIST_MAX, MAX_CSS, MAX_JS, IMG_MAX,
    VisitBound, \* addresses the reader asks for
    TypeBound,  \* times the address bar is edited
    AwayBound   \* terminal commands that wait for the network

VARIABLES
    b,        \* the browser
    away,     \* "no", "poll" or "fetch": the terminal command that waits
    trail,    \* history: the places a reader would expect, and where they are
    r         \* bounds and history

browserVars == <<b, away, trail, r>>
vars == <<call, url, page, crossed, b, away, trail, r>>

QUEUE_MAX == MAX_CSS + MAX_JS + IMG_MAX

-----------------------------------------------------------------------------
(* Where the reader has been.                                              *)

\* Row i holds the bytes of an address, lens[i] how many of them count.
hist_str(bb, i) ==
    IF i >= bb.histN \/ bb.lens[i] = 0 THEN Blank
    ELSE IF bb.lens[i] = LenOf[bb.rows[i]] THEN bb.rows[i] ELSE Garbled

hist_store(bb, i, u) == [bb EXCEPT !.rows[i] = u, !.lens[i] = LenOf[u]]

\* Mutant: what lies ahead of the reader stays reachable.
hist_push_keeps_ahead(bb, u) ==
    IF bb.histN > 0 /\ hist_str(bb, bb.histAt) = u THEN bb
    ELSE LET n == IF bb.histN >= HIST_MAX THEN HIST_MAX - 1 ELSE IF bb.histN = 0 THEN 1 ELSE bb.histN
         IN  [hist_store(bb, n, u) EXCEPT !.histN = n + 1, !.histAt = n]

\* The first address goes to row 1: HIST_N is taken from HIST_AT even when
\* there is nothing at HIST_AT.  When the rows are full the lengths move down
\* by one and the bytes stay where they are.
hist_push(bb, u) ==
    IF bb.histN > 0 /\ hist_str(bb, bb.histAt) = u THEN bb
    ELSE LET full == bb.histAt + 1 >= HIST_MAX
             n == IF full THEN bb.histAt ELSE bb.histAt + 1
             b1 == IF full
                   THEN [bb EXCEPT !.lens = [i \in DOMAIN @ |-> IF i + 1 \in DOMAIN @ THEN @[i + 1] ELSE @[i]]]
                   ELSE bb
         IN  [hist_store(b1, n, u) EXCEPT !.histN = n + 1, !.histAt = n]

hist_replace(bb, u) ==
    IF bb.histN = 0 THEN hist_push(bb, u) ELSE hist_store(bb, bb.histAt, u)

-----------------------------------------------------------------------------
(* Addresses.  A reference is an address, or a path of the page's own host.*)

\* The host a reference without one is resolved against: the address bar's.
base_url(bb) == bb.bar.host

resolve_url(base, ref) == IF ref.host = None THEN [ref EXCEPT !.host = base] ELSE ref

set_url(bb, u) == [bb EXCEPT !.bar = u]

-----------------------------------------------------------------------------
(* The load.                                                               *)

NoQueue == [items |-> <<>>, at |-> 0]

\* Whatever the last page left is dropped, then the document is asked for.
start_load(bb, u) ==
    [bb EXCEPT !.stage = "Document", !.obj = None, !.nav = None, !.shown = None,
               !.sheets = <<>>, !.scripts = <<>>, !.imgs = <<>>, !.q = NoQueue,
               !.go = u, !.asked = u]

navigate(bb, u, push) ==
    IF u = Blank THEN bb
    ELSE start_load(IF push THEN hist_push(bb, u) ELSE hist_replace(bb, u), u)

move_to(bb, i) ==
    LET u == hist_str(bb, i)
    IN  IF i >= bb.histN THEN bb
        ELSE start_load(set_url([bb EXCEPT !.histAt = i], u), u)

back(bb) == IF bb.histAt > 0 THEN move_to(bb, bb.histAt - 1) ELSE bb

forward(bb) == IF bb.histAt + 1 < bb.histN THEN move_to(bb, bb.histAt + 1) ELSE bb

Queued(bb, u) == \E i \in DOMAIN bb.q.items : bb.q.items[i].url = u

\* Only a reference that is new to the queue takes a place in it.
enqueue(bb, ref, kind, slot) ==
    LET u == resolve_url(base_url(bb), ref)
    IN  IF Queued(bb, u) \/ Len(bb.q.items) >= QUEUE_MAX THEN bb
        ELSE [bb EXCEPT !.q.items = Append(@, [url |-> u, kind |-> kind, slot |-> slot])]

\* Mutant: a reference takes its slot whether or not it was queued.
enqueue_all_numbered(bb, refs, kind, max) ==
    LET after[i \in 0..Len(refs)] ==
          IF i = 0 THEN bb
          ELSE IF i > max THEN after[i - 1] ELSE enqueue(after[i - 1], refs[i], kind, i)
    IN  after[Len(refs)]

\* The slots of a kind are numbered as its references are queued.
enqueue_all(bb, refs, kind, max) ==
    LET Count(x) == Cardinality({i \in DOMAIN x.q.items : x.q.items[i].kind = kind})
        after[i \in 0..Len(refs)] ==
          IF i = 0 THEN bb
          ELSE IF Count(after[i - 1]) >= max THEN after[i - 1]
          ELSE enqueue(after[i - 1], refs[i], kind, Count(after[i - 1]) + 1)
    IN  after[Len(refs)]

\* http::start's result is not looked at.
start_next(bb) == [bb EXCEPT !.q.at = @ + 1, !.go = bb.q.items[bb.q.at + 1].url]

more(bb) == bb.q.at < Len(bb.q.items)

\* Mutant: a page that sends its reader to itself is loaded again.
layout_now_again(bb) ==
    LET b1 == [bb EXCEPT !.stage = "Idle", !.obj = None, !.nav = None, !.q = NoQueue]
        to == resolve_url(base_url(bb), bb.nav)
    IN  IF bb.nav = None THEN b1 ELSE navigate(set_url(b1, to), to, FALSE)

\* A page that sends its reader on replaces its place in the history.
layout_now(bb) ==
    LET b1 == [bb EXCEPT !.stage = "Idle", !.obj = None, !.nav = None, !.q = NoQueue,
                         !.shown = [page |-> bb.obj, css |-> bb.sheets, js |-> bb.scripts,
                                    imgs |-> bb.imgs],
                         !.sheets = <<>>, !.scripts = <<>>]
        to == resolve_url(base_url(bb), bb.nav)
    IN  IF bb.obj = None THEN [bb EXCEPT !.stage = "Idle"]
        ELSE IF bb.nav = None \/ to = bb.bar THEN b1
        ELSE navigate(set_url(b1, to), to, FALSE)

\* The scripts run; then the pictures the document ends up with are queued.
after_resources(bb) ==
    IF bb.obj = None THEN [bb EXCEPT !.stage = "Idle"]
    ELSE LET b1 == [bb EXCEPT !.nav = Doc[bb.obj].nav, !.q = NoQueue, !.stage = "Pictures"]
             b2 == enqueue_all(b1, Doc[bb.obj].imgs, "image", IMG_MAX)
         IN  IF more(b2) THEN start_next(b2) ELSE layout_now(b2)

capture(bb) ==
    LET b1 == [bb EXCEPT !.obj = page, !.q = NoQueue, !.stage = "Resources",
                         !.base = base_url(bb)]
        b2 == enqueue_all(b1, Doc[page].css, "css", MAX_CSS)
        b3 == enqueue_all(b2, Doc[page].js, "script", MAX_JS)
    IN  IF more(b3) THEN start_next(b3) ELSE after_resources(b3)

Stored(f, i, v) == [n \in (DOMAIN f) \cup {i} |-> IF n = i THEN v ELSE f[n]]

\* A body goes where its place in the queue says; an empty one nowhere.
sub_arrived(bb) ==
    LET it == bb.q.items[bb.q.at]
        b1 == CASE BodyLen[page] = 0 -> bb
                [] it.kind = "css" /\ BodyLen[page] > 0 -> [bb EXCEPT !.sheets = Stored(@, it.slot, page)]
                [] OTHER -> [bb EXCEPT !.scripts = Stored(@, it.slot, page)]
    IN  IF more(b1) THEN start_next(b1) ELSE after_resources(b1)

keep_image(bb) ==
    IF Len(bb.imgs) >= IMG_MAX THEN bb
    ELSE [bb EXCEPT !.imgs = Append(@, [src |-> bb.q.items[bb.q.at].url, page |-> page])]

picture_arrived(bb) ==
    LET b1 == keep_image(bb)
    IN  IF more(b1) THEN start_next(b1) ELSE layout_now(b1)

advance(bb) ==
    CASE bb.stage = "Idle" -> bb
      [] bb.stage = "Document" -> capture(bb)
      [] bb.stage = "Resources" -> sub_arrived(bb)
      [] bb.stage = "Pictures" -> picture_arrived(bb)

body_len == IF page = NoPage THEN 0 ELSE BodyLen[page]

changed(bb) == bb.lastPhase # call \/ bb.lastBody # body_len

-----------------------------------------------------------------------------
(* The reader, the input loop, and the terminal.                           *)

\* Other programs' lookups are Fetch's subject; here no fetch is crossed.
\* An address without a host fails at once.
Starts(u) == StartFetch(u) /\ ~crossed' /\ (call' = "failed" <=> u.host = None)

Quiet == UNCHANGED <<call, url, page, crossed>>

\* The browser becomes bn and has the fetch started that bn asks for.  A
\* document that cannot even be asked for ends the load.
Becomes(bn) ==
    /\ IF bn.go = None THEN Quiet ELSE Starts(bn.go)
    /\ b' = [bn EXCEPT !.go = None,
                       !.stage = IF bn.go # None /\ @ = "Document" /\ call' = "failed"
                                 THEN "Idle" ELSE @]

\* A new load forgets what happened to the last one.
Fresh == [robbed |-> FALSE, slept |-> FALSE]

Init ==
    /\ ClientInit /\ url = HomeUrl
    /\ b = [stage |-> "Idle", obj |-> None, nav |-> None, q |-> NoQueue, sheets |-> <<>>,
            scripts |-> <<>>, imgs |-> <<>>, shown |-> None, bar |-> HomeUrl, go |-> None, base |-> None,
            asked |-> None, lastPhase |-> "unknown", lastBody |-> 0,
            rows |-> [i \in 0..HIST_MAX - 1 |-> Blank], lens |-> [i \in 0..HIST_MAX - 1 |-> 0],
            histN |-> 0, histAt |-> 0]
    /\ away = "no"
    /\ trail = [places |-> <<>>, at |-> 0]
    /\ r = [visits |-> VisitBound, types |-> TypeBound, aways |-> AwayBound,
            full |-> FALSE] @@ Fresh

Visited == [r EXCEPT !.visits = @ - 1, !.robbed = FALSE, !.slept = FALSE]

\* Where a reader who goes to u expects the buttons to lead.
Further(u) ==
    IF trail.at > 0 /\ trail.places[trail.at] = u THEN trail
    ELSE [places |-> Append(SubSeq(trail.places, 1, trail.at), u), at |-> trail.at + 1]

\* Keys in the address bar.
Type(u) ==
    /\ away = "no" /\ u # b.bar /\ r.types > 0
    /\ b' = set_url(b, u)
    /\ r' = [r EXCEPT !.types = @ - 1]
    /\ Quiet
    /\ UNCHANGED <<away, trail>>

\* The reader goes to u.
GoTo(bb, u) ==
    /\ away = "no" /\ r.visits > 0 /\ u # Blank
    /\ Becomes(navigate(bb, u, TRUE))
    /\ trail' = Further(u)
    /\ r' = [Visited EXCEPT !.full = @ \/ (trail'.at > trail.at /\ b.histAt + 1 >= HIST_MAX)]
    /\ UNCHANGED away

Enter == GoTo(b, b.bar)

\* The terminal's and the shell's way in.
open_with(u) == GoTo(set_url(b, u), u)

\* A link of the page: the bar stays as it is.
on_click(ref) ==
    /\ b.shown # None /\ ref \in Doc[b.shown.page].links
    /\ GoTo(b, resolve_url(base_url(b), ref))

Back ==
    /\ away = "no" /\ r.visits > 0 /\ b.histAt > 0
    /\ Becomes(back(b))
    /\ trail' = [trail EXCEPT !.at = @ - 1]
    /\ r' = Visited
    /\ UNCHANGED away

Forward ==
    /\ away = "no" /\ r.visits > 0 /\ b.histAt + 1 < b.histN
    /\ Becomes(forward(b))
    /\ trail' = [trail EXCEPT !.at = @ + 1]
    /\ r' = Visited
    /\ UNCHANGED away

\* One call of the browser's tick from the input loop.
tick ==
    /\ away = "no"
    /\ changed(b)
    /\ LET b1 == [b EXCEPT !.lastPhase = call, !.lastBody = body_len]
           bn == IF call = "done" THEN advance(b1) ELSE b1
       IN  /\ Becomes(bn)
           /\ IF bn.stage = "Document" /\ bn.go # None
              THEN /\ trail' = [trail EXCEPT !.places[trail.at] = bn.go]
                   /\ r' = [r EXCEPT !.robbed = FALSE, !.slept = FALSE]
              ELSE UNCHANGED <<trail, r>>
    /\ UNCHANGED away

\* A fetch takes several polls, so at the desktop a tick comes in between.
Lands ==
    /\ away = "no" => ~changed(b)
    /\ crossed' = FALSE
    /\ FetchDone
    /\ UNCHANGED browserVars

Breaks ==
    /\ crossed' = FALSE
    /\ FetchFails
    /\ UNCHANGED browserVars

\* ping, dns: the network is polled, the browser is not.
AwayPolling ==
    /\ away = "no" /\ r.aways > 0
    /\ away' = "poll"
    /\ r' = [r EXCEPT !.aways = @ - 1, !.slept = @ \/ b.stage # "Idle"]
    /\ Quiet
    /\ UNCHANGED <<b, trail>>

\* http: the client itself is taken.
AwayFetching(u) ==
    /\ away = "no" /\ r.aways > 0
    /\ away' = "fetch"
    /\ Starts(u)
    /\ r' = [r EXCEPT !.aways = @ - 1, !.slept = @ \/ b.stage # "Idle",
                      !.robbed = @ \/ b.stage # "Idle"]
    /\ UNCHANGED <<b, trail>>

AwayEnds ==
    /\ away = "poll" \/ (away = "fetch" /\ call # "busy")
    /\ away' = "no"
    /\ Quiet
    /\ UNCHANGED <<b, trail, r>>

Next ==
    \/ \E u \in Urls : Type(u)
    \/ Enter
    \/ \E u \in Urls : open_with(u)
    \/ \E p \in Pages : \E ref \in Doc[p].links : on_click(ref)
    \/ Back
    \/ Forward
    \/ tick
    \/ Lands
    \/ Breaks
    \/ AwayPolling
    \/ \E u \in Urls : AwayFetching(u)
    \/ AwayEnds

Spec == Init /\ [][Next]_vars

\* The input loop calls tick on every pass, and a tick that finds something
\* changed is never lost (weak fairness of tick, with its guard for ENABLED);
\* a fetch lands or breaks; a command of the terminal gives up.
TickFair == []<>~(away = "no" /\ changed(b)) \/ []<><<tick>>_vars
FetchFair == []<>~(call = "busy" /\ (away = "no" => ~changed(b))) \/ []<><<Lands \/ Breaks>>_vars
CommandFair == []<>(away = "no") \/ []<><<AwayEnds>>_vars

FairSpec == Spec /\ TickFair /\ FetchFair /\ CommandFair

-----------------------------------------------------------------------------
(* Properties.                                                             *)

\* The queue and the arenas stay within their tables.
TypeOK ==
    /\ b.stage \in {"Idle", "Document", "Resources", "Pictures"}
    /\ Len(b.q.items) <= QUEUE_MAX /\ b.q.at <= Len(b.q.items)
    /\ Len(b.imgs) <= IMG_MAX
    /\ b.histN \in 0..HIST_MAX
    /\ b.histN > 0 => b.histAt < b.histN

\* What is parsed as the document is what the document's address leads to,
\* unless the terminal's http command took the client during the load.
DocumentIsAsked == b.obj # None /\ ~r.robbed => b.obj \in LeadsTo(b.asked)

\* A document's references, each counted where it first appears.
Firsts(bb, refs) ==
    LET us == [i \in DOMAIN refs |-> resolve_url(bb.base, refs[i])]
        new == {i \in DOMAIN us : \A j \in 1..i - 1 : us[j] # us[i]}
    IN  [n \in 1..Cardinality(new) |->
            us[CHOOSE i \in new : Cardinality({j \in new : j <= i}) = n]]

\* Each stylesheet is kept where the page names it, whatever the order and
\* the repetitions of the references, and whatever was fetched before it
\* (enqueue's slots against sub_arrived's).
SheetsInPlace ==
    b.stage = "Resources" /\ ~r.robbed =>
        \A n \in DOMAIN b.sheets :
            LET named == Firsts(b, Doc[b.obj].css)
            IN  n \in DOMAIN named /\ b.sheets[n] \in LeadsTo(named[n])

\* A picture that is shown was fetched for this page.
PicturesOfThisPage ==
    b.shown # None => \A i \in DOMAIN b.shown.imgs :
        \E n \in DOMAIN Doc[b.shown.page].imgs :
            b.shown.imgs[i].src.path = Doc[b.shown.page].imgs[n].path

\* What is shown is what was asked for: the document, its stylesheets in their
\* order and its pictures, whatever was loaded before.
PageIsAsked == TypeOK /\ DocumentIsAsked /\ SheetsInPlace /\ PicturesOfThisPage

\* Back and forward lead where the reader has been, until the rows are full.
\* Row 0 is never written: going back from the first page leads to it.
HistoryTrue ==
    ~r.full =>
      /\ b.histAt = trail.at
      /\ \A i \in 1..b.histN - 1 : hist_str(b, i) = trail.places[i]

\* A load ends, unless one of its fetches fails or a command kept the
\* browser from its ticks.
LoadEnds == []<>(b.stage = "Idle" \/ call = "failed" \/ r.slept)
=============================================================================
