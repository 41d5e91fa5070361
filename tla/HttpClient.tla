----------------------------- MODULE HttpClient -----------------------------
(***************************************************************************)
(* What the HTTP client (net/http.rs) promises to the programs above it:   *)
(* one fetch at a time, which ends with a page its address leads to or     *)
(* with a failure, and which a new start replaces.  Fetch implements this  *)
(* module; Browser is written against it.                                  *)
(*                                                                         *)
(* The client shares the resolver with every other program.  Once another  *)
(* of them has asked for a name while a fetch was looking for its own, the *)
(* fetch is crossed, and nothing is promised about its page.               *)
(***************************************************************************)

CONSTANTS
    Urls,        \* addresses a program may ask for
    Pages,       \* what servers may answer
    LeadsTo(_),  \* the pages an address leads to, redirects followed
    NoPage

VARIABLES
    call,        \* "none", "busy", "done" or "failed"
    url,         \* the address of the last start
    page,        \* what the last fetch brought, when it is done
    crossed      \* another program's lookup has met this fetch

clientVars == <<call, url, page, crossed>>

ClientInit ==
    /\ call = "none"
    /\ url \in Urls
    /\ page = NoPage
    /\ crossed = FALSE

\* http::start: any earlier fetch is dropped.  False when it fails at once.
StartFetch(u) ==
    /\ call' \in {"busy", "failed"}
    /\ url' = u
    /\ page' = NoPage
    /\ crossed' \in BOOLEAN

FetchDone ==
    /\ call = "busy"
    /\ call' = "done"
    /\ page' \in IF crossed' THEN Pages ELSE LeadsTo(url)
    /\ url' = url
    /\ crossed' \in {TRUE, crossed}

FetchFails ==
    /\ call = "busy"
    /\ call' = "failed"
    /\ page' = NoPage
    /\ url' = url
    /\ crossed' \in {TRUE, crossed}

Cross ==
    /\ crossed' = TRUE
    /\ UNCHANGED <<call, url, page>>

ClientNext ==
    \/ \E u \in Urls : StartFetch(u)
    \/ FetchDone
    \/ FetchFails
    \/ Cross

ClientSpec == ClientInit /\ [][ClientNext]_clientVars
=============================================================================
