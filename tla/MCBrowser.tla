----------------------------- MODULE MCBrowser -----------------------------
(***************************************************************************)
(* The browser above the abstract client, the TLS client below the         *)
(* detailed one, and the document a loaded page becomes.  They share no    *)
(* state in these modules, so a behaviour follows one of them and the      *)
(* others stay as they began.                                              *)
(***************************************************************************)
EXTENDS Browser, X509

CONSTANTS
    HostKey, CaKey, RootKey, SelfKey,
    ServerKinds, ROOTS, HostName, RX_CAP, CHAIN_CAP, MAX_CERTS,
    ConnBound, DataBound, SendBound, SeqBound, FaultBound,
    Tokens, MaxTokens, Scripted, Fragments, Held, MaxCalls

VARIABLES
    who,                                      \* which of them moves
    k, up, down, sv, asked, faults, sealed,   \* Tls
    p, toks, js                               \* Dom

tlsVars == <<k, up, down, sv, asked, faults, sealed>>
domVars == <<p, toks, js>>

T == INSTANCE Tls
W == INSTANCE Dom

(***************************************************************************)
(* Two sites.  The first page names three stylesheets, one of them twice   *)
(* and one that is not there, one script more than is kept, and two        *)
(* pictures of the same length.  It links to the second site, whose page   *)
(* sends its reader on to one that names itself.                           *)
(***************************************************************************)
U(h, path) == [host |-> h, path |-> path]
Rel(path) == U(None, path)

Index == U("h1", "index")
Moved == U("h2", "moved")
Final == U("h2", "last")
Final1 == U("h1", "last")

MCBlank == U(None, "blank")
MCGarbled == U(None, "garbled")
MCUrls == {Index, Moved, MCBlank}
Subs == {U(h, path) : h \in {"h1", "h2"}, path \in {"css", "css2", "css3", "js", "js2", "img", "img2"}}
MCPages == {Index, Moved, Final, Final1, MCGarbled} \cup Subs

MCLeadsTo(u) == IF u = MCBlank THEN {} ELSE {u}

MCLenOf == [u \in MCPages \cup {MCBlank, Rel("last")} |->
              IF u = MCBlank THEN 0 ELSE IF u = Index THEN 2 ELSE 3]

\* One stylesheet is not there: its body is empty.
MCBodyLen == [u \in MCPages |-> IF u.path = "css2" THEN 0
                                ELSE IF u \in {Index, Moved} THEN 2 ELSE 1]

Nothing == [css |-> <<>>, js |-> <<>>, imgs |-> <<>>, nav |-> None, links |-> {}]

MCDoc ==
    [u \in MCPages |->
        CASE u = Index -> [css |-> <<Rel("css2"), Rel("css"), Rel("css"), Rel("css3")>>,
                           js |-> <<Rel("js"), Rel("js2")>>,
                           imgs |-> <<Rel("img"), Rel("img2")>>, nav |-> None, links |-> {Moved, Final}]
          [] u = Moved -> [Nothing EXCEPT !.nav = Rel("last")]
          [] u \in {Final, Final1} -> [Nothing EXCEPT !.imgs = <<Rel("img")>>, !.nav = Rel("last")]
          [] OTHER -> Nothing]

(***************************************************************************)
(* A trust store of one root, a certificate authority under it, and        *)
(* servers that differ in the version they speak, the chain they send and  *)
(* the way they pack their messages.                                       *)
(***************************************************************************)
MCHost == <<"www", "example">>

Leaf == Cert("host", "ca", HostKey, CaKey, FALSE, {HostName})
Wild == Cert("wild", "root", HostKey, RootKey, FALSE, {<<"*">> \o Tail(HostName)})
Ca == Cert("ca", "root", CaKey, RootKey, TRUE, {})
Root == Cert("root", "root", RootKey, RootKey, TRUE, {})
\* A certificate for the name above the host's own.
OtherLeaf == Cert("other", "ca", HostKey, CaKey, FALSE, {Tail(HostName)})
SelfSigned == Cert("host", "host", SelfKey, SelfKey, FALSE, {HostName})
\* A certificate that an ordinary one issued.
UnderLeaf == Cert("host", "wild", SelfKey, HostKey, FALSE, {HostName})

MCRoots == {[subject |-> "root", key |-> RootKey]}

Server(ver, chain, genuine, pack, extra, share) ==
    [ver |-> ver, chain |-> chain, key |-> Head(chain).key, genuine |-> genuine,
     pack |-> pack, extra |-> extra, share |-> share]

MCKinds ==
    { Server(13, <<Leaf, Ca>>, TRUE, "together", TRUE, TRUE),
      Server(13, <<Wild, Root>>, TRUE, "apart", FALSE, TRUE),
      Server(13, <<Leaf, Ca>>, TRUE, "together", FALSE, FALSE),
      Server(13, <<Leaf, Ca, Root>>, TRUE, "apart", FALSE, TRUE),
      Server(13, <<Wild>>, TRUE, "spread", FALSE, TRUE),
      Server(13, <<UnderLeaf, Wild>>, FALSE, "together", FALSE, TRUE),
      Server(13, <<SelfSigned>>, FALSE, "apart", FALSE, TRUE),
      Server(12, <<Leaf, Ca>>, TRUE, "together", TRUE, TRUE),
      Server(12, <<Wild>>, TRUE, "apart", FALSE, TRUE),
      Server(12, <<OtherLeaf, Ca>>, FALSE, "together", FALSE, TRUE) }

(***************************************************************************)
(* Markup with end tags left out, too many or in the wrong order, with an  *)
(* attribute written twice and with head content where it does not belong. *)
(* The scripted page is a paragraph with an element and a text in it.      *)
(***************************************************************************)
Start(name) == [t |-> "start", name |-> name, closed |-> FALSE, text |-> <<>>, attrs |-> <<>>]
End(name) == [t |-> "end", name |-> name]
Plain(word) == [t |-> "text", text |-> <<word>>]
Twice == [Start("b") EXCEPT !.attrs = << <<"id", <<"m">>>>, <<"id", <<"n">>>> >>]
Titled == [Start("title") EXCEPT !.text = <<"&amp;">>]

MCTokens == {Start("li"), Twice, Start("p"), Start("div"), Titled, [Start("br") EXCEPT !.closed = TRUE],
             End("b"), End("p"), End("body"), End("head"), Plain("x"), Plain(" ")}
MCScripted == {<<Start("p"), Twice, Plain("x"), End("b")>>}
MCFragments == {<<Plain("x"), Start("li")>>, <<Plain(" ")>>}
MCHeld == 4 .. 8

MCInit == Init /\ T!Init /\ W!DomInit /\ who \in {"browser", "tls", "dom"}

MCNext ==
    /\ UNCHANGED who
    /\ \/ who = "browser" /\ Next /\ UNCHANGED <<tlsVars, domVars>>
       \/ who = "tls" /\ T!Next /\ UNCHANGED <<vars, domVars>>
       \/ who = "dom" /\ W!DomNext /\ UNCHANGED <<vars, tlsVars>>

MCSpec ==
    MCInit /\ [][MCNext]_<<vars, tlsVars, domVars, who>> /\ TickFair /\ FetchFair /\ CommandFair

\* Tls!SealedInStep: every record the client sends is one a conforming server
\* can open and was waiting for, and no nonce is used twice.
SealedInStep == T!SealedInStep

\* Tls!SessionAgreed: a session is established with every server of the right
\* kind and, over TLS 1.3, no other, and both ends hold the same keys.
SessionAgreed == T!SessionAgreed

\* Tls!StreamWhole: what is read is what the server sent, in order, and all of
\* it at an orderly end.
StreamWhole == T!StreamWhole

\* Dom!MarkupKept: markup survives the way into the tree and out of it.
MarkupKept == who = "dom" => W!MarkupKept

\* Dom!TreeKept: scripts change what they name and nothing else, and parents
\* and children agree at every moment.
TreeKept == []W!ListsAgree /\ [][W!CallStep]_domVars

\* Dom!Acyclic: no node of the document is below itself.
Acyclic == W!Acyclic
=============================================================================
