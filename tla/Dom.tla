-------------------------------- MODULE Dom ---------------------------------
(***************************************************************************)
(* The document tree (apps/web/dom.rs): how markup becomes a tree, and how *)
(* scripts change it afterwards (apps/web/js/domjs.rs).  A document is a   *)
(* sequence of nodes that only grows; parents and children are indices     *)
(* into it.  NoNode is 0, the document itself 1, and html, head and body   *)
(* are always there.                                                       *)
(*                                                                         *)
(* Markup is a sequence of tokens: what the tokenizer of parse delimits.   *)
(* Text is a sequence of words, Space being the one that is only white     *)
(* space and Amp the one that is a character reference; so is the value of *)
(* an attribute.                                                           *)
(***************************************************************************)
EXTENDS Integers, FiniteSets, SequencesExt

CONSTANTS
    Tokens,        \* what a page may be written with
    MaxTokens,     \* bound: tokens of a page
    Scripted,      \* the pages whose scripts run, as sequences of tokens
    Fragments,     \* the markup the scripts insert, likewise
    Held,          \* the nodes they hold
    MaxCalls       \* bound: changes they make

VARIABLES
    p,             \* the parser: the document so far and the open elements
    toks,          \* history: the tokens read
    js             \* the scripts: whether they run, and their last call

dom_vars == <<p, toks, js>>

NoNode == 0
ROOT == 1
HTML == 2
HEAD == 3
BODY == 4

Space == " "
Amp == "&amp;"

VOID == {"area", "base", "br", "col", "embed", "hr", "img", "input", "link",
         "meta", "param", "source", "track", "wbr"}
RAW_TEXT == {"script", "style", "textarea", "title"}
Headings == {"h1", "h2", "h3", "h4", "h5", "h6"}

\* Which elements a start tag closes when they are innermost.
closes_what(name) ==
    CASE name \in {"p"} \cup Headings -> {"p"}
      [] name = "li" -> {"li"}
      [] name \in {"dt", "dd"} -> {"dt", "dd"}
      [] name \in {"td", "th"} -> {"td", "th"}
      [] name = "tr" -> {"td", "th", "tr"}
      [] name = "option" -> {"option"}
      [] name = "optgroup" -> {"option", "optgroup"}
      [] name \in {"tbody", "tfoot"} -> {"td", "th", "tr", "thead", "tbody"}
      [] OTHER -> {}

is_head_content(name) ==
    name \in {"title", "meta", "link", "style", "base", "script", "noscript", "template"}

implied_end_for(name, open) ==
    /\ open = "p"
    /\ name \in Headings \cup {"div", "table", "ul", "ol", "blockquote", "pre", "form", "hr",
                               "section", "article", "aside", "nav", "header", "footer",
                               "address", "figure"}

(***************************************************************************)
(* Nodes                                                                   *)
(***************************************************************************)
NoAttrs == [a \in {} |-> ""]
Node(kind, name, attrs, text) ==
    [kind |-> kind, name |-> name, attrs |-> attrs, text |-> text, parent |-> NoNode, kids |-> <<>>]
Element(name, attrs) == Node("element", name, attrs, <<>>)
Text(words) == Node("text", "", NoAttrs, words)
Comment == Node("comment", "", NoAttrs, <<>>)

\* The new node is the last of the result.
push_under(d, parent, node) ==
    Append([d EXCEPT ![parent].kids = Append(@, Len(d) + 1)], [node EXCEPT !.parent = parent])

by_tag(d, name) == SelectSeq([i \in DOMAIN d |-> i], LAMBDA i : d[i].kind = "element" /\ d[i].name = name)

(***************************************************************************)
(* The parser                                                              *)
(***************************************************************************)
new ==
    LET d1 == <<Node("document", "", NoAttrs, <<>>)>>
        d2 == push_under(d1, ROOT, Element("html", NoAttrs))
        d3 == push_under(d2, HTML, Element("head", NoAttrs))
    IN [d |-> push_under(d3, HTML, Element("body", NoAttrs)), stack |-> <<HTML, HEAD>>]

Cut(q, n) == [q EXCEPT !.stack = SubSeq(@, 1, n)]
Opened(q, id) == [q EXCEPT !.stack = Append(@, id)]
NameAt(q, i) == q.d[q.stack[i]].name

in_head(q) == Last(q.stack) = HEAD

leave_head(q) ==
    LET at == SelectInSeq(q.stack, LAMBDA id : id = HEAD)
    IN IF at = 0 THEN q ELSE Cut(q, at - 1)

open_body(q) == IF Contains(q.stack, BODY) THEN q ELSE Opened(q, BODY)

enter_body(q) == open_body(leave_head(q))

\* Mutant: the outermost element of that name.
close_element_outermost(q, name) ==
    LET at == SelectInSeq(q.stack, LAMBDA id : q.d[id].name = name)
    IN IF name = "head" THEN enter_body(q)
       ELSE IF name \in {"body", "html"} THEN Cut(q, 1)
       ELSE IF at = 0 THEN q ELSE Cut(q, at - 1)

\* The nearest open element of that name and all in it; an end tag of
\* something that is not open is ignored.
close_element(q, name) ==
    LET at == SelectLastInSeq(q.stack, LAMBDA id : q.d[id].name = name)
    IN IF name = "head" THEN enter_body(q)
       ELSE IF name \in {"body", "html"} THEN Cut(q, 1)
       ELSE IF at = 0 THEN q ELSE Cut(q, at - 1)

\* Pops as long as the innermost element is one of the names.
close_tags(q, names) ==
    Cut(q, Max({0} \cup {i \in DOMAIN q.stack : NameAt(q, i) \notin names}))

OnlySpace(words) == \A i \in DOMAIN words : words[i] = Space

\* Adjacent text is one node.
put_text(q, words) ==
    LET kids == q.d[Last(q.stack)].kids
    IN IF kids # <<>> /\ q.d[Last(kids)].kind = "text"
       THEN [q EXCEPT !.d[Last(kids)].text = @ \o words]
       ELSE [q EXCEPT !.d = push_under(@, Last(q.stack), Text(words))]

\* Text that is not blank ends the head.
text(q, words) ==
    IF words = <<>> THEN q
    ELSE put_text(IF in_head(q) /\ ~ OnlySpace(words) THEN enter_body(q) ELSE q, words)

innermost(q) == NameAt(q, Len(q.stack))

pop_if(q, when) == IF when THEN Cut(q, Len(q.stack) - 1) ELSE q

\* The end tag of a raw element, if that is the innermost one.
end_raw(q, name) == pop_if(q, innermost(q) = name)

\* An element of this name ends the innermost one.
end_implied(q, name) == pop_if(q, implied_end_for(name, innermost(q)))

push_open(q, name, attrs) ==
    Opened([q EXCEPT !.d = push_under(@, Last(q.stack), Element(name, attrs))], Len(q.d) + 1)

\* html, head and body are markers, for they exist; anything else goes under
\* the innermost element that is left open.
insert(q, name, attrs, self_closing) ==
    CASE name = "html" -> Cut(q, 1)
      [] name = "head" -> Opened(Cut(q, 1), HEAD)
      [] name = "body" -> Opened(Cut(q, 1), BODY)
      [] OTHER ->
           LET q1 == IF in_head(q) /\ ~ is_head_content(name) THEN enter_body(q) ELSE q
               q2 == end_implied(close_tags(q1, closes_what(name)), name)
           IN pop_if(push_open(q2, name, attrs), self_closing \/ name \in VOID)

decode_entities(words) == [i \in DOMAIN words |-> IF words[i] = Amp THEN "&" ELSE words[i]]

\* The first of two attributes with one name stays.
read_attributes(pairs) ==
    [a \in {pairs[i][1] : i \in DOMAIN pairs} |->
        decode_entities(pairs[SelectInSeq(pairs, LAMBDA pr : pr[1] = a)][2])]

\* A raw text element comes with all that precedes its end tag; only the
\* references in title and textarea are decoded.
start_tag(q, t) ==
    LET raw == t.name \in RAW_TEXT
        words == IF t.name \in {"title", "textarea"} THEN decode_entities(t.text) ELSE t.text
        inserted == insert(q, t.name, read_attributes(t.attrs), t.closed /\ ~ raw)
    IN IF raw THEN end_raw(text(inserted, words), t.name) ELSE inserted

\* One turn of parse's loop.  Comments and declarations leave no trace, so two
\* texts in a row stand for texts with one between them.
parse_token(q, t) ==
    CASE t.t = "text" -> text(q, decode_entities(t.text))
      [] t.t = "end" -> close_element(q, t.name)
      [] t.t = "start" -> start_tag(q, t)

parse(ts) ==
    LET at[i \in 0 .. Len(ts)] == IF i = 0 THEN new ELSE parse_token(at[i - 1], ts[i])
    IN at[Len(ts)].d

(***************************************************************************)
(* Back to markup (apps/web/js/domjs.rs).  Raw text elements are taken to  *)
(* hold text only.                                                         *)
(***************************************************************************)
RECURSIVE collect_all(_, _)
collect_all(d, id) ==
    IF d[id].kind = "text" THEN d[id].text
    ELSE FlattenSeq([i \in DOMAIN d[id].kids |-> collect_all(d, d[id].kids[i])])

StartTag(name, attrs, words) ==
    [t |-> "start", name |-> name, closed |-> FALSE, text |-> words,
     attrs |-> SetToSeq({<<a, attrs[a]>> : a \in DOMAIN attrs})]
EndTag(name) == [t |-> "end", name |-> name]
TextToken(words) == [t |-> "text", text |-> words]

RECURSIVE outer_html(_, _)
outer_html(d, id) ==
    LET n == d[id]
        inner == FlattenSeq([i \in DOMAIN n.kids |-> outer_html(d, n.kids[i])])
    IN CASE n.kind = "text" -> <<TextToken(n.text)>>
         [] n.kind = "comment" -> <<>>
         [] n.kind = "document" -> inner
         [] n.name \in RAW_TEXT -> <<StartTag(n.name, n.attrs, collect_all(d, id))>>
         [] OTHER -> <<StartTag(n.name, n.attrs, <<>>)>> \o inner \o <<EndTag(n.name)>>

inner_html(d, id) == FlattenSeq([i \in DOMAIN d[id].kids |-> outer_html(d, d[id].kids[i])])

\* Read as bytes, texts in a row are one text.
Lexed(ts) ==
    LET upto[i \in 0 .. Len(ts)] ==
            IF i = 0 THEN <<>>
            ELSE LET s == upto[i - 1]
                 IN IF s # <<>> /\ ts[i].t = "text" /\ Last(s).t = "text"
                    THEN [s EXCEPT ![Len(s)].text = @ \o ts[i].text] ELSE Append(s, ts[i])
    IN upto[Len(ts)]

(***************************************************************************)
(* Changes                                                                 *)
(***************************************************************************)
\* The children stay in the arena, without a parent.
detach_children(d, id) ==
    [i \in DOMAIN d |-> IF i = id THEN [d[i] EXCEPT !.kids = <<>>]
                       ELSE IF d[i].parent = id THEN [d[i] EXCEPT !.parent = NoNode]
                       ELSE d[i]]

RECURSIVE copy_subtree(_, _, _, _)
RECURSIVE copy_children(_, _, _, _)
copy_subtree(from, id, to, to_parent) ==
    copy_children(from, id,
                  push_under(to, to_parent,
                             IF from[id].kind = "document" THEN Comment
                             ELSE [from[id] EXCEPT !.kids = <<>>]),
                  Len(to) + 1)

copy_children(from, id, to, to_parent) ==
    LET after[i \in 0 .. Len(from[id].kids)] ==
            IF i = 0 THEN to ELSE copy_subtree(from, from[id].kids[i], after[i - 1], to_parent)
    IN after[Len(from[id].kids)]

\* A fragment is the body of a document made of it.
append_html(d, parent, ts) == copy_children(parse(ts), BODY, d, parent)

set_inner_html(d, id, ts) == append_html(detach_children(d, id), id, ts)

set_text_content(d, id, words) ==
    LET bare == detach_children(d, id)
    IN IF words = <<>> THEN bare ELSE push_under(bare, id, Text(words))

set_attr(d, id, name, value) ==
    IF d[id].kind # "element" THEN d
    ELSE [d EXCEPT ![id].attrs = [a \in DOMAIN @ \cup {name} |-> IF a = name THEN value ELSE @[a]]]

remove_attr(d, id, name) ==
    IF d[id].kind # "element" THEN d
    ELSE [d EXCEPT ![id].attrs = [a \in DOMAIN @ \ {name} |-> @[a]]]

detach(d, id) ==
    LET parent == d[id].parent
    IN IF parent = NoNode THEN d
       ELSE [d EXCEPT ![parent].kids = SelectSeq(@, LAMBDA c : c # id), ![id].parent = NoNode]

\* The nodes from id's parent upwards, as far as the walk goes before it meets
\* one a second time.
Walk(d, id) ==
    LET up[n \in 0 .. Len(d)] ==
            IF n = 0 THEN <<>>
            ELSE LET s == up[n - 1]
                     next == IF s = <<>> THEN d[id].parent ELSE d[Last(s)].parent
                 IN IF next = NoNode \/ Contains(s, next) THEN s ELSE Append(s, next)
    IN up[Len(d)]

is_ancestor(d, maybe_ancestor, id) == Contains(Walk(d, id), maybe_ancestor)

\* is_ancestor does not return: it goes round a cycle that has not the node it
\* looks for.
Circles(d, maybe_ancestor, id) ==
    LET w == Walk(d, id)
    IN w # <<>> /\ d[Last(w)].parent # NoNode /\ ~ Contains(w, maybe_ancestor)

\* Where before is, or last.
put_before(d, id, parent, before) ==
    LET at == SelectInSeq(d[parent].kids, LAMBDA c : c = before)
    IN [d EXCEPT ![parent].kids = IF at = 0 THEN Append(@, id) ELSE InsertAt(@, at, id),
                 ![id].parent = parent]

\* As in the code, what is asked is whether the new parent is an ancestor of
\* the node.
insert_at(d, id, parent, before) ==
    IF id = parent \/ is_ancestor(d, parent, id) THEN d
    ELSE put_before(detach(d, id), id, parent, before)

attach(d, id, parent) == insert_at(d, id, parent, NoNode)

clone_into(d, id, parent) == copy_subtree(d, id, d, parent)

index_of_child(d, parent, id) == SelectInSeq(d[parent].kids, LAMBDA c : c = id)

Lower(a, b) == IF a < b THEN a ELSE b

\* index counts from 1.
move_child_to(d, parent, id, index) ==
    LET at == index_of_child(d, parent, id)
        rest == RemoveAt(d[parent].kids, at)
    IN IF at = 0 THEN d
       ELSE [d EXCEPT ![parent].kids = InsertAt(rest, Lower(index, Len(rest) + 1), id)]

(***************************************************************************)
(* The calls a script makes on its document (apps/web/js/domjs.rs)         *)
(***************************************************************************)
NoCall == [op |-> "none", touched |-> {}, at |-> NoNode, id |-> NoNode, before |-> NoNode]
Call(op, touched, at, id, before) ==
    [op |-> op, touched |-> touched, at |-> at, id |-> id, before |-> before]

Children(d, id) == {d[id].kids[i] : i \in DOMAIN d[id].kids}

\* id and all that is below it.
Subtree(d, id) ==
    LET down[n \in 0 .. Len(d)] ==
            IF n = 0 THEN {id} ELSE down[n - 1] \cup UNION {Children(d, i) : i \in down[n - 1]}
    IN down[Len(d)]

\* A walk down from id does not return: it comes to a node that is below itself.
Endless(d, id) == \E i \in Subtree(d, id) : Contains(Walk(d, i), i)

\* The nodes a script can get hold of: it goes from any of them to its parent,
\* its children and its siblings.
Nodes == Held \cap DOMAIN p.d

Changes(d, call) ==
    /\ p' = [p EXCEPT !.d = d]
    /\ js' = [js EXCEPT !.left = @ - 1, !.last = call]
    /\ UNCHANGED toks

Hangs ==
    /\ js' = [js EXCEPT !.hung = TRUE, !.last = NoCall]
    /\ UNCHANGED <<p, toks>>

\* A move asks first whether it is one, and the question may have no end.
Moves(d, child, parent, call) ==
    IF child # parent /\ Circles(p.d, parent, child) THEN Hangs
    ELSE Changes(d, call)

appendChild(parent, child) ==
    Moves(attach(p.d, child, parent), child, parent,
          Call("move", {child}, parent, child, NoNode))

appendText(parent, words) ==
    Changes(push_under(p.d, parent, Text(words)), NoCall)

insertBefore(parent, child, before) ==
    Moves(insert_at(p.d, child, parent, before), child, parent,
          Call("move", {child}, parent, child, before))

removeChild(child) == Changes(detach(p.d, child), Call("remove", {child}, NoNode, child, NoNode))

\* The old one goes whether the new one came or not.
replaceChild(parent, child, old) ==
    Moves(detach(insert_at(p.d, child, parent, old), old), child, parent,
          Call("replace", {child, old}, parent, child, old))

\* createElement, createTextNode: the new node is a child of the document.
create(node) == Changes(push_under(p.d, ROOT, node), NoCall)

write(ts) == Changes(append_html(p.d, Head(by_tag(p.d, "body")), ts), NoCall)

cloneNode(id) ==
    IF Endless(p.d, id) THEN Hangs
    ELSE Changes(clone_into(p.d, id, ROOT), NoCall)

\* The new children of parent, from the first new node on.
Added(d, parent, first_new) ==
    SelectSeq([i \in DOMAIN d |-> i], LAMBDA i : i >= first_new /\ d[i].parent = parent)

move_all(d, parent, added, first) ==
    LET moved[i \in 0 .. Len(added)] ==
            IF i = 0 THEN d ELSE move_child_to(moved[i - 1], parent, added[i], first + i - 1)
    IN moved[Len(added)]

\* Mutant: the place after an element is taken to be its own.
place_added_at(d, position, parent, id, first_new) ==
    LET at == index_of_child(d, parent, id)
    IN IF position = "beforeend" THEN d
       ELSE move_all(d, parent, Added(d, parent, first_new),
                     IF position = "afterbegin" \/ at = 0 THEN 1 ELSE at)

\* What was added at the end is moved, one node after the other, to where it
\* belongs.
place_added(d, position, parent, id, first_new) ==
    LET at == index_of_child(d, parent, id)
        base == IF position = "afterbegin" \/ at = 0 THEN 1 ELSE at
    IN IF position = "beforeend" THEN d
       ELSE move_all(d, parent, Added(d, parent, first_new),
                     IF position = "afterend" THEN base + 1 ELSE base)

insertAdjacentHTML(position, id, ts) ==
    LET parent == CASE position \in {"afterbegin", "beforeend"} -> id
                    [] OTHER -> IF p.d[id].parent = NoNode THEN ROOT ELSE p.d[id].parent
    IN Changes(place_added(append_html(p.d, parent, ts), position, parent, id, Len(p.d) + 1),
               Call(position, {}, parent, id, NoNode))

set_innerHTML(id, ts) ==
    Changes(set_inner_html(p.d, id, ts), Call("inner", Children(p.d, id), id, id, NoNode))

\* x.innerHTML += ...: everything below x is written out and read back.
add_innerHTML(id, ts) ==
    IF Endless(p.d, id) THEN Hangs
    ELSE Changes(set_inner_html(p.d, id, Lexed(inner_html(p.d, id) \o ts)),
                 Call("inner", Children(p.d, id), id, id, NoNode))

set_textContent(id, words) ==
    Changes(set_text_content(p.d, id, words), Call("inner", Children(p.d, id), id, id, NoNode))

About(id) == Call("attribute", {}, NoNode, id, NoNode)

setAttribute(id, name, value) == Changes(set_attr(p.d, id, name, value), About(id))

removeAttribute(id, name) == Changes(remove_attr(p.d, id, name), About(id))

\* classList.add, remove and toggle work on the words of the class attribute.
classList(op, id, class) ==
    LET have == IF "class" \in DOMAIN p.d[id].attrs THEN p.d[id].attrs["class"] ELSE <<>>
        without == SelectSeq(have, LAMBDA c : c # class)
        present == Contains(have, class)
        set(words) == set_attr(p.d, id, "class", words)
    IN Changes(CASE op = "add" -> IF present THEN p.d ELSE set(Append(have, class))
                 [] op = "remove" -> set(without)
                 [] op = "toggle" -> IF present THEN set(without) ELSE set(Append(have, class)),
               About(id))

Positions == {"beforebegin", "afterbegin", "beforeend", "afterend"}

ReadToken(t) ==
    /\ ~ js.on /\ Len(toks) < MaxTokens
    /\ p' = parse_token(p, t)
    /\ toks' = Append(toks, t)
    /\ UNCHANGED js

RunScripts ==
    /\ ~ js.on /\ toks \in Scripted
    /\ js' = [js EXCEPT !.on = TRUE]
    /\ UNCHANGED <<p, toks>>

DomInit ==
    /\ p = new /\ toks = <<>>
    /\ js = [on |-> FALSE, left |-> MaxCalls, hung |-> FALSE, last |-> NoCall]

Calls ==
    \/ \E id \in Nodes :
         \/ \E c \in Nodes : appendChild(id, c)
         \/ \E c \in Nodes, b \in Nodes \cup {NoNode} : insertBefore(id, c, b)
         \/ \E c, b \in Nodes : replaceChild(id, c, b)
         \/ \E ts \in Fragments : \/ \E pos \in Positions : insertAdjacentHTML(pos, id, ts)
                                  \/ set_innerHTML(id, ts)
                                  \/ add_innerHTML(id, ts)
         \/ removeChild(id)
         \/ cloneNode(id)
         \/ appendText(id, <<"y">>)
         \/ set_textContent(id, <<"y">>) \/ set_textContent(id, <<>>)
         \/ setAttribute(id, "id", <<"n">>) \/ removeAttribute(id, "id")
         \/ \E op \in {"add", "remove", "toggle"} : classList(op, id, "c")
    \/ create(Element("i", NoAttrs)) \/ create(Text(<<"y">>))
    \/ \E ts \in Fragments : write(ts)

DomNext ==
    \/ \E t \in Tokens : ReadToken(t)
    \/ RunScripts
    \/ js.on /\ ~ js.hung /\ js.left > 0 /\ Calls

DomSpec == DomInit /\ [][DomNext]_dom_vars

(***************************************************************************)
(* Properties                                                              *)
(***************************************************************************)
\* The open elements after the tokens, if each token may stand where it does:
\* an end tag closes the innermost element, a start tag closes none, texts are
\* apart, and the first token belongs to the body.
OpenAfter(ts) ==
    LET fits(t, open) ==
            CASE t.t = "text" -> TRUE
              [] t.t = "end" -> open # <<>> /\ Last(open) = t.name
              [] t.t = "start" -> /\ t.name \notin {"html", "head", "body"}
                                  /\ open # <<>> => /\ Last(open) \notin closes_what(t.name)
                                                    /\ ~ implied_end_for(t.name, Last(open))
        after[i \in 0 .. Len(ts)] ==
            IF i = 0 THEN [ok |-> TRUE, open |-> <<>>]
            ELSE LET o == after[i - 1].open
                     t == ts[i]
                 IN [ok |-> after[i - 1].ok /\ fits(t, o),
                     open |-> CASE t.t = "text" -> o
                                [] t.t = "end" -> IF o = <<>> THEN o ELSE Front(o)
                                [] t.t = "start" -> IF t.closed \/ t.name \in VOID \cup RAW_TEXT
                                                    THEN o ELSE Append(o, t.name)]
    IN after[Len(ts)]

InBody(t) ==
    (t.t = "text" /\ ~ OnlySpace(t.text)) \/ (t.t = "start" /\ ~ is_head_content(t.name))

WellFormed(ts) ==
    /\ OpenAfter(ts).ok
    /\ ts # <<>> => InBody(ts[1])
    /\ \A i \in 1 .. Len(ts) - 1 : ts[i].t # "text" \/ ts[i + 1].t # "text"

\* What outer_html writes for such tokens: references decoded, every element
\* closed.
Written(ts) ==
    LET one(t) ==
            CASE t.t = "text" -> <<TextToken(decode_entities(t.text))>>
              [] t.t = "end" -> <<t>>
              [] t.t = "start" ->
                   <<StartTag(t.name, read_attributes(t.attrs), decode_entities(t.text))>>
                     \o (IF (t.closed \/ t.name \in VOID) /\ t.name \notin RAW_TEXT
                         THEN <<EndTag(t.name)>> ELSE <<>>)
        open == OpenAfter(ts).open
    IN FlattenSeq([i \in DOMAIN ts |-> one(ts[i])])
         \o [i \in DOMAIN open |-> EndTag(open[Len(open) + 1 - i])]

\* Markup in which every element is closed in its turn becomes the tree it
\* describes: written out again it is the same markup (start_tag, insert,
\* close_element, text against inner_html).
WellFormedKept ==
    ~ js.on /\ WellFormed(toks) => inner_html(p.d, BODY) = Written(toks)

Words(ts) == FlattenSeq([i \in DOMAIN ts |-> IF ts[i].t = "end" THEN <<>> ELSE decode_entities(ts[i].text)])

\* However its tags are nested or left out, a page's text stays in the order it
\* was written, and none of it is lost, as long as no tag goes back to the head
\* or the start of the body.
TextInOrder ==
    ~ js.on /\ (\A i \in DOMAIN toks :
                   /\ toks[i].t = "start" => toks[i].name \notin {"html", "head", "body"}
                   /\ toks[i].t = "end" => toks[i].name # "head")
      => collect_all(p.d, ROOT) = Words(toks)

\* What innerHTML gives, put back, is the same again, however broken the page
\* was: unless it begins with what a document's own beginning would take into
\* its head.
RoundTrip ==
    LET html == Lexed(inner_html(p.d, BODY))
    IN ~ js.on /\ html # <<>> /\ InBody(html[1]) =>
         Lexed(inner_html(parse(html), BODY)) = html

\* Markup survives the way into the tree and out of it.
MarkupKept == WellFormedKept /\ TextInOrder /\ RoundTrip

\* A node's parent lists it, once, and what a node lists has it for a parent.
ListsAgree ==
    \A i \in DOMAIN p.d :
        /\ p.d[i].parent # NoNode =>
             Cardinality({k \in DOMAIN p.d[p.d[i].parent].kids : p.d[p.d[i].parent].kids[k] = i}) = 1
        /\ \A c \in Children(p.d, i) : p.d[c].parent = i

\* attach: "moving a node inside itself is not a move": no node is below
\* itself.
Acyclic == \A i \in DOMAIN p.d : ~ Contains(Walk(p.d, i), i)

\* "an index held by a script stays valid", and the nodes a call is not about
\* keep their places among each other (detach, insert_at, detach_children).
OthersStay ==
    p'.d # p.d /\ js.on =>
        LET other(i) == i \in DOMAIN p.d /\ i \notin js'.last.touched
        IN \A i \in DOMAIN p.d :
             /\ p'.d[i].name = p.d[i].name /\ p'.d[i].text = p.d[i].text
             /\ i # js'.last.id => p'.d[i].attrs = p.d[i].attrs
             /\ SelectSeq(p'.d[i].kids, other) = SelectSeq(p.d[i].kids, other)

\* insertAdjacentHTML: "inside at the start, inside at the end, immediately
\* before this element, immediately after it": the new nodes are there, in the
\* order they were written.
AdjacentInPlace ==
    p'.d # p.d /\ js.on /\ js'.last.op \in Positions =>
        LET c == js'.last
            old == p.d[c.at].kids
            added == Added(p'.d, c.at, Len(p.d) + 1)
            k == SelectInSeq(old, LAMBDA i : i = c.id)
            split == CASE c.op = "afterbegin" -> 0
                       [] c.op = "beforeend" -> Len(old)
                       [] c.op = "beforebegin" -> k - 1
                       [] c.op = "afterend" -> k
        IN p.d[c.id].parent # NoNode =>
             p'.d[c.at].kids = SubSeq(old, 1, split) \o added \o SubSeq(old, split + 1, Len(old))

\* A node that was moved is where insertBefore or appendChild says.
MovedInPlace ==
    p'.d # p.d /\ js.on /\ js'.last.op = "move" =>
        LET c == js'.last
            kids == p'.d[c.at].kids
            k == SelectInSeq(kids, LAMBDA i : i = c.id)
        IN /\ k # 0
           /\ IF c.before \in Children(p.d, c.at) \ {c.id}
              THEN k < Len(kids) /\ kids[k + 1] = c.before ELSE k = Len(kids)

CallStep == OthersStay /\ AdjacentInPlace /\ MovedInPlace

\* Scripts change what they name and nothing else, and parents and children
\* agree at every moment.
TreeKept == []ListsAgree /\ [][CallStep]_dom_vars
=============================================================================
