---------------------------- MODULE SessionProofs ----------------------------
(***************************************************************************)
(* Who the session runs as and what a user may change, for any accounts,   *)
(* any number of files, keys and commands, and any contents of the account *)
(* files.                                                                  *)
(*                                                                         *)
(* RunsAsProven and the three access rules hold step by step; what they    *)
(* need beside themselves is the shape of the files' records, that at most *)
(* one file of a directory has a name, and that the accounts are numbered. *)
(***************************************************************************)
EXTENDS Session, FiniteSetTheorems, WellFoundedInduction, TLAPS

(* Facts about sequences that the proofs cite.                             *)

LEMMA NoItems ==
    ASSUME NEW D
    PROVE  <<>> \in Seq(D) /\ Len(<<>>) = 0 /\ \A q \in Seq(D) : q # <<>> => Len(q) \in Nat \ {0}
  OBVIOUS

LEMMA Appended ==
    ASSUME NEW D, NEW q \in Seq(D), NEW e \in D
    PROVE  /\ Append(q, e) \in Seq(D) /\ Append(q, e) # <<>> /\ Len(Append(q, e)) = Len(q) + 1
           /\ \A i \in 1 .. Len(q) : Append(q, e)[i] = q[i]
           /\ Append(q, e)[Len(q) + 1] = e
  OBVIOUS

LEMMA Part ==
    ASSUME NEW D, NEW q, NEW a \in Int, NEW b \in Int, \A i \in a .. b : q[i] \in D
    PROVE  /\ SubSeq(q, a, b) \in Seq(D) /\ Len(SubSeq(q, a, b)) = IF a <= b THEN b - a + 1 ELSE 0
           /\ \A i \in 1 .. b - a + 1 : SubSeq(q, a, b)[i] = q[a + i - 1]
  OBVIOUS

NodeFields == {"there", "dir", "name", "data", "uid", "gid", "mode"}

\* nodes is a table of vnodes with exactly these fields.
NodesTyped ==
    /\ nodes = [i \in Ids |-> nodes[i]]
    /\ \A i \in Ids : nodes[i] = [f \in NodeFields |-> nodes[i][f]]

\* A name stands for one file of a directory.
OneName ==
    \A i, j \in Ids :
        nodes[i].there /\ nodes[j].there /\ nodes[i].dir = nodes[j].dir
            /\ nodes[i].name = nodes[j].name => i = j

TermTyped ==
    /\ term = [f \in {"secret", "user", "cells"} |-> term[f]]
    /\ term.cells \in Seq(Chars \cup {Star}) /\ Len(term.cells) < COLS

LoginTyped ==
    /\ login = [f \in {"up", "field", "user", "pass"} |-> login[f]]
    /\ login.field \in {"user", "pass"}
    /\ login.user \in Seq(Chars) /\ login.pass \in Seq(Chars)
    /\ Len(login.user) <= FIELD_MAX /\ Len(login.pass) <= FIELD_MAX

UsersNumbered == DOMAIN users \subseteq Nat

FileKnown == file_id \in Ids \cup {0}

Inv ==
    /\ NodesTyped /\ OneName /\ TermTyped /\ LoginTyped /\ UsersNumbered /\ FileKnown
    /\ RunsAsProven

LEMMA FirstFound ==
    ASSUME NEW S \in SUBSET Nat, S # {}
    PROVE  (CHOOSE i \in S : \A j \in S : i <= j) \in S
<1>1. IsWellFoundedOn(OpToRel(<, Nat), Nat)
  BY Zenon, NatLessThanWellFounded
<1>2. PICK x \in S : \A y \in S : ~ (<<y, x>> \in OpToRel(<, Nat))
  BY Zenon, <1>1, WFMin
<1>3. \A y \in S : x <= y
  <2> SUFFICES ASSUME NEW y \in S PROVE x <= y
    OBVIOUS
  <2>1. ~ (y < x)
    BY Zenon, <1>2 DEF OpToRel
  <2> QED
    BY <2>1
<1> QED
  BY Zenon, <1>3

\* The first account of a name is an account, and its uid is one of them.
LEMMA AccountFound ==
    ASSUME UsersNumbered, NEW name, Matches("name", name) # {}
    PROVE  /\ user_by_name(name).name \in AccountNames
           /\ Matches("uid", user_by_name(name).uid) # {}
<1>1. PICK k : k = CHOOSE i \in Matches("name", name) : \A j \in Matches("name", name) : i <= j
  OBVIOUS
<1>2. Matches("name", name) \in SUBSET Nat
  BY DEF Matches, UsersNumbered
<1>3. k \in Matches("name", name)
  BY <1>1, <1>2, FirstFound
<1>4. k \in DOMAIN users /\ user_by_name(name) = users[k]
  BY <1>1, <1>3 DEF Matches, user_by_name, First
<1> QED
  BY <1>4 DEF Matches, AccountNames

LEMMA StartsRight ==
    ASSUME FIELD_MAX \in Nat, COLS \in Nat \ {0}, Init
    PROVE  Inv
<1>1. NodesTyped
  <2>1. PICK first \in Data :
          nodes = [i \in Ids |->
            [there |-> i <= 2, dir |-> IF i = 1 THEN "etc" ELSE "home",
             name |-> IF i = 1 THEN "shadow" ELSE "note", data |-> first,
             uid |-> UID_ROOT, gid |-> UID_ROOT,
             mode |-> IF i = 1 THEN MODE_SECRET ELSE MODE_FILE]]
    BY DEF Init, install_defaults
  <2> QED
    BY <2>1 DEF NodesTyped, NodeFields
<1>2. OneName
  <2>1. \A i \in Ids : /\ i \in Int /\ i >= 1
                       /\ nodes[i].there => i <= 2
                       /\ nodes[i].dir = IF i = 1 THEN "etc" ELSE "home"
    <3>1. PICK N : nodes = [i \in Ids |-> N[i]] /\ \A i \in Ids : N[i].there = (i <= 2)
                   /\ N[i].dir = IF i = 1 THEN "etc" ELSE "home"
      <4>1. PICK first \in Data :
              nodes = [i \in Ids |->
                [there |-> i <= 2, dir |-> IF i = 1 THEN "etc" ELSE "home",
                 name |-> IF i = 1 THEN "shadow" ELSE "note", data |-> first,
                 uid |-> UID_ROOT, gid |-> UID_ROOT,
                 mode |-> IF i = 1 THEN MODE_SECRET ELSE MODE_FILE]]
        BY DEF Init, install_defaults
      <4>2. \A i \in Ids : nodes[i].there = (i <= 2)
        BY <4>1, Zenon
      <4>3. \A i \in Ids : nodes[i].dir = IF i = 1 THEN "etc" ELSE "home"
        BY <4>1
      <4> QED
        BY <1>1, <4>2, <4>3, Zenon DEF NodesTyped
    <3>2. \A i \in Ids : nodes[i].there => i <= 2
      BY <3>1, Zenon
    <3>3. \A i \in Ids : nodes[i].dir = IF i = 1 THEN "etc" ELSE "home"
      BY <3>1
    <3> QED
      BY <3>2, <3>3 DEF Ids
  <2> SUFFICES ASSUME NEW i \in Ids, NEW j \in Ids, nodes[i].there, nodes[j].there,
                      nodes[i].dir = nodes[j].dir
               PROVE  i = j
    BY DEF OneName
  <2> QED
    BY <2>1
<1>3. TermTyped
  BY DEF Init, TermTyped
<1>4. LoginTyped
  BY DEF Init, LoginTyped
<1>5. UsersNumbered
  <2>1. PICK lines : users = load_from_passwd(lines)
    BY DEF Init
  <2>2. PICK n : DOMAIN users = 1 .. n
    BY Zenon, <2>1 DEF load_from_passwd
  <2> QED
    BY <2>2 DEF UsersNumbered
<1>6. RunsAsProven
  BY DEF Init, RunsAsProven
<1>7. FileKnown
  BY DEF Init, FileKnown
<1> QED
  BY <1>1, <1>2, <1>3, <1>4, <1>5, <1>6, <1>7 DEF Inv

\* What a step that gives no password leaves alone.
Same == UNCHANGED <<users, uid, proof>>

LEMMA StillProven ==
    ASSUME Inv, Same, login'.up = login.up
    PROVE  UsersNumbered' /\ RunsAsProven'
BY DEF Inv, Same, UsersNumbered, RunsAsProven, AccountNames

LEMMA ShorterTyped ==
    ASSUME NEW S, NEW s \in Seq(S), s # <<>>
    PROVE  Shorter(s) \in Seq(S) /\ Len(Shorter(s)) = Len(s) - 1
<1>1. Len(s) \in Nat /\ Len(s) # 0
  BY NoItems
<1>2. 1 \in 1 .. Len(s) + 1 /\ Len(s) - 1 \in 0 .. Len(s)
  BY <1>1
<1> QED
  <2>1. PICK n : n = Len(s) - 1
    OBVIOUS
  <2>2. n \in 0 .. Len(s) /\ n \in Nat
    BY <1>1, <2>1
  <2>3. SubSeq(s, 1, n) \in Seq(S) /\ Len(SubSeq(s, 1, n)) = n
    BY <1>1, <2>2, Part
  <2> QED
    BY <2>1, <2>3 DEF Shorter

\* The keys of the login screen that only edit a field.
LEMMA LoginEdits ==
    ASSUME FIELD_MAX \in Nat, Inv,
           \/ \E c \in Chars : login_char(c)
           \/ login_backspace \/ login_tab
    PROVE  LoginTyped' /\ Same /\ login'.up = login.up /\ UNCHANGED <<nodes, term>>
<1> USE DEF Same
<1>0. /\ login = [f \in {"up", "field", "user", "pass"} |-> login[f]]
      /\ login.field \in {"user", "pass"}
      /\ login.user \in Seq(Chars) /\ login.pass \in Seq(Chars)
      /\ Len(login.user) <= FIELD_MAX /\ Len(login.pass) <= FIELD_MAX
      /\ Len(login.user) \in Nat /\ Len(login.pass) \in Nat
  BY DEF Inv, LoginTyped
<1>1. ASSUME NEW c \in Chars, login_char(c)
      PROVE  LoginTyped' /\ Same /\ login'.up = login.up /\ UNCHANGED <<nodes, term>>
  <2>1. Same /\ UNCHANGED <<nodes, term>>
    BY <1>1 DEF login_char, LoginKey
  <2>2. login' = IF Len(login[login.field]) < FIELD_MAX
                 THEN [login EXCEPT ![login.field] = Append(@, c)] ELSE login
    BY <1>1 DEF login_char, LoginKey, Field
  <2>3. CASE login.field = "user" /\ Len(login.user) < FIELD_MAX
    <3>1. login' = [login EXCEPT !.user = Append(login.user, c)]
      BY Zenon, <2>2, <2>3
    <3>2. Append(login.user, c) \in Seq(Chars) /\ Len(Append(login.user, c)) = Len(login.user) + 1
      BY <1>0, Appended
    <3>3. /\ login' = [f \in {"up", "field", "user", "pass"} |-> login'[f]]
          /\ login'.user = Append(login.user, c) /\ login'.pass = login.pass
          /\ login'.up = login.up /\ login'.field = login.field
      BY Zenon, <1>0, <3>1
    <3> QED
      BY <1>0, <2>1, <2>3, <3>2, <3>3 DEF LoginTyped
  <2>4. CASE login.field = "pass" /\ Len(login.pass) < FIELD_MAX
    <3>1. login' = [login EXCEPT !.pass = Append(login.pass, c)]
      BY Zenon, <2>2, <2>4
    <3>2. Append(login.pass, c) \in Seq(Chars) /\ Len(Append(login.pass, c)) = Len(login.pass) + 1
      BY <1>0, Appended
    <3>3. /\ login' = [f \in {"up", "field", "user", "pass"} |-> login'[f]]
          /\ login'.pass = Append(login.pass, c) /\ login'.user = login.user
          /\ login'.up = login.up /\ login'.field = login.field
      BY Zenon, <1>0, <3>1
    <3> QED
      BY <1>0, <2>1, <2>4, <3>2, <3>3 DEF LoginTyped
  <2>5. CASE login' = login
    BY <1>0, <2>1, <2>5 DEF LoginTyped
  <2> QED
    BY Zenon, <1>0, <2>2, <2>3, <2>4, <2>5
<1>2. ASSUME login_backspace
      PROVE  LoginTyped' /\ Same /\ login'.up = login.up /\ UNCHANGED <<nodes, term>>
  <2>1. Same /\ UNCHANGED <<nodes, term>>
    BY <1>2 DEF login_backspace, LoginKey
  <2>2. login' = IF login[login.field] # <<>>
                 THEN [login EXCEPT ![login.field] = Shorter(@)] ELSE login
    BY <1>2 DEF login_backspace, LoginKey, Field
  <2>3. CASE login.field = "user" /\ login.user # <<>>
    <3>1. login' = [login EXCEPT !.user = Shorter(login.user)]
      BY <2>2, <2>3
    <3>2. Shorter(login.user) \in Seq(Chars) /\ Len(Shorter(login.user)) = Len(login.user) - 1
      BY <1>0, <2>3, ShorterTyped
    <3>3. /\ login' = [f \in {"up", "field", "user", "pass"} |-> login'[f]]
          /\ login'.user = Shorter(login.user) /\ login'.pass = login.pass
          /\ login'.up = login.up /\ login'.field = login.field
      BY Zenon, <1>0, <3>1
    <3> QED
      BY <1>0, <2>1, <2>3, <3>2, <3>3 DEF LoginTyped
  <2>4. CASE login.field = "pass" /\ login.pass # <<>>
    <3>1. login' = [login EXCEPT !.pass = Shorter(login.pass)]
      BY <2>2, <2>4
    <3>2. Shorter(login.pass) \in Seq(Chars) /\ Len(Shorter(login.pass)) = Len(login.pass) - 1
      BY <1>0, <2>4, ShorterTyped
    <3>3. /\ login' = [f \in {"up", "field", "user", "pass"} |-> login'[f]]
          /\ login'.pass = Shorter(login.pass) /\ login'.user = login.user
          /\ login'.up = login.up /\ login'.field = login.field
      BY Zenon, <1>0, <3>1
    <3> QED
      BY <1>0, <2>1, <2>4, <3>2, <3>3 DEF LoginTyped
  <2>5. CASE login' = login
    BY <1>0, <2>1, <2>5 DEF LoginTyped
  <2> QED
    BY <1>0, <2>2, <2>3, <2>4, <2>5
<1>3. ASSUME login_tab
      PROVE  LoginTyped' /\ Same /\ login'.up = login.up /\ UNCHANGED <<nodes, term>>
  BY <1>0, <1>3 DEF login_tab, LoginKey, LoginTyped
<1> QED
  BY <1>1, <1>2, <1>3

\* Enter at the login screen: the one way the session starts.
LEMMA LoginEnters ==
    ASSUME FIELD_MAX \in Nat, Inv, login_enter
    PROVE  LoginTyped' /\ RunsAsProven' /\ UNCHANGED <<users, nodes, term>>
<1>0. /\ login = [f \in {"up", "field", "user", "pass"} |-> login[f]]
      /\ login.field \in {"user", "pass"}
      /\ login.user \in Seq(Chars) /\ login.pass \in Seq(Chars)
      /\ Len(login.user) <= FIELD_MAX /\ Len(login.pass) <= FIELD_MAX /\ login.up
  BY DEF Inv, LoginTyped, login_enter
<1>1. UNCHANGED <<users, nodes, term>>
  BY DEF login_enter
<1>2. CASE login.field = "user"
  <2>1. login' = [login EXCEPT !.field = "pass"] /\ UNCHANGED <<uid, proof>>
    BY Zenon, <1>2 DEF login_enter, Field
  <2> QED
    BY <1>0, <1>1, <2>1 DEF LoginTyped, RunsAsProven
<1>3. CASE login.field # "user" /\ ~ Accepted(login.user, login.pass)
  <2>1. login' = [login EXCEPT !.pass = <<>>] /\ UNCHANGED <<uid, proof>>
    BY <1>3 DEF login_enter, Field, try_login
  <2>2. <<>> \in Seq(Chars) /\ Len(<<>>) = 0
    OBVIOUS
  <2> QED
    BY SMTT(30), <1>0, <1>1, <2>1, <2>2 DEF LoginTyped, RunsAsProven
<1>4. CASE login.field # "user" /\ Accepted(login.user, login.pass)
  <2>1. /\ login' = [login EXCEPT !.up = FALSE]
        /\ set_current_uid(user_by_name(login.user).uid)
        /\ proof' = user_by_name(login.user)
    BY <1>4 DEF login_enter, Field, try_login
  <2>2. /\ user_by_name(login.user).name \in AccountNames
        /\ Matches("uid", user_by_name(login.user).uid) # {}
    BY <1>4, AccountFound DEF Accepted, Inv
  <2>3. uid' = proof'.uid /\ proof'.name \in AccountNames
    BY <2>1, <2>2 DEF set_current_uid
  <2>4. AccountNames' = AccountNames
    BY <1>1 DEF AccountNames
  <2>5. LoginTyped'
    BY Zenon, <1>0, <2>1 DEF LoginTyped
  <2> QED
    BY <1>1, <2>3, <2>4, <2>5 DEF RunsAsProven
<1> QED
  BY <1>2, <1>3, <1>4

\* The password prompt of su.
LEMMA PromptKeys ==
    ASSUME COLS \in Nat \ {0}, Inv,
           \/ \E c \in Chars : input_char(c)
           \/ input_backspace
    PROVE  TermTyped' /\ Same /\ UNCHANGED <<nodes, login>>
<1>0. /\ term = [f \in {"secret", "user", "cells"} |-> term[f]]
      /\ term.cells \in Seq(Chars \cup {Star}) /\ Len(term.cells) < COLS
      /\ Len(term.cells) \in Nat
  BY DEF Inv, TermTyped
<1>1. ASSUME NEW cs \in Seq(Chars \cup {Star}), Len(cs) < COLS, TermKey(cs)
      PROVE  TermTyped' /\ Same /\ UNCHANGED <<nodes, login>>
  <2>1. term' = [term EXCEPT !.cells = cs] /\ Same /\ UNCHANGED <<nodes, login>>
    BY <1>1 DEF TermKey, Same
  <2>2. term' = [f \in {"secret", "user", "cells"} |-> term'[f]] /\ term'.cells = cs
    BY Zenon, <1>0, <2>1
  <2> QED
    BY <1>1, <2>1, <2>2 DEF TermTyped
<1>2. ASSUME NEW c \in Chars, input_char(c)
      PROVE  TermTyped' /\ Same /\ UNCHANGED <<nodes, login>>
  <2>1. PICK x : x = IF term.secret THEN Star ELSE c
    OBVIOUS
  <2>2. Len(term.cells) + 1 < COLS /\ TermKey(Append(term.cells, x)) /\ x \in Chars \cup {Star}
    BY <1>2, <2>1 DEF input_char
  <2>3. /\ Append(term.cells, x) \in Seq(Chars \cup {Star})
        /\ Len(Append(term.cells, x)) = Len(term.cells) + 1
    BY <1>0, <2>2, Appended
  <2> QED
    BY Zenon, <1>1, <2>2, <2>3
<1>3. ASSUME input_backspace
      PROVE  TermTyped' /\ Same /\ UNCHANGED <<nodes, login>>
  <2>1. term.cells # <<>> /\ TermKey(Shorter(term.cells))
    BY <1>3 DEF input_backspace
  <2>2. /\ Shorter(term.cells) \in Seq(Chars \cup {Star})
        /\ Len(Shorter(term.cells)) = Len(term.cells) - 1
    BY <1>0, <2>1, ShorterTyped
  <2> QED
    BY <1>0, <1>1, <2>1, <2>2
<1> QED
  BY <1>2, <1>3

LEMMA PromptEnters ==
    ASSUME COLS \in Nat \ {0}, Inv, input_enter
    PROVE  TermTyped' /\ RunsAsProven' /\ UNCHANGED <<users, nodes, login>>
<1>1. /\ UNCHANGED <<users, nodes, login>> /\ ~ login.up
      /\ term' = [term EXCEPT !.secret = FALSE, !.cells = <<>>]
  BY DEF input_enter
<1>2. TermTyped'
  <2>1. <<>> \in Seq(Chars \cup {Star}) /\ Len(<<>>) = 0
    OBVIOUS
  <2>2. term' = [f \in {"secret", "user", "cells"} |-> term'[f]] /\ term'.cells = <<>>
    BY Zenon, <1>1 DEF Inv, TermTyped
  <2> QED
    BY <2>1, <2>2 DEF TermTyped
<1>3. AccountNames' = AccountNames
  BY <1>1 DEF AccountNames
<1>4. CASE UNCHANGED <<uid, proof>>
  BY <1>1, <1>2, <1>3, <1>4 DEF Inv, RunsAsProven
<1>5. CASE /\ Matches("name", term.user) # {}
           /\ set_current_uid(user_by_name(term.user).uid)
           /\ proof' = user_by_name(term.user)
  <2>1. /\ user_by_name(term.user).name \in AccountNames
        /\ Matches("uid", user_by_name(term.user).uid) # {}
    BY <1>5, AccountFound DEF Inv
  <2> QED
    BY <1>1, <1>2, <1>3, <1>5, <2>1 DEF set_current_uid, RunsAsProven
<1> QED
  BY <1>4, <1>5 DEF input_enter, finish_su

(***************************************************************************)
(* Commands.  MayBecome(k, v): what the rules let the user of the moment   *)
(* make of the k-th vnode.                                                 *)
(***************************************************************************)
Rules == WriteIsAllowed /\ PermIsByOwner /\ EntryIsAllowed

Lists(v, d) == v.there /\ v.dir = d

MayBecome(k, v) ==
    /\ nodes[k].there /\ v.there =>
          /\ v.data # nodes[k].data => allowed(nodes[k], {W})
          /\ v.mode # nodes[k].mode => is_root \/ nodes[k].uid = uid
          /\ v.uid # nodes[k].uid => is_root
    /\ \A d \in Dirs : may_modify_dir(d) \/ /\ Lists(v, d) <=> Lists(nodes[k], d)
                                            /\ Lists(v, d) => v.name = nodes[k].name

\* No other file has the place v takes.
Fresh(k, v) ==
    v.there => \A j \in Ids \ {k} : nodes[j].there => ~ (nodes[j].dir = v.dir /\ nodes[j].name = v.name)

LEMMA ListingKept ==
    ASSUME NEW d, \A i \in Ids : /\ Lists(nodes'[i], d) <=> Lists(nodes[i], d)
                                 /\ Lists(nodes'[i], d) => nodes'[i].name = nodes[i].name
    PROVE  Entries(d)' = Entries(d)
<1>1. ASSUME NEW e \in Entries(d) PROVE e \in Entries(d)'
  <2>1. PICK i \in Ids : Lists(nodes[i], d) /\ e = <<i, nodes[i].name>>
    BY <1>1 DEF Entries, Lists
  <2>2. Lists(nodes'[i], d) /\ e = <<i, nodes'[i].name>>
    BY <2>1
  <2> QED
    BY <2>2 DEF Entries, Lists, Ids
<1>2. ASSUME NEW e \in Entries(d)' PROVE e \in Entries(d)
  <2>1. PICK i \in Ids : Lists(nodes'[i], d) /\ e = <<i, nodes'[i].name>>
    BY <1>2 DEF Entries, Lists, Ids
  <2>2. Lists(nodes[i], d) /\ e = <<i, nodes[i].name>>
    BY <2>1
  <2> QED
    BY <2>2 DEF Entries, Lists
<1> QED
  BY <1>1, <1>2

LEMMA NothingChanged ==
    ASSUME Inv, nodes' = nodes
    PROVE  NodesTyped' /\ OneName' /\ Rules
BY DEF Inv, NodesTyped, OneName, Rules, WriteIsAllowed, PermIsByOwner, EntryIsAllowed, Ids

\* A command that changes several vnodes, each within the rules.
LEMMA WithinRules ==
    ASSUME Inv, NodesTyped', OneName', \A i \in Ids : nodes'[i] = nodes[i] \/ MayBecome(i, nodes'[i])
    PROVE  Rules
<1>1. WriteIsAllowed
  BY DEF WriteIsAllowed, MayBecome
<1>2. PermIsByOwner
  BY DEF PermIsByOwner, MayBecome
<1>3. EntryIsAllowed
  <2> SUFFICES ASSUME NEW d \in Dirs, ~ may_modify_dir(d)
               PROVE  Entries(d)' = Entries(d)
    BY DEF EntryIsAllowed
  <2>1. \A i \in Ids : /\ Lists(nodes'[i], d) <=> Lists(nodes[i], d)
                       /\ Lists(nodes'[i], d) => nodes'[i].name = nodes[i].name
    BY DEF MayBecome
  <2> QED
    BY <2>1, ListingKept
<1> QED
  BY <1>1, <1>2, <1>3 DEF Rules

LEMMA OneChanged ==
    ASSUME Inv, NEW k \in Ids, NEW v, v = [f \in NodeFields |-> v[f]],
           nodes' = [nodes EXCEPT ![k] = v], Fresh(k, v), MayBecome(k, v)
    PROVE  NodesTyped' /\ OneName' /\ Rules
<1>1. /\ DOMAIN nodes' = Ids /\ nodes'[k] = v /\ \A j \in Ids : j # k => nodes'[j] = nodes[j]
      /\ nodes' = [j \in Ids |-> nodes'[j]]
  BY DEF Inv, NodesTyped
<1>2. NodesTyped'
  BY <1>1 DEF Inv, NodesTyped, Ids
<1>3. OneName'
  <2> SUFFICES ASSUME NEW i \in Ids, NEW j \in Ids, nodes'[i].there, nodes'[j].there,
                      nodes'[i].dir = nodes'[j].dir, nodes'[i].name = nodes'[j].name
               PROVE  i = j
    BY DEF OneName, Ids
  <2>1. CASE i # k /\ j # k
    BY <1>1, <2>1 DEF Inv, OneName
  <2>2. CASE i = k \/ j = k
    BY <1>1, <2>2 DEF Fresh
  <2> QED
    BY <2>1, <2>2
<1>4. \A i \in Ids : nodes'[i] = nodes[i] \/ MayBecome(i, nodes'[i])
  BY <1>1
<1> QED
  BY <1>2, <1>3, <1>4, WithinRules

LEMMA TouchKeepsRules ==
    ASSUME Inv, NEW d \in Dirs, NEW name \in Names, Create(d, name)
    PROVE  NodesTyped' /\ OneName' /\ Rules
<1>1. PICK k \in Ids, x \in Data :
        /\ ~ nodes[k].there
        /\ nodes' = [nodes EXCEPT ![k] = [there |-> TRUE, dir |-> d, name |-> name, data |-> x,
                        uid |-> uid, gid |-> current_gid, mode |-> MODE_FILE]]
  BY Zenon DEF Create
<1>2. PICK v : v = [there |-> TRUE, dir |-> d, name |-> name, data |-> x,
                    uid |-> uid, gid |-> current_gid, mode |-> MODE_FILE]
  BY Zenon
<1>3. v = [f \in NodeFields |-> v[f]] /\ v.there /\ v.dir = d /\ v.name = name
  BY <1>2 DEF NodeFields
<1>4. Fresh(k, v)
  BY <1>3 DEF Fresh, Create, Named
<1>5. MayBecome(k, v)
  BY <1>1, <1>3 DEF MayBecome, Lists, Create
<1> QED
  BY Zenon, <1>1, <1>2, <1>3, <1>4, <1>5, OneChanged

\* A vnode whose place in its directory stays as it is.
LEMMA InPlaceKeepsRules ==
    ASSUME Inv, NEW k \in Ids, NEW v, v = [f \in NodeFields |-> v[f]],
           nodes' = [nodes EXCEPT ![k] = v],
           v.there = nodes[k].there, v.dir = nodes[k].dir, v.name = nodes[k].name,
           v.data # nodes[k].data => allowed(nodes[k], {W}),
           v.mode # nodes[k].mode => is_root \/ nodes[k].uid = uid,
           v.uid # nodes[k].uid => is_root
    PROVE  NodesTyped' /\ OneName' /\ Rules
<1>1. Fresh(k, v)
  BY Zenon DEF Inv, OneName, Fresh
<1>2. MayBecome(k, v)
  BY DEF MayBecome, Lists
<1> QED
  BY <1>1, <1>2, OneChanged

LEMMA RmKeepsRules ==
    ASSUME Inv, NEW k \in Ids, cmd_rm(k)
    PROVE  NodesTyped' /\ OneName' /\ Rules
<1>1. PICK v : v = [nodes[k] EXCEPT !.there = FALSE, !.dir = "gone"]
  OBVIOUS
<1>2. nodes[k] = [f \in NodeFields |-> nodes[k][f]]
  BY DEF Inv, NodesTyped
<1>3. v = [f \in NodeFields |-> v[f]] /\ ~ v.there
  BY Zenon, <1>1, <1>2 DEF NodeFields
<1>4. nodes' = [nodes EXCEPT ![k] = v]
  BY Zenon, <1>1 DEF cmd_rm, Gone, Inv, NodesTyped
<1>5. Fresh(k, v) /\ MayBecome(k, v)
  BY <1>3 DEF Fresh, MayBecome, Lists, cmd_rm
<1> QED
  BY <1>3, <1>4, <1>5, OneChanged

LEMMA ChmodKeepsRules ==
    ASSUME Inv, NEW k \in Ids, NEW m, cmd_chmod(k, m)
    PROVE  NodesTyped' /\ OneName' /\ Rules
<1>1. PICK v : v = [nodes[k] EXCEPT !.mode = m]
  BY Zenon
<1>2. nodes[k] = [f \in NodeFields |-> nodes[k][f]]
  BY DEF Inv, NodesTyped
<1>3. /\ v = [f \in NodeFields |-> v[f]]
      /\ v.there = nodes[k].there /\ v.dir = nodes[k].dir /\ v.name = nodes[k].name
      /\ v.data = nodes[k].data /\ v.uid = nodes[k].uid
  BY <1>1, <1>2 DEF NodeFields
<1>4. nodes' = [nodes EXCEPT ![k] = v] /\ (is_root \/ nodes[k].uid = uid)
  BY <1>1 DEF cmd_chmod, Inv, NodesTyped
<1> QED
  BY <1>3, <1>4, InPlaceKeepsRules

LEMMA ChownKeepsRules ==
    ASSUME Inv, NEW k \in Ids, NEW name, cmd_chown(name, k)
    PROVE  NodesTyped' /\ OneName' /\ Rules
<1>1. PICK v : v = [nodes[k] EXCEPT !.uid = user_by_name(name).uid, !.gid = user_by_name(name).gid]
  OBVIOUS
<1>2. nodes[k] = [f \in NodeFields |-> nodes[k][f]]
  BY DEF Inv, NodesTyped
<1>3. /\ v = [f \in NodeFields |-> v[f]]
      /\ v.there = nodes[k].there /\ v.dir = nodes[k].dir /\ v.name = nodes[k].name
      /\ v.data = nodes[k].data /\ v.mode = nodes[k].mode
  BY Zenon, <1>1, <1>2 DEF NodeFields
<1>4. nodes' = [nodes EXCEPT ![k] = v] /\ is_root
  BY Zenon, <1>1 DEF cmd_chown, Inv, NodesTyped
<1> QED
  BY <1>3, <1>4, InPlaceKeepsRules

LEMMA SaveKeepsRules ==
    ASSUME Inv, file_id \in Ids, NEW x, save(x)
    PROVE  NodesTyped' /\ OneName' /\ Rules
<1>1. PICK v : v = [nodes[file_id] EXCEPT !.data = x]
  BY Zenon
<1>2. nodes[file_id] = [f \in NodeFields |-> nodes[file_id][f]]
  BY DEF Inv, NodesTyped
<1>3. /\ v = [f \in NodeFields |-> v[f]]
      /\ v.there = nodes[file_id].there /\ v.dir = nodes[file_id].dir
      /\ v.name = nodes[file_id].name
      /\ v.mode = nodes[file_id].mode /\ v.uid = nodes[file_id].uid
  BY <1>1, <1>2 DEF NodeFields
<1>4. nodes' = [nodes EXCEPT ![file_id] = v] /\ allowed(nodes[file_id], {W})
  BY <1>1 DEF save, Inv, NodesTyped
<1> QED
  BY Zenon, <1>3, <1>4, InPlaceKeepsRules

LEMMA MvKeepsRules ==
    ASSUME Inv, NEW i \in Ids, NEW d \in Dirs, NEW name \in Names, cmd_mv(i, d, name)
    PROVE  NodesTyped' /\ OneName' /\ Rules
<1>1. /\ nodes[i].there /\ may_modify_dir(nodes[i].dir) /\ may_modify_dir(d)
      /\ Named(d, name) = {} /\ nodes[i] = [f \in NodeFields |-> nodes[i][f]]
  BY DEF cmd_mv, MoveTo, Inv, NodesTyped
<1>2. \A j \in Ids : nodes[j].there => ~ (nodes[j].dir = d /\ nodes[j].name = name)
  BY <1>1 DEF Named
<1>3. CASE nodes[i].dir = d
  <2>1. PICK v : v = [nodes[i] EXCEPT !.name = name]
    BY Zenon
  <2>2. /\ v = [f \in NodeFields |-> v[f]]
        /\ v.there = nodes[i].there /\ v.dir = d /\ v.name = name
        /\ v.data = nodes[i].data /\ v.mode = nodes[i].mode /\ v.uid = nodes[i].uid
    BY Zenon, <1>1, <1>3, <2>1 DEF NodeFields
  <2>3. nodes' = [nodes EXCEPT ![i] = v]
    BY <1>3, <2>1 DEF cmd_mv, MoveTo, Inv, NodesTyped
  <2>4. Fresh(i, v) /\ MayBecome(i, v)
    BY <1>1, <1>2, <1>3, <2>2 DEF Fresh, MayBecome, Lists
  <2> QED
    BY <2>2, <2>3, <2>4, OneChanged
<1>4. CASE nodes[i].dir # d
  <2>1. PICK k \in Ids :
          /\ ~ nodes[k].there
          /\ nodes' = [Gone(i) EXCEPT ![k] =
                [nodes[i] EXCEPT !.dir = d, !.name = name, !.uid = uid, !.gid = current_gid]]
    BY <1>4 DEF cmd_mv, MoveTo
  <2>2. PICK v : v = [nodes[i] EXCEPT !.dir = d, !.name = name, !.uid = uid, !.gid = current_gid]
    OBVIOUS
  <2>3. PICK g : g = [nodes[i] EXCEPT !.there = FALSE, !.dir = "gone"]
    OBVIOUS
  <2>4. /\ v = [f \in NodeFields |-> v[f]] /\ v.dir = d /\ v.name = name
        /\ g = [f \in NodeFields |-> g[f]] /\ ~ g.there
    BY Zenon, <1>1, <2>2, <2>3 DEF NodeFields
  <2>5. k # i
    BY <1>1, <2>1
  <2>6. Gone(i) = [nodes EXCEPT ![i] = g]
    BY Zenon, <2>3 DEF Gone, Inv, NodesTyped
  <2>7. nodes' = [[nodes EXCEPT ![i] = g] EXCEPT ![k] = v]
    BY <2>1, <2>2, <2>6
  <2>8. /\ nodes' = [j \in Ids |-> nodes'[j]] /\ nodes'[k] = v /\ nodes'[i] = g
        /\ \A j \in Ids : j # k /\ j # i => nodes'[j] = nodes[j]
    BY Zenon, <2>5, <2>7 DEF Inv, NodesTyped
  <2>9. NodesTyped'
    BY <2>4, <2>8 DEF NodesTyped, Inv, Ids
  <2>10. OneName'
    <3> SUFFICES ASSUME NEW a \in Ids, NEW b \in Ids, nodes'[a].there, nodes'[b].there,
                        nodes'[a].dir = nodes'[b].dir, nodes'[a].name = nodes'[b].name
                 PROVE  a = b
      BY DEF OneName, Ids
    <3>1. a # i /\ b # i
      BY <2>4, <2>8
    <3>2. CASE a # k /\ b # k
      BY <2>8, <3>1, <3>2 DEF Inv, OneName
    <3>3. CASE a = k \/ b = k
      BY <1>2, <2>4, <2>8, <3>1, <3>3
    <3> QED
      BY <3>2, <3>3
  <2>11. MayBecome(k, v) /\ MayBecome(i, g)
    BY <1>1, <2>1, <2>4 DEF MayBecome, Lists
  <2>12. \A j \in Ids : nodes'[j] = nodes[j] \/ MayBecome(j, nodes'[j])
    BY <2>8, <2>11
  <2> QED
    BY <2>9, <2>10, <2>12, WithinRules
<1> QED
  BY <1>3, <1>4

LEMMA StepsKeepRules ==
    ASSUME FIELD_MAX \in Nat, COLS \in Nat \ {0}, Inv, Next
    PROVE  Inv' /\ Rules
<1> DEFINE Good == Inv' /\ Rules
<1>1. ASSUME NodesTyped', OneName', Rules, Same, UNCHANGED login, TermTyped', FileKnown'
      PROVE  Good
  <2>1. LoginTyped'
    BY <1>1 DEF Inv, LoginTyped
  <2>2. UsersNumbered' /\ RunsAsProven'
    BY <1>1, StillProven
  <2> QED
    BY <1>1, <2>1, <2>2 DEF Inv
<1>2. UNCHANGED term => TermTyped'
  BY DEF Inv, TermTyped
<1>3. UNCHANGED file_id => FileKnown'
  BY DEF Inv, FileKnown, Ids
<1>4. Command => Same /\ UNCHANGED login
  BY DEF Command, Same
<1>5. ASSUME (\E c \in Chars : login_char(c)) \/ login_backspace \/ login_tab PROVE Good
  <2>1. LoginTyped' /\ Same /\ login'.up = login.up /\ UNCHANGED <<nodes, term>>
    BY <1>5, LoginEdits
  <2>2. UNCHANGED file_id
    BY <1>5 DEF login_char, login_backspace, login_tab, LoginKey
  <2>3. UsersNumbered' /\ RunsAsProven'
    BY <2>1, StillProven
  <2> QED
    BY <1>2, <1>3, <2>1, <2>2, <2>3, NothingChanged DEF Inv
<1>6. ASSUME login_enter PROVE Good
  <2>1. LoginTyped' /\ RunsAsProven' /\ UNCHANGED <<users, nodes, term, file_id>>
    BY <1>6, LoginEnters DEF login_enter
  <2>2. UsersNumbered'
    BY <2>1 DEF Inv, UsersNumbered
  <2> QED
    BY <1>2, <1>3, <2>1, <2>2, NothingChanged DEF Inv
<1>7. ASSUME (\E c \in Chars : input_char(c)) \/ input_backspace PROVE Good
  <2>1. TermTyped' /\ Same /\ UNCHANGED <<nodes, login, file_id>>
    BY <1>7, PromptKeys DEF input_char, input_backspace, TermKey
  <2> QED
    BY <1>1, <1>3, <2>1, NothingChanged
<1>8. ASSUME input_enter PROVE Good
  <2>1. TermTyped' /\ RunsAsProven' /\ UNCHANGED <<users, nodes, login, file_id>>
    BY <1>8, PromptEnters DEF input_enter
  <2>2. UsersNumbered' /\ LoginTyped'
    BY <2>1 DEF Inv, UsersNumbered, LoginTyped
  <2> QED
    BY <1>3, <2>1, <2>2, NothingChanged DEF Inv
<1>9. ASSUME NEW n, cmd_su(n) PROVE Good
  <2>1. term' = [secret |-> TRUE, user |-> n, cells |-> <<>>] /\ UNCHANGED <<nodes, file_id>>
        /\ Same /\ UNCHANGED login
    BY <1>4, <1>9 DEF cmd_su
  <2>2. TermTyped'
    BY <2>1 DEF TermTyped
  <2> QED
    BY <1>1, <1>3, <2>1, <2>2, NothingChanged
<1>10. ASSUME NEW d \in Dirs, NEW n \in Names, cmd_touch(d, n) PROVE Good
  BY <1>1, <1>2, <1>3, <1>4, <1>10, TouchKeepsRules DEF cmd_touch
<1>11. ASSUME NEW i \in Ids, cmd_rm(i) PROVE Good
  BY <1>1, <1>2, <1>3, <1>4, <1>11, RmKeepsRules DEF cmd_rm
<1>12. ASSUME NEW i \in Ids, open_file(i) PROVE Good
  <2>1. Same /\ UNCHANGED <<login, nodes, term>> /\ file_id' = i
    BY <1>4, <1>12 DEF open_file
  <2>2. FileKnown'
    BY <2>1 DEF FileKnown, Ids
  <2> QED
    BY <1>1, <1>2, <2>1, <2>2, NothingChanged
<1>13. ASSUME NEW i \in Ids, NEW d \in Dirs, NEW n \in Names, cmd_mv(i, d, n) PROVE Good
  BY <1>1, <1>2, <1>3, <1>4, <1>13, MvKeepsRules DEF cmd_mv
<1>14. ASSUME NEW i \in Ids, NEW m \in Modes, cmd_chmod(i, m) PROVE Good
  BY Zenon, <1>1, <1>2, <1>3, <1>4, <1>14, ChmodKeepsRules DEF cmd_chmod
<1>15. ASSUME NEW d \in Dirs, NEW m \in Modes, cmd_chmod_dir(d, m) PROVE Good
  BY <1>1, <1>2, <1>3, <1>4, <1>15, NothingChanged DEF cmd_chmod_dir
<1>16. ASSUME NEW n, NEW i \in Ids, cmd_chown(n, i) PROVE Good
  BY Zenon, <1>1, <1>2, <1>3, <1>4, <1>16, ChownKeepsRules DEF cmd_chown
<1>17. ASSUME NEW x \in Data, save(x) PROVE Good
  <2>1. file_id \in Ids
    BY <1>17 DEF save, Inv, FileKnown
  <2> QED
    BY Zenon, <1>1, <1>2, <1>3, <1>4, <1>17, <2>1, SaveKeepsRules DEF save
<1> QED
  BY <1>5, <1>6, <1>7, <1>8, <1>9, <1>10, <1>11, <1>12, <1>13, <1>14, <1>15, <1>16, <1>17 DEF Next

LEMMA InvIsSafe == Inv => TypeOK /\ RunsAsProven
<1> SUFFICES ASSUME Inv PROVE TypeOK
  BY DEF Inv
<1>1. ASSUME NEW d \in Dirs, NEW n \in Names PROVE Cardinality(Named(d, n)) <= 1
  <2>1. \A i, j \in Named(d, n) : i = j
    BY DEF Inv, OneName, Named
  <2>2. CASE Named(d, n) = {}
    BY <2>2, FS_EmptySet
  <2>3. CASE Named(d, n) # {}
    <3>1. PICK x : x \in Named(d, n)
      BY <2>3
    <3>2. Named(d, n) = {x}
      BY <2>1, <3>1
    <3>3. Cardinality({x}) = 1
      BY FS_Singleton
    <3> QED
      BY <3>2, <3>3
  <2> QED
    BY <2>2, <2>3
<1> QED
  BY <1>1 DEF Inv, LoginTyped, TermTyped, TypeOK

\* The session runs as the account that last gave its password, and data,
\* modes, owners and listings change only by a user who may change them at
\* that moment: login.rs, finish_su, save, cmd_chmod, cmd_chown and every
\* command behind may_modify_dir, in any order and with any account files.
THEOREM AccessIsKept ==
    ASSUME FIELD_MAX \in Nat, COLS \in Nat \ {0}
    PROVE  Spec => AccessKept
<1>1. Init => Inv
  BY StartsRight
<1>2. Inv /\ [Next]_vars => Inv'
  <2>1. ASSUME Inv, UNCHANGED vars PROVE Inv'
    BY Zenon, <2>1 DEF Inv, vars, NodesTyped, OneName, TermTyped, LoginTyped, UsersNumbered, FileKnown,
                RunsAsProven, AccountNames, Ids
  <2> QED
    BY <2>1, StepsKeepRules
<1>3. Inv /\ [Next]_vars => [WriteIsAllowed /\ PermIsByOwner /\ EntryIsAllowed]_vars
  BY StepsKeepRules DEF Rules
<1> QED
  BY <1>1, <1>2, <1>3, InvIsSafe, PTL DEF Spec, AccessKept
=============================================================================
