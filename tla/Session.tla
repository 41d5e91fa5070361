------------------------------ MODULE Session ------------------------------
(***************************************************************************)
(* Accounts, the login screen, su and the permission checks                *)
(* (fs/perm.rs, wm/login.rs and the commands of apps/terminal.rs,          *)
(* apps/filemgr.rs and apps/editor.rs that ask for a right).               *)
(*                                                                         *)
(* A name, a password and a line on the screen are sequences of            *)
(* characters.  The tree is reduced to two directories and the files in    *)
(* them; a file's data is one of Data, and ShadowOf says how a piece of    *)
(* data reads as /etc/shadow.  A hash stands for the password it was made  *)
(* from (sha256 is taken to be injective); Broken is a field that does not *)
(* parse.                                                                  *)
(***************************************************************************)
EXTENDS Integers, Sequences, FiniteSets

CONSTANTS
    Passwds,       \* what /etc/passwd may hold at boot: sequences of lines
    MAX_USERS, FIELD_MAX, COLS,
    Chars,         \* characters that can be typed
    Star, Broken,
    Data, ShadowOf,
    Modes,         \* modes chmod is given
    MaxNode, MaxKeys, MaxCommands   \* bounds: vnodes, keys at the login screen, commands

VARIABLES
    users,     \* USERS: the accounts
    uid,       \* CURRENT_UID
    nodes,     \* the files: their directory, name, owner, mode and data
    dirs,      \* the directories: owner and mode
    login,     \* the login screen: up or not, its two fields
    term,      \* the terminal's line: SECRET, PENDING_USER, the cells
    file_id,   \* the editor's FILE_ID
    quota,     \* bounds: keys and commands left
    proof      \* history: the account that last gave its password

vars == <<users, uid, nodes, dirs, login, term, file_id, quota, proof>>

Dirs == {"etc", "home"}
Names == {"shadow", "note"}
Ids == 1 .. MaxNode
UID_ROOT == 0
Bad == -1              \* a number that does not parse
R == "r"
W == "w"
X == "x"
Mode(o, g, a) == [owner |-> o, group |-> g, other |-> a]
MODE_FILE == Mode({R, W}, {R}, {R})
MODE_DIR == Mode({R, W, X}, {R, X}, {R, X})
MODE_SECRET == Mode({R, W}, {}, {})
Nobody == [name |-> <<>>, uid |-> UID_ROOT, gid |-> UID_ROOT]

(***************************************************************************)
(* perm.rs                                                                 *)
(***************************************************************************)
parse_u32(s) == IF s = Bad THEN UID_ROOT ELSE s

\* Blank lines and comments have no name; at most MAX_USERS accounts.
load_from_passwd(lines) ==
    LET named == SelectSeq(lines, LAMBDA l : l.name # <<>>)
        n == IF Len(named) < MAX_USERS THEN Len(named) ELSE MAX_USERS
    IN [i \in 1 .. n |-> [named[i] EXCEPT !.uid = parse_u32(@), !.gid = parse_u32(@)]]

Matches(field, v) == {i \in DOMAIN users : users[i][field] = v}

\* The first account that matches.
First(S) == users[CHOOSE i \in S : \A j \in S : i <= j]

user_by_name(name) == First(Matches("name", name))

user_by_uid(u) == First(Matches("uid", u))

current_gid == IF Matches("uid", uid) = {} THEN UID_ROOT ELSE user_by_uid(uid).gid

is_root == uid = UID_ROOT

set_current_uid(u) == uid' = IF Matches("uid", u) = {} THEN uid ELSE u

class_bits(p, u, g) ==
    IF u = p.uid THEN p.mode.owner ELSE IF g = p.gid THEN p.mode.group ELSE p.mode.other

allowed(p, want) == is_root \/ want \subseteq class_bits(p, uid, current_gid)

may_modify_dir(d) == allowed(dirs[d], {W, X})

Named(d, name) == {i \in Ids : nodes[i].there /\ nodes[i].dir = d /\ nodes[i].name = name}

\* The line of the account in /etc/shadow, as it is now, decides.
verify_password(name, pw) ==
    \E i \in Named("etc", "shadow") :
        LET text == ShadowOf[nodes[i].data]
            mine == {k \in DOMAIN text : text[k].name = name}
            line == text[CHOOSE k \in mine : \A j \in mine : k <= j]
        IN mine # {} /\ line.hash # Broken /\ line.hash = pw

\* The account files of a fresh system, or those of the disk that was mounted.
install_defaults ==
    /\ dirs = [d \in Dirs |-> [uid |-> UID_ROOT, gid |-> UID_ROOT, mode |-> MODE_DIR]]
    /\ \E first \in Data :
         nodes = [i \in Ids |->
           [there |-> i <= 2, dir |-> IF i = 1 THEN "etc" ELSE "home",
            name |-> IF i = 1 THEN "shadow" ELSE "note", data |-> first,
            uid |-> UID_ROOT, gid |-> UID_ROOT,
            mode |-> IF i = 1 THEN MODE_SECRET ELSE MODE_FILE]]

(***************************************************************************)
(* login.rs                                                                *)
(***************************************************************************)
Field == login.field
Shorter(s) == SubSeq(s, 1, Len(s) - 1)

LoginKey(new) ==
    /\ login.up /\ quota.keys > 0
    /\ quota' = [quota EXCEPT !.keys = @ - 1]
    /\ login' = new
    /\ UNCHANGED <<users, uid, nodes, dirs, term, file_id, proof>>

login_char(c) ==
    LoginKey(IF Len(login[Field]) < FIELD_MAX THEN [login EXCEPT ![Field] = Append(@, c)]
             ELSE login)

login_backspace ==
    LoginKey(IF login[Field] # <<>> THEN [login EXCEPT ![Field] = Shorter(@)] ELSE login)

login_tab == LoginKey([login EXCEPT !.field = IF @ = "user" THEN "pass" ELSE "user"])

Accepted(name, pw) == name # <<>> /\ verify_password(name, pw) /\ Matches("name", name) # {}

\* A failed attempt waits, then forgets the password; a good one starts the
\* session.
try_login ==
    /\ IF Accepted(login.user, login.pass)
       THEN /\ set_current_uid(user_by_name(login.user).uid)
            /\ login' = [login EXCEPT !.up = FALSE]
            /\ proof' = user_by_name(login.user)
       ELSE /\ login' = [login EXCEPT !.pass = <<>>]
            /\ UNCHANGED <<uid, proof>>

login_enter ==
    /\ login.up /\ quota.keys > 0
    /\ quota' = [quota EXCEPT !.keys = @ - 1]
    /\ IF Field = "user" THEN login' = [login EXCEPT !.field = "pass"] /\ UNCHANGED <<uid, proof>>
       ELSE try_login
    /\ UNCHANGED <<users, nodes, dirs, term, file_id>>

(***************************************************************************)
(* The terminal's line.  A typed character is put into the cells of the    *)
(* screen; Enter reads the line back from them.                            *)
(***************************************************************************)
TermKey(cells) ==
    /\ ~login.up /\ term.secret
    /\ term' = [term EXCEPT !.cells = cells]
    /\ UNCHANGED <<users, uid, nodes, dirs, login, file_id, quota, proof>>

input_char(c) ==
    /\ Len(term.cells) + 1 < COLS
    /\ TermKey(Append(term.cells, IF term.secret THEN Star ELSE c))

input_backspace ==
    /\ term.cells # <<>>
    /\ TermKey(Shorter(term.cells))

finish_su(name, pw) ==
    IF verify_password(name, pw) /\ Matches("name", name) # {}
    THEN /\ set_current_uid(user_by_name(name).uid)
         /\ proof' = user_by_name(name)
    ELSE UNCHANGED <<uid, proof>>

\* Enter at the password prompt; an empty line asks nothing.
input_enter ==
    /\ ~login.up /\ term.secret
    /\ IF term.cells = <<>> THEN UNCHANGED <<uid, proof>> ELSE finish_su(term.user, term.cells)
    /\ term' = [term EXCEPT !.secret = FALSE, !.cells = <<>>]
    /\ UNCHANGED <<users, nodes, dirs, login, file_id, quota>>

(***************************************************************************)
(* Commands of the terminal, and what the file manager and the editor do.  *)
(* The terminal takes none while it asks for a password.                   *)
(***************************************************************************)
Command ==
    /\ ~login.up /\ quota.commands > 0
    /\ quota' = [quota EXCEPT !.commands = @ - 1]
    /\ UNCHANGED <<users, uid, login, proof>>

cmd_su(name) ==
    /\ Command /\ ~term.secret
    /\ Matches("name", name) # {}
    /\ term' = [secret |-> TRUE, user |-> name, cells |-> <<>>]
    /\ UNCHANGED <<nodes, dirs, file_id>>

\* cmd_touch, and the file manager's new file.
Create(d, name) ==
    /\ may_modify_dir(d) /\ Named(d, name) = {}
    /\ \E i \in Ids :
        /\ ~nodes[i].there /\ \A j \in 1 .. i - 1 : nodes[j].there \/ nodes[j].dir = "gone"
        /\ nodes[i].dir # "gone"
        /\ \E v \in Data :
             nodes' = [nodes EXCEPT ![i] = [there |-> TRUE, dir |-> d, name |-> name, data |-> v,
                          uid |-> uid, gid |-> current_gid, mode |-> MODE_FILE]]

cmd_touch(d, name) == Command /\ Create(d, name) /\ UNCHANGED <<dirs, term, file_id>>

Gone(i) == [nodes EXCEPT ![i].there = FALSE, ![i].dir = "gone"]

\* cmd_rm, and the file manager's delete.
cmd_rm(i) ==
    /\ Command
    /\ nodes[i].there /\ may_modify_dir(nodes[i].dir)
    /\ nodes' = Gone(i)
    /\ UNCHANGED <<dirs, term, file_id>>

\* Within a directory the node is renamed; across, a new one takes its data
\* and its mode and the mover owns it.
MoveTo(i, d, name) ==
    /\ Named(d, name) = {}
    /\ IF nodes[i].dir = d THEN nodes' = [nodes EXCEPT ![i].name = name]
       ELSE \E k \in Ids :
            /\ ~nodes[k].there /\ nodes[k].dir # "gone"
            /\ \A j \in 1 .. k - 1 : nodes[j].there \/ nodes[j].dir = "gone"
            /\ nodes' = [Gone(i) EXCEPT ![k] =
                  [nodes[i] EXCEPT !.dir = d, !.name = name, !.uid = uid, !.gid = current_gid]]

cmd_mv(i, d, name) ==
    /\ Command /\ ~term.secret
    /\ nodes[i].there /\ may_modify_dir(nodes[i].dir) /\ may_modify_dir(d)
    /\ MoveTo(i, d, name)
    /\ UNCHANGED <<dirs, term, file_id>>

cmd_chmod(i, m) ==
    /\ Command /\ ~term.secret
    /\ nodes[i].there /\ (is_root \/ nodes[i].uid = uid)
    /\ nodes' = [nodes EXCEPT ![i].mode = m]
    /\ UNCHANGED <<dirs, term, file_id>>

cmd_chmod_dir(d, m) ==
    /\ Command /\ ~term.secret
    /\ is_root \/ dirs[d].uid = uid
    /\ dirs' = [dirs EXCEPT ![d].mode = m]
    /\ UNCHANGED <<nodes, term, file_id>>

cmd_chown(name, i) ==
    /\ Command /\ ~term.secret
    /\ is_root /\ Matches("name", name) # {} /\ nodes[i].there
    /\ nodes' = [nodes EXCEPT ![i].uid = user_by_name(name).uid, ![i].gid = user_by_name(name).gid]
    /\ UNCHANGED <<dirs, term, file_id>>

\* cmd_edit, and opening a file from the file manager: reading is enough.
open_file(i) ==
    /\ Command
    /\ nodes[i].there /\ allowed(nodes[i], {R})
    /\ file_id' = i
    /\ UNCHANGED <<nodes, dirs, term>>

save_opened(v) ==                   \* mutant: the right was checked when it was opened
    /\ Command
    /\ file_id # 0 /\ nodes[file_id].there
    /\ nodes' = [nodes EXCEPT ![file_id].data = v]
    /\ UNCHANGED <<dirs, term, file_id>>

save(v) ==
    /\ Command
    /\ file_id # 0 /\ nodes[file_id].there /\ allowed(nodes[file_id], {W})
    /\ nodes' = [nodes EXCEPT ![file_id].data = v]
    /\ UNCHANGED <<dirs, term, file_id>>

Init ==
    /\ \E lines \in Passwds : users = load_from_passwd(lines)
    /\ install_defaults
    /\ uid = UID_ROOT
    /\ login = [up |-> TRUE, field |-> "user", user |-> <<>>, pass |-> <<>>]
    /\ term = [secret |-> FALSE, user |-> <<>>, cells |-> <<>>]
    /\ file_id = 0
    /\ quota = [keys |-> MaxKeys, commands |-> MaxCommands]
    /\ proof = Nobody

AccountNames == {users[i].name : i \in DOMAIN users}

Next ==
    \/ \E c \in Chars : login_char(c) \/ input_char(c)
    \/ login_backspace \/ login_tab \/ login_enter
    \/ input_backspace \/ input_enter
    \/ \E n \in AccountNames : cmd_su(n)
    \/ \E d \in Dirs, n \in Names : cmd_touch(d, n)
    \/ \E i \in Ids : cmd_rm(i) \/ open_file(i)
    \/ \E i \in Ids, d \in Dirs, n \in Names : cmd_mv(i, d, n)
    \/ \E i \in Ids, m \in Modes : cmd_chmod(i, m)
    \/ \E d \in Dirs, m \in Modes : cmd_chmod_dir(d, m)
    \/ \E n \in AccountNames, i \in Ids : cmd_chown(n, i)
    \/ \E v \in Data : save(v)

Spec == Init /\ [][Next]_vars

(***************************************************************************)
(* Properties.                                                             *)
(***************************************************************************)
\* The fields stay within their buffers, and no two files of a directory have
\* the same name.
TypeOK ==
    /\ Len(login.user) <= FIELD_MAX /\ Len(login.pass) <= FIELD_MAX
    /\ Len(term.cells) < COLS
    /\ \A d \in Dirs, n \in Names : Cardinality(Named(d, n)) <= 1

\* "the uid it returns is what the whole session then runs as" (main.rs), and
\* su switches only "if it is right" (finish_su): once the login screen is gone
\* the session's uid is that of the account that last gave its password.
RunsAsProven == ~login.up => uid = proof.uid /\ proof.name \in AccountNames

\* save: "Writing a file needs write permission on the file itself": whoever
\* opened it, its data changes only while the user of that moment may write it.
WriteIsAllowed ==
    nodes' # nodes => \A i \in Ids : nodes[i].there /\ nodes'[i].there /\ nodes'[i].data # nodes[i].data
        => allowed(nodes[i], {W})

\* cmd_chmod: "Only the owner (or root) may change a mode"; cmd_chown: "only
\* root can give files away".
PermIsByOwner ==
    nodes' # nodes => \A i \in Ids : nodes[i].there /\ nodes'[i].there =>
        /\ nodes'[i].mode # nodes[i].mode => is_root \/ nodes[i].uid = uid
        /\ nodes'[i].uid # nodes[i].uid => is_root

Entries(d) == {<<i, nodes[i].name>> : i \in {j \in Ids : nodes[j].there /\ nodes[j].dir = d}}

\* may_modify_dir: a directory's listing changes only by a user who may write
\* and search it, for both directories of a move.
EntryIsAllowed ==
    nodes' # nodes => \A d \in Dirs : Entries(d)' # Entries(d) => may_modify_dir(d)

\* The uid is that of the account that last gave its password (login::run,
\* finish_su), and data, modes, owners and listings change only by a user who
\* at that moment may change them (save, cmd_chmod, cmd_chown, may_modify_dir).
AccessKept ==
    /\ [](TypeOK /\ RunsAsProven)
    /\ [][WriteIsAllowed /\ PermIsByOwner /\ EntryIsAllowed]_vars
=============================================================================
