------------------------------- MODULE MCDesk -------------------------------
(***************************************************************************)
(* What the user of the machine touches: the keyboard and mouse (Input),   *)
(* the session (Session) and the windows (Desktop).  These modules share   *)
(* no state, so a behaviour follows one of them and the others stay as     *)
(* they booted.                                                            *)
(*                                                                         *)
(* Input: three keys and two mouse packets on a screen of four by three    *)
(* cells.  Session: root and one user; /etc/shadow may be edited to hold a *)
(* password of stars, or a field that does not parse.  Desktop: terminal,  *)
(* files and editor on a screen of five columns.                           *)
(***************************************************************************)
EXTENDS Desktop

CONSTANTS
    MAX_USERS, FIELD_MAX, COLS, Chars, Star, MaxNode, MaxKeys, MaxCommands,
    QUEUE_SIZE, DRAIN, ScreenW, ScreenH, SAVE_W, SAVE_H, BootEvents, Events

VARIABLES
    who,                                                               \* which of the three moves
    users, uid, nodes, dirs, login, term, file_id, quota, proof,       \* Session
    pc, n, ctl, irr, dev, kb, ms, screen, saved, loop, user            \* Input

inputVars == <<pc, n, ctl, irr, dev, kb, ms, screen, saved, loop, user>>
sessionVars == <<users, uid, nodes, dirs, login, term, file_id, quota, proof>>

MCPlace == [a \in 0 .. 2 |-> [x |-> a, w |-> 4]]
MCKeyOpens == {<<0, 2>>, <<1, 2>>}
MCClickOpens == {<<1, 2>>}

Root == <<"r">>
User == <<"u">>
MCBroken == <<"-">>
MCPasswds ==
    {<<[name |-> Root, uid |-> 0, gid |-> 0], [name |-> User, uid |-> 1, gid |-> 1]>>,
     <<[name |-> <<>>, uid |-> 0, gid |-> 0], [name |-> Root, uid |-> -1, gid |-> -1],
       [name |-> User, uid |-> 1, gid |-> 1]>>}
Line(name, h) == [name |-> name, hash |-> h]
MCShadowOf ==
    [plain |-> <<Line(Root, Root), Line(User, User)>>,
     stars |-> <<Line(Root, Root), Line(User, <<Star>>)>>,
     broken |-> <<Line(Root, MCBroken), Line(Root, Root), Line(User, User)>>]
All == {"r", "w", "x"}
MCModes ==
    {[owner |-> {"r", "w"}, group |-> {"r"}, other |-> {"r"}],
     [owner |-> All, group |-> All, other |-> All]}

S == INSTANCE Session WITH
        Passwds <- MCPasswds, Broken <- MCBroken, Data <- DOMAIN MCShadowOf,
        ShadowOf <- MCShadowOf, Modes <- MCModes

\* The letter A, left shift and cursor up; right with the left button, and left
\* and down with deltas that have bit 3 set; a firmware that leaves interrupts
\* and clocks on, and one that leaves everything off.
Cfgs == {69, 116}
K == INSTANCE Input WITH W <- ScreenW, H <- ScreenH,
        Keys <- {<<30>>, <<42>>, <<224, 72>>}, Packets <- {<<9, 2, 0>>, <<56, 255, 254>>},
        CURSOR <- {<<0, 0>>, <<1, 1>>}, FirmwareCfg <- Cfgs

MCInit ==
    /\ Init /\ S!Init /\ K!Init
    /\ who \in {"desktop", "session", "input"}
    /\ who # "input" => ctl.cfg = 69 /\ dev.mouse
    /\ who # "session" => Len(users) = 2 /\ users[1].uid = 0 /\ nodes[1].data = "plain"

MCNext ==
    /\ UNCHANGED who
    /\ \/ who = "desktop" /\ Next /\ UNCHANGED <<sessionVars, inputVars>>
       \/ who = "session" /\ S!Next /\ UNCHANGED <<vars, inputVars>>
       \/ who = "input" /\ K!Next /\ UNCHANGED <<vars, sessionVars>>

MCSpec == MCInit /\ [][MCNext]_<<vars, sessionVars, inputVars, who>> /\ K!Fairness

\* Input!KeysTrue: the applications get the keys that were meant, in order, and
\* nothing else (push, decode, selftest).
KeysTrue == K!KeysTrue

\* Input!MouseTrue: the pointer is where the mouse says, and only there, and the
\* shell has seen the buttons (assemble, save, restore).
MouseTrue == K!MouseTrue

\* Input!KeysArrive: every key typed reaches the applications or found the queue
\* full (input_loop).
KeysArrive == K!KeysArrive

\* Session!AccessKept: the uid is that of the account that last gave its password
\* (login::run, finish_su), and data, modes, owners and listings change only by
\* a user who at that moment may change them (save, cmd_chmod, cmd_chown,
\* may_modify_dir).
AccessKept == S!AccessKept
=============================================================================
