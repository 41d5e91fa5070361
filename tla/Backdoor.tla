------------------------------ MODULE Backdoor ------------------------------
(***************************************************************************)
(* The VMware backdoor (vmware/backdoor.rs) and the terminal's vmx command *)
(* (apps/terminal.rs): the tools channel, on which a command is sent in    *)
(* two calls and its answer polled for and acknowledged, and the host's    *)
(* clock, shown as a date.  The host answers when it likes, and any call   *)
(* may be refused.                                                         *)
(***************************************************************************)
EXTENDS Integers, Sequences, FiniteSets

CONSTANTS
    TRIES,        \* how often rpci_command polls
    RPC_BUF,
    Lengths,      \* how long a command or an answer may be
    Times,        \* what the host's clock may say; 0: it does not
                  \* know, UNSUPPORTED: it has no such command
    MaxCommands   \* bound: commands given

VARIABLES
    bd,       \* PRESENT, the channel and the counters
    rpc,      \* the command under way
    host,     \* the answers the host holds, the first one being offered
    shown     \* what the terminal showed last

bd_vars == <<bd, rpc, host, shown>>

Idle == [at |-> "idle", cmd |-> 0, tries |-> 0]
NoRx == [cmd |-> 0, ok |-> FALSE, len |-> 0]
Nothing == [what |-> "none", cmd |-> 0, got |-> NoRx, secs |-> 0, date |-> <<>>]

BdInit ==
    /\ bd = [up |-> FALSE, present |-> FALSE, open |-> FALSE, sent |-> 0, replies |-> 0,
             rx |-> NoRx, left |-> FALSE]
    /\ rpc = Idle
    /\ host = [answers |-> <<>>, owed |-> {}, heard |-> 0]
    /\ shown = Nothing

\* Nothing is tried unless CPUID names the hypervisor.
init(vmware, opens) ==
    /\ ~ bd.up
    /\ bd' = [bd EXCEPT !.up = TRUE, !.present = vmware, !.open = vmware /\ opens]
    /\ UNCHANGED <<rpc, host, shown>>

Refuses == shown' = [Nothing EXCEPT !.what = "no reply", !.cmd = rpc.cmd]

\* left: a command has been given up while the host still owes its answer.
GiveUp ==
    /\ rpc' = Idle
    /\ Refuses
    /\ bd' = [bd EXCEPT !.left = @ \/ rpc.cmd \in host.owed \/ host.answers # <<>>]

\* rpci_command on a closed channel, or with a command that does not fit.
rpci_refused(len) ==
    /\ bd.up /\ rpc.at = "idle" /\ host.heard < MaxCommands
    /\ ~ bd.open \/ len > RPC_BUF
    /\ shown' = [Nothing EXCEPT !.what = "no reply"]
    /\ host' = [host EXCEPT !.heard = @ + 1]
    /\ UNCHANGED <<bd, rpc>>

\* rpc_send: the length, then the bytes; either may fail.
rpc_send(len, length_ok, data_ok) ==
    /\ bd.open /\ rpc.at = "idle" /\ host.heard < MaxCommands /\ len <= RPC_BUF
    /\ LET cmd == host.heard + 1
           ok == length_ok /\ (len = 0 \/ data_ok)
       IN /\ host' = [host EXCEPT !.heard = cmd, !.owed = IF ok THEN @ \cup {cmd} ELSE @]
          /\ bd' = IF ok /\ len # 0 THEN [bd EXCEPT !.sent = @ + 1] ELSE bd
          /\ rpc' = IF ok THEN [at |-> "poll", cmd |-> cmd, tries |-> TRIES] ELSE Idle
          /\ shown' = IF ok THEN Nothing ELSE [Nothing EXCEPT !.what = "no reply", !.cmd = cmd]

\* The host has an answer to one of the commands it heard; it may be an error.
HostAnswers(cmd, ok, len) ==
    /\ cmd \in host.owed
    /\ host' = [host EXCEPT !.owed = @ \ {cmd},
                            !.answers = Append(@, [cmd |-> cmd, ok |-> ok, len |-> len])]
    /\ UNCHANGED <<bd, rpc, shown>>

\* rpc_pending with nothing waiting: one of the tries is used up.
poll_empty ==
    /\ rpc.at = "poll" /\ host.answers = <<>> /\ rpc.tries > 0
    /\ rpc' = [rpc EXCEPT !.tries = @ - 1]
    /\ UNCHANGED <<bd, host, shown>>

\* The host refuses the length or the data.
poll_refused ==
    /\ rpc.at = "poll" /\ rpc.tries > 0
    /\ GiveUp
    /\ UNCHANGED host

no_tries_left ==
    /\ rpc.at = "poll" /\ rpc.tries = 0
    /\ GiveUp
    /\ UNCHANGED host

Fit(n) == IF n < RPC_BUF THEN n ELSE RPC_BUF

\* rpc_receive: as much of the answer as fits is copied into RPC_RX.
rpc_receive ==
    /\ rpc.at = "poll" /\ rpc.tries > 0 /\ host.answers # <<>>
    /\ LET a == Head(host.answers)
       IN /\ a.len # 0
          /\ bd' = [bd EXCEPT !.rx = [a EXCEPT !.len = Fit(@)]]
    /\ rpc' = [rpc EXCEPT !.at = "end"]
    /\ UNCHANGED <<host, shown>>

\* An answer of no bytes looks like none.
receive_nothing ==
    /\ rpc.at = "poll" /\ rpc.tries > 0 /\ host.answers # <<>> /\ Head(host.answers).len = 0
    /\ rpc' = [rpc EXCEPT !.tries = @ - 1]
    /\ UNCHANGED <<bd, host, shown>>

\* GET_END: only then does the host go on to its next answer.
Acknowledge(h) == [h EXCEPT !.answers = Tail(@)]

\* rpci shows the reply if it starts with "1 ".
get_end ==
    /\ rpc.at = "end"
    /\ host' = Acknowledge(host)
    /\ bd' = [bd EXCEPT !.replies = @ + 1]
    /\ shown' = IF bd.rx.ok /\ bd.rx.len > 1
                THEN [Nothing EXCEPT !.what = "reply", !.cmd = rpc.cmd, !.got = bd.rx]
                ELSE [Nothing EXCEPT !.what = "no reply", !.cmd = rpc.cmd]
    /\ rpc' = Idle

end_fails ==
    /\ rpc.at = "end"
    /\ GiveUp
    /\ UNCHANGED host

(***************************************************************************)
(* The host's clock                                                        *)
(***************************************************************************)
DAY == 86400
UNSUPPORTED == -1

\* Days since the epoch to year, month and day: years start in March, and are
\* counted in eras of 400.
print_date(secs) ==
    LET z == secs \div DAY + 719468
        era == z \div 146097
        doe == z - era * 146097
        yoe == (doe - doe \div 1460 + doe \div 36524 - doe \div 146096) \div 365
        doy == doe - (365 * yoe + yoe \div 4 - yoe \div 100)
        mp == (5 * doy + 2) \div 153
        m == IF mp < 10 THEN mp + 3 ELSE mp - 9
    IN <<yoe + era * 400 + (IF m <= 2 THEN 1 ELSE 0), m, doy - (153 * mp + 2) \div 5 + 1>>

\* GETTIMEFULL, or the older command where that says nothing.
host_time(full, old) == IF full \notin {0, UNSUPPORTED} THEN full ELSE old

vmx_time(full, old) ==
    /\ bd.up /\ rpc.at = "idle" /\ host.heard < MaxCommands
    /\ host' = [host EXCEPT !.heard = @ + 1]
    /\ shown' = IF /\ bd.present
                   /\ host_time(full, old) # UNSUPPORTED
                THEN [Nothing EXCEPT !.what = "time", !.secs = host_time(full, old),
                                     !.date = print_date(host_time(full, old))]
                ELSE [Nothing EXCEPT !.what = "no time"]
    /\ UNCHANGED <<bd, rpc>>

\* What the loop does with a host that does not refuse.
Polls == poll_empty \/ no_tries_left \/ rpc_receive \/ receive_nothing \/ get_end

BdNext ==
    \/ \E vmware, opens \in BOOLEAN : init(vmware, opens)
    \/ \E len \in Lengths, length_ok, data_ok \in BOOLEAN : rpc_send(len, length_ok, data_ok)
    \/ \E len \in Lengths : rpci_refused(len)
    \/ \E cmd \in host.owed, ok \in BOOLEAN, len \in Lengths : HostAnswers(cmd, ok, len)
    \/ Polls \/ poll_refused \/ end_fails
    \/ \E full, old \in Times : vmx_time(full, old)

BdFairness == WF_bd_vars(Polls)

BdSpec == BdInit /\ [][BdNext]_bd_vars /\ BdFairness

(***************************************************************************)
(* Properties                                                              *)
(***************************************************************************)
\* What was received fits its buffer, and without the hypervisor nothing is
\* ever sent to it.
BdTypeOK ==
    /\ bd.rx.len <= RPC_BUF
    /\ rpc.at \in {"idle", "poll", "end"} /\ rpc.tries \in 0 .. TRIES
    /\ ~ bd.present => ~ bd.open /\ rpc = Idle /\ bd.sent = 0

\* The reply shown under a command is that command's, as long as no earlier
\* command was given up with its answer still to come: rpci_command does not
\* look at whose answer it reads, so this rests on each answer being
\* acknowledged before the next command goes out.
ReplyIsForCommand ==
    shown.what = "reply" /\ ~ bd.left => shown.got.cmd = shown.cmd

\* The reference for the calendar: the days in the years and months before.
Leap(y) == y % 4 = 0 /\ (y % 100 # 0 \/ y % 400 = 0)

DaysIn(y, m) == CASE m \in {4, 6, 9, 11} -> 30 [] m = 2 -> IF Leap(y) THEN 29 ELSE 28 [] OTHER -> 31

DaysTo(y, m) ==
    LET years[k \in 1970 .. y] == IF k = 1970 THEN 0 ELSE years[k - 1] + (IF Leap(k - 1) THEN 366 ELSE 365)
        months[k \in 1 .. m] == IF k = 1 THEN 0 ELSE months[k - 1] + DaysIn(y, k - 1)
    IN years[y] + months[m]

\* The date shown for the host's clock is the calendar's date of that day,
\* at the ends of months, leap days and centuries too.
DateIsRight ==
    shown.what = "time" =>
        LET y == shown.date[1]
            m == shown.date[2]
            d == shown.date[3]
        IN /\ y >= 1970 /\ m \in 1 .. 12 /\ d \in 1 .. DaysIn(y, m)
           /\ DaysTo(y, m) + d - 1 = shown.secs \div DAY

\* What the terminal shows of the host is what the host said, to that question.
ChannelOK == BdTypeOK /\ ReplyIsForCommand /\ DateIsRight

\* However silent the host is, a command comes back to the prompt.
CommandEnds == rpc.at # "idle" ~> rpc.at = "idle"
=============================================================================
