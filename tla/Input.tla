------------------------------- MODULE Input -------------------------------
(***************************************************************************)
(* The keyboard, the mouse and the input loop that consumes them           *)
(* (dev/keyboard.rs, dev/mouse.rs, dev/ps2.rs, interrupts/irq.rs, main.rs).*)
(*                                                                         *)
(* Both devices share the one-byte output buffer of the 8042 controller.   *)
(* A byte placed there raises the device's interrupt if the configuration  *)
(* byte allows it; the handlers run to completion (interrupt gates) between *)
(* two steps of the main thread, which is at pc: first the boot steps      *)
(* keyboard::init, mouse::init and keyboard::selftest, with interrupts     *)
(* already on, then input_loop.  Bytes are numbers; a decoded character is *)
(* <<scan code, "low" or "up">>, other keys are the code alone.            *)
(***************************************************************************)
EXTENDS Integers, Sequences, FiniteSets, SequencesExt

CONSTANTS
    QUEUE_SIZE,       \* slots of the key queue, one of which stays empty
    DRAIN,            \* reads of ps2::drain_output
    W, H,             \* the screen
    CURSOR,           \* the cells of the pointer and its shadow, from <<0, 0>>
    SAVE_W, SAVE_H,   \* the area save and restore cover
    FirmwareCfg,      \* configuration bytes the firmware may leave
    Keys,             \* keys on the keyboard: <<code>> or <<SCAN_EXTENDED, code>>
    Packets,          \* what the mouse reports: <<flags, dx, dy>>
    BootEvents,       \* bound: keys pressed or released before the loop runs
    Events            \* bound: those after that, and all mouse packets

VARIABLES
    pc,        \* where the main thread is
    n,         \* its local number: reads left, or the byte just read
    ctl,       \* the controller: [out, latch, cfg, answers]
    irr,       \* interrupts that wait for the processor, of {1, 12}
    dev,       \* the devices: bytes waiting in them, and whether the mouse reports
    kb,        \* statics of keyboard.rs
    ms,        \* statics of mouse.rs
    screen,    \* what each cell shows: "frame", "old" (an earlier frame) or "arrow"
    saved,     \* SAVE: the cells the pointer covers (empty: not painted)
    loop,      \* input_loop's locals and what its consumers were given
    user       \* who types and moves: keys held, caps, what was meant, bounds

vars == <<pc, n, ctl, irr, dev, kb, ms, screen, saved, loop, user>>

SCAN_EXTENDED == 224
SCAN_LSHIFT == 42
SCAN_RSHIFT == 54
SCAN_CAPSLOCK == 58
PROBE == 30
ACK == 250
Bit(b, i) == (b \div 2^i) % 2 = 1

Cells == (0 .. W - 1) \X (0 .. H - 1)
Least(a, b) == IF a < b THEN a ELSE b
Clamp(v, hi) == IF v < 0 THEN 0 ELSE Least(v, hi)

(***************************************************************************)
(* keyboard.rs                                                             *)
(***************************************************************************)
\* The codes of MAP_NORMAL and MAP_SHIFT that are not 0.
Printable == (2 .. 57) \ {14, 15, 28, 29, SCAN_LSHIFT, SCAN_RSHIFT, 56}
Letters == (16 .. 25) \cup (30 .. 38) \cup (44 .. 50)
SameShifted == {55, 57}         \* '*' and ' ' are in both tables
\* SCAN_ENTER, SCAN_BACKSPACE, Esc and Tab
Plain == {28, 14, 1, 15}
\* The navigation block: arrows, Delete, Page Up and Down, Home, End.
Navigation == {72, 80, 75, 77, 83, 73, 81, 71, 79}

map(c, shift, caps) ==
    <<c, IF c \notin SameShifted /\ (shift \/ (caps /\ c \in Letters))
         THEN "up" ELSE "low">>

push_over(k, key) ==    \* mutant: a full queue is overwritten
    LET next == (k.tail + 1) % QUEUE_SIZE
    IN [k EXCEPT !.queue[k.tail] = key, !.tail = next]

\* A key that finds the queue full is dropped; lost counts those.
push(k, key) ==
    LET next == (k.tail + 1) % QUEUE_SIZE
    IN IF next = k.head THEN [k EXCEPT !.lost = @ + 1]
       ELSE [k EXCEPT !.queue[k.tail] = key, !.tail = next]

\* The byte after the prefix is swallowed unless it is a navigation key's.
handle_extended(k, code, released) ==
    IF ~released /\ code \in Navigation THEN push(k, <<SCAN_EXTENDED, code>>) ELSE k

handle_plain(k, code, released) ==
    CASE code \in {SCAN_LSHIFT, SCAN_RSHIFT} -> [k EXCEPT !.shift = ~released]
      [] code = SCAN_CAPSLOCK -> [k EXCEPT !.caps = IF released THEN @ ELSE ~@]
      [] code \in Plain /\ ~released -> push(k, <<code>>)
      [] code \in Printable /\ ~released -> push(k, map(code, k.shift, k.caps))
      [] OTHER -> k

\* saw: KEYS_TOTAL has changed since selftest read it.
handle_scancode(k, byte) ==
    LET k1 == [k EXCEPT !.saw = TRUE, !.ext = FALSE]
        code == byte % 128
    IN CASE byte = SCAN_EXTENDED -> [k EXCEPT !.saw = TRUE, !.ext = TRUE]
         [] byte # SCAN_EXTENDED /\ k.ext -> handle_extended(k1, code, byte >= 128)
         [] OTHER -> handle_plain(k1, code, byte >= 128)

\* The keys between head and tail, oldest first.
Waiting(k) ==
    [i \in 1 .. (k.tail + QUEUE_SIZE - k.head) % QUEUE_SIZE |->
        k.queue[(k.head + i - 1) % QUEUE_SIZE]]

(***************************************************************************)
(* mouse.rs                                                                *)
(***************************************************************************)
\* The sign bits of the deltas are in the flags; an overflow drops the packet.
apply_packet(m, p) ==
    LET dx == p[2] - IF Bit(p[1], 4) THEN 256 ELSE 0
        dy == p[3] - IF Bit(p[1], 5) THEN 256 ELSE 0
    IN IF Bit(p[1], 6) \/ Bit(p[1], 7) THEN m
       ELSE [m EXCEPT !.x = Clamp(@ + dx, W - 1), !.y = Clamp(@ - dy, H - 1),
                      !.buttons = p[1] % 8, !.dirty = TRUE]

\* packet is PACKET with CYCLE as its length.
assemble_unsynced(m, byte) ==   \* mutant: no look at bit 3
    IF Len(m.packet) = 2
    THEN apply_packet([m EXCEPT !.packet = <<>>], Append(m.packet, byte))
    ELSE [m EXCEPT !.packet = Append(@, byte)]

assemble(m, byte) ==
    IF m.packet = <<>> /\ ~Bit(byte, 3) THEN m
    ELSE IF Len(m.packet) = 2
    THEN apply_packet([m EXCEPT !.packet = <<>>], Append(m.packet, byte))
    ELSE [m EXCEPT !.packet = Append(@, byte)]

(***************************************************************************)
(* The controller and the two devices.                                     *)
(***************************************************************************)
\* A byte enters the empty buffer: the controller's own answers first.
Deliver ==
    /\ ctl.out = "none"
    /\ \/ /\ ctl.answers # <<>>
          /\ ctl' = [ctl EXCEPT !.out = "kbd", !.latch = Head(ctl.answers),
                               !.answers = Tail(@)]
          /\ irr' = irr \cup (IF Bit(ctl.cfg, 0) THEN {1} ELSE {})
          /\ UNCHANGED dev
       \/ /\ ctl.answers = <<>> /\ dev.keys # <<>> /\ ~Bit(ctl.cfg, 4)
          /\ ctl' = [ctl EXCEPT !.out = "kbd", !.latch = Head(dev.keys)]
          /\ irr' = irr \cup (IF Bit(ctl.cfg, 0) THEN {1} ELSE {})
          /\ dev' = [dev EXCEPT !.keys = Tail(@)]
       \/ /\ ctl.answers = <<>> /\ dev.aux # <<>> /\ ~Bit(ctl.cfg, 5)
          /\ ctl' = [ctl EXCEPT !.out = "aux", !.latch = Head(dev.aux)]
          /\ irr' = irr \cup (IF Bit(ctl.cfg, 1) THEN {12} ELSE {})
          /\ dev' = [dev EXCEPT !.aux = Tail(@)]
    /\ UNCHANGED <<pc, n, kb, ms, screen, saved, loop, user>>

BootPcs == {"kb_drain", "kb_ask", "kb_read", "kb_write", "ms_on", "ms_drain",
            "ms_cmd", "ms_ack", "ms_ok", "ms_cmd2", "ms_ack2", "ms_ok2",
            "st_drain", "st_probe", "st_wait", "st_flush"}
booted == pc \notin BootPcs

\* What a press of key k means to whoever types, and the bytes it sends.
Meant(k) ==
    CASE Len(k) = 2 /\ k[2] \in Navigation -> <<k>>
      [] Len(k) = 1 /\ k[1] \in Plain -> <<k>>
      [] Len(k) = 1 /\ k[1] \in Printable ->
            <<map(k[1], <<SCAN_LSHIFT>> \in user.held, user.caps)>>
      [] OTHER -> <<>>

\* A device holds the bytes of one event; the next one comes after they left.
Press(k) ==
    /\ k \notin user.held /\ dev.keys = <<>>
    /\ IF booted THEN user.events > 0 ELSE user.early > 0
    /\ user' = [user EXCEPT !.held = @ \cup {k},
                            !.caps = IF k = <<SCAN_CAPSLOCK>> THEN ~@ ELSE @,
                            !.meant = IF booted THEN @ \o Meant(k) ELSE @,
                            !.events = IF booted THEN @ - 1 ELSE @,
                            !.early = IF booted THEN @ ELSE @ - 1]
    /\ dev' = [dev EXCEPT !.keys = @ \o k]
    /\ UNCHANGED <<pc, n, ctl, irr, kb, ms, screen, saved, loop>>

Release(k) ==
    /\ k \in user.held /\ dev.keys = <<>>
    /\ IF booted THEN user.events > 0 ELSE user.early > 0
    /\ user' = [user EXCEPT !.held = @ \ {k},
                            !.events = IF booted THEN @ - 1 ELSE @,
                            !.early = IF booted THEN @ ELSE @ - 1]
    /\ dev' = [dev EXCEPT !.keys = @ \o [k EXCEPT ![Len(k)] = @ + 128]]
    /\ UNCHANGED <<pc, n, ctl, irr, kb, ms, screen, saved, loop>>

\* mild: no delta byte so far looks like the first byte of a packet; since:
\* packets sent since the loop runs.
Move(p) ==
    /\ dev.reports /\ dev.aux = <<>> /\ user.events > 0
    /\ user' = [user EXCEPT !.events = @ - 1, !.since = IF booted THEN @ + 1 ELSE @,
                            !.mild = @ /\ ~Bit(p[2], 3) /\ ~Bit(p[3], 3)]
    /\ dev' = [dev EXCEPT !.aux = @ \o p]
    /\ UNCHANGED <<pc, n, ctl, irr, kb, ms, screen, saved, loop>>

(***************************************************************************)
(* irq.rs: the two handlers.                                               *)
(***************************************************************************)
\* Reads the port whatever the status says.
handle_keyboard ==
    /\ 1 \in irr
    /\ irr' = irr \ {1}
    /\ ctl' = [ctl EXCEPT !.out = "none"]
    /\ kb' = handle_scancode(kb, ctl.latch)
    /\ UNCHANGED <<pc, n, dev, ms, screen, saved, loop, user>>

handle_irq ==
    /\ 12 \in irr /\ 1 \notin irr
    /\ irr' = irr \ {12}
    /\ ctl' = [ctl EXCEPT !.out = "none"]
    /\ kb' = IF ctl.out = "kbd" THEN handle_scancode(kb, ctl.latch) ELSE kb
    /\ ms' = IF ctl.out = "aux" THEN assemble(ms, ctl.latch) ELSE ms
    /\ UNCHANGED <<pc, n, dev, screen, saved, loop, user>>

(***************************************************************************)
(* The main thread.  A pending interrupt is taken before its next step,    *)
(* except that a read of the port may just win the race.                   *)
(***************************************************************************)
At(p) == pc = p /\ irr = {}
Goto(p) == pc' = p

\* One turn of drain_output.
Drain(here, next) ==
    /\ pc = here
    /\ IF ctl.out = "none" \/ n = 0
       THEN irr = {} /\ Goto(next) /\ n' = 0 /\ UNCHANGED ctl
       ELSE Goto(here) /\ n' = n - 1 /\ ctl' = [ctl EXCEPT !.out = "none"]
    /\ UNCHANGED <<irr, dev, kb, ms, screen, saved, loop, user>>

\* data_read: the byte that has arrived or, when the wait ran out because an
\* interrupt took it, the byte the port still holds.
Read(here, next) ==
    /\ pc = here
    /\ ctl.out # "none" \/ (irr = {} /\ ctl.answers = <<>> /\ dev.aux = <<>>)
    /\ n' = ctl.latch
    /\ ctl' = [ctl EXCEPT !.out = "none"]
    /\ Goto(next)
    /\ UNCHANGED <<irr, dev, kb, ms, screen, saved, loop, user>>

\* keyboard::init: interrupts of both devices on, neither clock off.
KbInit ==
    \/ Drain("kb_drain", "kb_ask")
    \/ /\ At("kb_ask") /\ Goto("kb_read")
       /\ ctl' = [ctl EXCEPT !.answers = Append(@, ctl.cfg)]
       /\ UNCHANGED <<n, irr, dev, kb, ms, screen, saved, loop, user>>
    \/ Read("kb_read", "kb_write")

configured_clock(before) ==     \* mutant: the clocks are left as they were
    (before - (before % 4)) + 3

configured(before) ==
    LET on == (before - (before % 4)) + 3 IN on - 16 * ((on \div 16) % 4)

KbWrite ==
    /\ At("kb_write") /\ Goto("ms_on")
    /\ ctl' = [ctl EXCEPT !.cfg = configured(n)]
    /\ n' = DRAIN
    /\ UNCHANGED <<irr, dev, kb, ms, screen, saved, loop, user>>

\* mouse_cmd: the device, if there is one, acknowledges the command.
MouseCmd(here, next, reports) ==
    /\ At(here) /\ Goto(next)
    /\ dev' = IF dev.mouse THEN [dev EXCEPT !.aux = Append(@, ACK), !.reports = reports]
              ELSE dev
    /\ UNCHANGED <<n, ctl, irr, kb, ms, screen, saved, loop, user>>

MouseStart(ok) ==
    /\ ms' = [ms EXCEPT !.present = ok, !.x = W \div 2, !.y = H \div 2]
    /\ Goto("st_drain") /\ n' = DRAIN
    /\ kb' = [kb EXCEPT !.saw = FALSE]

\* mouse::init; "ms_ok" and "ms_ok2" look at the byte that mouse_cmd read.
MsInit ==
    \/ /\ At("ms_on") /\ Goto("ms_drain")
       /\ ctl' = [ctl EXCEPT !.cfg = IF Bit(@, 5) THEN @ - 32 ELSE @]
       /\ UNCHANGED <<n, irr, dev, kb, ms, screen, saved, loop, user>>
    \/ Drain("ms_drain", "ms_cmd")
    \/ MouseCmd("ms_cmd", "ms_ack", FALSE)
    \/ Read("ms_ack", "ms_ok")
    \/ /\ At("ms_ok")
       /\ IF n = ACK THEN Goto("ms_cmd2") /\ UNCHANGED <<n, ms, kb>> ELSE MouseStart(FALSE)
       /\ UNCHANGED <<ctl, irr, dev, screen, saved, loop, user>>
    \/ MouseCmd("ms_cmd2", "ms_ack2", TRUE)
    \/ Read("ms_ack2", "ms_ok2")
    \/ /\ At("ms_ok2") /\ MouseStart(n = ACK)
       /\ UNCHANGED <<ctl, irr, dev, screen, saved, loop, user>>

\* selftest.  Five ticks are far longer than the controller needs: the wait
\* runs out only when nothing is on its way.
SelfTest ==
    \/ Drain("st_drain", "st_probe")
    \/ /\ At("st_probe") /\ Goto("st_wait")
       /\ ctl' = [ctl EXCEPT !.answers = Append(@, PROBE)]
       /\ UNCHANGED <<n, irr, dev, kb, ms, screen, saved, loop, user>>
    \/ /\ At("st_wait") /\ Goto("st_flush")
       /\ kb.saw \/ ctl.answers = <<>> \/ ctl.out # "none"
       /\ loop' = [loop EXCEPT !.fault = ~kb.saw]
       /\ UNCHANGED <<n, ctl, irr, dev, kb, ms, screen, saved, user>>
    \/ /\ At("st_flush")
       /\ IF kb.head = kb.tail THEN Goto("redraw") /\ UNCHANGED kb
          ELSE Goto("st_flush") /\ kb' = [kb EXCEPT !.head = (@ + 1) % QUEUE_SIZE]
       /\ UNCHANGED <<n, ctl, irr, dev, ms, screen, saved, loop, user>>

\* The timer, or any interrupt, ends hlt; net::poll and apps::tick come first.
Wake ==
    /\ At("hlt") /\ Goto("keys")
    /\ loop' = [loop EXCEPT !.news = FALSE]
    /\ UNCHANGED <<n, ctl, irr, dev, kb, ms, screen, saved, user>>

\* poll, in two steps: head and tail are read, then the key and the new head.
PollLoad ==
    /\ At("keys")
    /\ IF kb.head = kb.tail THEN Goto("news") /\ UNCHANGED n
       ELSE Goto("take") /\ n' = kb.head
    /\ UNCHANGED <<ctl, irr, dev, kb, ms, screen, saved, loop, user>>

PollTake ==
    /\ At("take") /\ Goto("keys")
    /\ kb' = [kb EXCEPT !.head = (n + 1) % QUEUE_SIZE]
    /\ n' = 0
    /\ loop' = [loop EXCEPT !.keys = Append(@, kb.queue[n])]
    /\ UNCHANGED <<ctl, irr, dev, ms, screen, saved, user>>

take_dirty ==
    /\ loop' = [loop EXCEPT !.news = ms.dirty]
    /\ ms' = [ms EXCEPT !.dirty = FALSE]

TakeNews ==
    /\ At("news")
    /\ take_dirty
    /\ Goto(IF ms.dirty THEN "mouse" ELSE "draw")
    /\ UNCHANGED <<n, ctl, irr, dev, kb, screen, saved, user>>

\* shell::on_mouse reads the buttons; Desktop models what it does with them.
OnMouse ==
    /\ At("mouse") /\ Goto("draw")
    /\ loop' = [loop EXCEPT !.seen = ms.buttons]
    /\ UNCHANGED <<n, ctl, irr, dev, kb, ms, screen, saved, user>>

(***************************************************************************)
(* The pointer on the screen.                                              *)
(***************************************************************************)
restore == [c \in Cells |-> IF c \in DOMAIN saved THEN saved[c] ELSE screen[c]]

\* desktop::render repaints every cell; what SAVE holds is then out of date.
hide_and_render ==
    /\ screen' = [c \in Cells |-> "frame"]
    /\ saved' = <<>>

\* need_composite: what tick, the keys and the mouse changed, if anything.
Compose(need_composite) ==
    /\ At("draw")
    /\ Goto(IF loop.news \/ need_composite THEN "redraw" ELSE "hlt")
    /\ IF need_composite THEN hide_and_render ELSE UNCHANGED <<screen, saved>>
    /\ UNCHANGED <<n, ctl, irr, dev, kb, ms, loop, user>>

\* redraw: restore, and read the position ...
Redraw ==
    /\ At("redraw") /\ Goto("save")
    /\ screen' = restore
    /\ saved' = <<>>
    /\ loop' = [loop EXCEPT !.at = <<ms.x, ms.y>>]
    /\ UNCHANGED <<n, ctl, irr, dev, kb, ms, user>>

Area(x, y) == {c \in Cells : c[1] \in x .. x + SAVE_W - 1 /\ c[2] \in y .. y + SAVE_H - 1}

\* The whole pointer is kept on the screen: the position is stored clamped.
save(x, y) ==
    LET cx == Clamp(x, W - SAVE_W)
        cy == Clamp(y, H - SAVE_H)
    IN /\ ms' = [ms EXCEPT !.x = cx, !.y = cy]
       /\ saved' = [c \in Area(cx, cy) |-> screen[c]]

\* Drawn at the position that was read, clipped at the edge of the screen.
blit(x, y) ==
    screen' = [c \in Cells |-> IF <<c[1] - x, c[2] - y>> \in CURSOR THEN "arrow" ELSE screen[c]]

\* ... save and blit, with the position as it was read.
Save ==
    /\ At("save") /\ Goto("hlt")
    /\ save(loop.at[1], loop.at[2])
    /\ blit(loop.at[1], loop.at[2])
    /\ loop' = [loop EXCEPT !.at = <<0, 0>>]
    /\ UNCHANGED <<n, ctl, irr, dev, kb, user>>

(***************************************************************************)
(* Specification.                                                          *)
(***************************************************************************)
Init ==
    /\ pc = "kb_drain" /\ n = DRAIN
    /\ \E c \in FirmwareCfg :
          ctl = [out |-> "none", latch |-> 0, cfg |-> c, answers |-> <<>>]
    /\ irr = {}
    /\ \E m \in BOOLEAN : dev = [keys |-> <<>>, aux |-> <<>>, mouse |-> m, reports |-> FALSE]
    /\ kb = [queue |-> [i \in 0 .. QUEUE_SIZE - 1 |-> <<>>], head |-> 0, tail |-> 0,
             shift |-> FALSE, caps |-> FALSE, ext |-> FALSE, saw |-> FALSE, lost |-> 0]
    /\ ms = [x |-> 0, y |-> 0, buttons |-> 0, dirty |-> FALSE, present |-> FALSE,
             packet |-> <<>>]
    /\ screen = [c \in Cells |-> "frame"]
    /\ saved = <<>>
    /\ loop = [news |-> FALSE, keys |-> <<>>, seen |-> 0, at |-> <<0, 0>>,
             fault |-> FALSE]
    /\ user = [held |-> {}, caps |-> FALSE, meant |-> <<>>, mild |-> TRUE, since |-> 0,
               early |-> BootEvents, events |-> Events]

Main ==
    \/ KbInit \/ KbWrite \/ MsInit \/ SelfTest
    \/ Wake \/ PollLoad \/ PollTake \/ TakeNews \/ OnMouse
    \/ (\E need_composite \in BOOLEAN : Compose(need_composite)) \/ Redraw \/ Save

Next ==
    \/ Deliver \/ handle_keyboard \/ handle_irq \/ Main
    \/ \E k \in Keys : Press(k) \/ Release(k)
    \/ \E p \in Packets : Move(p)

\* The controller delivers, interrupts are taken, and the loop never stops:
\* the timer ends hlt a hundred times a second.
Fairness ==
    WF_vars(Deliver) /\ WF_vars(handle_keyboard) /\ WF_vars(handle_irq) /\ WF_vars(Main)

Spec == Init /\ [][Next]_vars /\ Fairness

(***************************************************************************)
(* Properties.                                                             *)
(***************************************************************************)
\* The statics keep their ranges; the pointer is on the screen.
TypeOK ==
    /\ ctl.out \in {"none", "kbd", "aux"} /\ ctl.cfg \in 0 .. 255 /\ ctl.latch \in 0 .. 255
    /\ irr \subseteq {1, 12}
    /\ kb.head \in 0 .. QUEUE_SIZE - 1 /\ kb.tail \in 0 .. QUEUE_SIZE - 1
    /\ ms.x \in 0 .. W - 1 /\ ms.y \in 0 .. H - 1 /\ Len(ms.packet) < 3

\* s is t with some of its elements left out.
PartOf(s, t) ==
    \E f \in [DOMAIN s -> DOMAIN t] :
        \A i \in DOMAIN s : s[i] = t[f[i]] /\ \A j \in 1 .. i - 1 : f[j] < f[i]

Got == loop.keys \o Waiting(kb)
KeysAtRest == dev.keys = <<>> /\ ctl.out # "kbd" /\ ctl.answers = <<>> /\ 1 \notin irr

\* Whatever the mouse's bytes do in between, the applications get the keys
\* that were meant, with the modifiers that were held, in the order typed;
\* none is invented, and none is missing but those that found the queue full.
KeysAsTyped ==
    booted =>
    /\ PartOf(Got, user.meant)
    /\ kb.lost = 0 => IsPrefix(Got, user.meant)
    /\ KeysAtRest => Len(Got) + kb.lost = Len(user.meant)

\* selftest: "nothing is typed into anything": no key typed before the login
\* prompt, nor the probe, reaches anybody, and the probe was seen.
BootIsQuiet == booted /\ user.meant = <<>> => Got = <<>> /\ ~loop.fault

\* Every key reaches the applications as it was meant, and nothing else does.
KeysTrue == TypeOK /\ KeysAsTyped /\ BootIsQuiet

InFlight == Len(dev.aux) + IF ctl.out = "aux" THEN 1 ELSE 0
InStep == Len(ms.packet) = (3 - (InFlight % 3)) % 3

\* The acknowledgements of mouse_cmd may be taken by IRQ12 as the start of a
\* packet, and the drains of the boot may take a byte out of one; bit 3 puts
\* the assembly right after one packet of small moves.
Resyncs ==
    booted /\ user.mild /\ user.since > 0 /\ InFlight <= 3 * (user.since - 1) => InStep

\* When the processor sleeps with nothing to report, the shell has seen the
\* buttons as they are and the pointer is painted where the mouse is.
NewsSeen ==
    pc = "hlt" /\ ~ms.dirty =>
        /\ loop.seen = ms.buttons
        /\ DOMAIN saved = Area(ms.x, ms.y)
        /\ Cardinality(Area(ms.x, ms.y)) = SAVE_W * SAVE_H

\* A finished frame shows the desktop and one pointer: nothing of an earlier
\* pointer or an earlier frame stays behind, and SAVE can undo all of it.
NoTrail ==
    pc = "hlt" =>
        /\ \A c \in Cells : screen[c] = "arrow" => c \in DOMAIN saved
        /\ \A c \in Cells : screen[c] # "old"
        /\ \A c \in DOMAIN saved : saved[c] = "frame"

\* The pointer is where the mouse says: the packets are told apart again after
\* a byte is lost, the screen shows the pointer there and only there, and the
\* shell knows the buttons.
MouseTrue == Resyncs /\ NewsSeen /\ NoTrail

\* Every key typed at the desktop reaches the applications or is one of those
\* the full queue dropped.
KeysArrive ==
    Len(user.meant) > Len(loop.keys) + kb.lost ~> Len(user.meant) = Len(loop.keys) + kb.lost
=============================================================================
