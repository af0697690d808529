------------------------------- MODULE Session -------------------------------
(***************************************************************************)
(* One invocation of atv status / on / off / key / launch against one TV:  *)
(* read_power, press_power_once, set_power, set_power_with_wake,           *)
(* wait_for_port, send_keys and send_app_link of src/session.rs, connect   *)
(* of src/tls.rs and the client side of the connection, step by step with  *)
(* the TV.                                                                 *)
(*                                                                         *)
(* The client is one thread: pc is the blocking call it is in.  Time is    *)
(* counted in whole ticks; Tick may not pass a client that can proceed.    *)
(* The TV is not part of the repository; it is modelled from what the      *)
(* code sends it, reads from it and says of it.                            *)
(***************************************************************************)
EXTENDS Handshake, Sequences

CONSTANTS
    Commands,               \* the invocations considered
    Chat,                   \* what the TV may send beside a plain remote_start
    POWER_ON_ATTEMPTS,      \* total attempts of `on`
    KEY_INJECT_GRACE,       \* pause before the first inject
    KEY_INTERVAL,           \* pause between two keys of `key`
    SEND_SETTLE,            \* pause after the last inject of `key` / `launch`
    POWER_ON_RETRY_BACKOFF, \* pause before another attempt
    WOL_WAIT,               \* budget of wait_for_port
    CONNECT_TIMEOUT,        \* connect_timeout of a session
    READ_TIMEOUT,           \* socket read timeout during the handshake
    CONFIRM_TIMEOUT,        \* socket read timeout after the power key
    CONFIRM_DEADLINE,       \* wall-clock deadline of the confirmation loop
    POLL_TIMEOUT,           \* connect_timeout inside wait_for_port
    POLL_PAUSE              \* sleep between two polls

CONSTANTS                   \* the environment's bounds
    Faults,                 \* may the TV close, go silent or leave the network?
    SlowTV,                 \* may time pass while a written key is unprocessed?
    Babble,                 \* may the TV chat without end before remote_start?
    MaxHello,               \* messages before remote_start when it does not
    MaxFragments,           \* partial reads of one frame
    MaxInbox,               \* unread messages held by the client's socket
    Rate,                   \* messages the TV sends per tick
    MaxDrops,               \* power keys the TV silently ignores
    MaxOutside,             \* power changes by someone else
    EarlyWindow             \* keys this soon after remote_start are ignored

Inject == {"POWER", "VOLUME_UP", "DPAD_CENTER", "LINK"}

Command == [name : {"status", "on", "off", "key", "launch"},
            mac : BOOLEAN,                           \* was --mac given?
            store : {"paired", "missing", "unusable"},
            injects : Seq(Inject)]                   \* what key / launch send

ASSUME CommandsAssumption ==            \* clap requires a key / an app link
    /\ Commands \subseteq Command
    /\ \A c \in Commands : c.name \in {"key", "launch"} => c.injects # <<>>
ASSUME ChatAssumption ==
    /\ Chat \subseteq RemoteMessage
    /\ \A m \in Chat : Branch(m) # "remote_start"
ASSUME TimeAssumption ==
    /\ {POWER_ON_ATTEMPTS, POWER_ON_RETRY_BACKOFF, CONFIRM_TIMEOUT,
        CONFIRM_DEADLINE, READ_TIMEOUT, SEND_SETTLE, WOL_WAIT} \subseteq Nat \ {0}
    /\ {KEY_INJECT_GRACE, KEY_INTERVAL, CONNECT_TIMEOUT,
        POLL_TIMEOUT, POLL_PAUSE} \subseteq Nat
ASSUME EnvAssumption ==
    /\ {Faults, SlowTV, Babble} \subseteq BOOLEAN
    /\ {MaxHello, MaxFragments, MaxInbox, Rate, MaxDrops, MaxOutside,
        EarlyWindow} \subseteq Nat
    /\ EarlyWindow <= KEY_INJECT_GRACE

VARIABLES
    cmd,        \* the parsed command line and the state of the credential store
    pc,         \* where the client is
    hs,         \* its SessionHandshake
    got_any,    \* has a message arrived on this connection?
    tries,      \* attempts of set_power completed so far
    changed,    \* set_power's changed
    attempt,    \* the last PowerAttempt of set_power
    timer,      \* ticks left of the blocking call
    deadline,   \* ticks left until the deadline of the loop
    out,        \* what main prints: a success object or an error kind
    link,       \* the client's connection: "down", "open", "closed" by the TV
    inbox,      \* frames that arrived and are not read
    frag,       \* partial reads of the frame being read
    pending,    \* injects the TV received and has not processed
    tv,         \* the TV
    magic,      \* the Wake-on-LAN packet: "none", "inflight", "used"
    written,    \* history: injects written successfully, in order
    acted,      \* history: injects the TV has acted on, in order
    waited,     \* history: ticks spent in the loop of await or of poll
    stale,      \* history: unread frames older than the last power key
    fresh,      \* history: was hs.power set by a frame newer than the key?
    lastread    \* history: why the last failed read failed

retry   == <<tries, changed, attempt>>       \* the locals of set_power
local   == <<hs, got_any, deadline>>         \* the locals of the loops below it
conn    == <<link, inbox, frag>>
client  == <<pc, timer, out, retry, local, conn>>
history == <<written, acted, waited, stale, fresh, lastread>>
vars    == <<cmd, client, pending, tv, magic, history>>

Want == IF cmd.name = "on" THEN "on" ELSE "off"
IsPower == cmd.name \in {"on", "off"}
Woken == magic # "none"     \* set_power_with_wake is past send_magic_packet

PC == {"open", "connect", "handshake", "pause", "await", "backoff", "settle",
       "wake", "poll", "pollpause", "done"}

PowerAttempt == [changed : BOOLEAN, resulting : PowerView, observed : PowerView]

\* What main prints: an error kind, or the fields of the success object.
Output == [kind : ErrorKind \cup {"none", "ok"}, power : PowerView,
           changed : BOOLEAN, wol : BOOLEAN]

\* The TV: its power, whether its port answers, whether it accepts the client's
\* certificate, has it sent remote_start, messages sent before it, messages it
\* may still send this tick, ticks it still ignores keys, keys ignored, changes
\* by others.
TV == [power : Power, up : BOOLEAN, trusts : BOOLEAN, greeted : BOOLEAN,
       hello : Nat, quota : Nat, warm : Nat, drops : Nat, outside : Nat]

\* The types, and with them the bound of set_power's loop: no attempt is begun
\* after the last one.
TypeOK ==
    /\ cmd \in Commands
    /\ pc \in PC
    /\ hs \in HandshakeState
    /\ got_any \in BOOLEAN
    /\ tries \in Nat /\ (pc # "done" => tries < POWER_ON_ATTEMPTS)
    /\ timer \in Nat /\ deadline \in Nat
    /\ changed \in BOOLEAN
    /\ attempt \in PowerAttempt
    /\ out \in Output
    /\ link \in {"down", "open", "closed"}
    /\ inbox \in Seq(RemoteMessage)
    /\ frag \in Nat
    /\ pending \in Seq(Inject)
    /\ tv \in TV
    /\ magic \in {"none", "inflight", "used"}
    /\ written \in Seq(Inject) /\ acted \in Seq(Inject)
    /\ waited \in Nat /\ stale \in Nat
    /\ fresh \in BOOLEAN
    /\ lastread \in {"none", "eof", "timeout", "undecodable"}

NoAttempt == [changed |-> FALSE, resulting |-> "unknown", observed |-> "unknown"]
NoOutput  == [kind |-> "none", power |-> "unknown", changed |-> FALSE, wol |-> FALSE]

Init ==
    /\ cmd \in Commands
    /\ pc = "open" /\ hs = NewHandshake /\ got_any = FALSE
    /\ tries = 0 /\ changed = FALSE /\ attempt = NoAttempt
    /\ timer = 0 /\ deadline = 0 /\ out = NoOutput
    /\ link = "down" /\ inbox = <<>> /\ frag = 0 /\ pending = <<>>
    /\ tv \in [power : Power, up : BOOLEAN, trusts : BOOLEAN, greeted : {FALSE},
               hello : {0}, quota : {Rate}, warm : {0}, drops : {0}, outside : {0}]
    /\ magic = "none"
    /\ written = <<>> /\ acted = <<>> /\ waited = 0 /\ stale = 0 /\ fresh = TRUE
    /\ lastread = "none"

----------------------------------------------------------------------------
(* How an attempt, and the whole command, end.                              *)

Hangup == link' = "down" /\ inbox' = <<>> /\ frag' = 0

\* set_power / status / send_keys return and main prints the success object.
Finish(power, ch) ==
    /\ pc' = "done" /\ timer' = 0
    /\ out' = [kind |-> "ok", power |-> power, changed |-> ch, wol |-> Woken]

CanWake_AnyError(kind) ==       \* mutant: wakes a TV that answered, too
    cmd.name = "on" /\ cmd.mac /\ ~Woken

CanWake_Again(kind) ==          \* mutant: wakes as often as it fails
    cmd.name = "on" /\ cmd.mac /\ kind = "unreachable"

\* The match arm of set_power_with_wake that falls back to Wake-on-LAN.
CanWake(kind) ==
    cmd.name = "on" /\ cmd.mac /\ kind = "unreachable" /\ ~Woken

Fail_Propagate(kind) ==         \* mutant: a retry's error replaces the report
    /\ Hangup
    /\ UNCHANGED <<retry, deadline>>
    /\ pc' = "done" /\ timer' = 0 /\ out' = [NoOutput EXCEPT !.kind = kind]

\* read_power or press_power_once returns Err(kind).  set_power swallows the
\* error of a retry and reports the previous attempt; a first attempt's error
\* is the command's, unless it leads to the magic packet.
Fail(kind) ==
    /\ Hangup
    /\ UNCHANGED <<retry, deadline>>
    /\ \/ tries > 0 /\ Finish(attempt.resulting, changed)
       \/ /\ tries = 0 /\ CanWake(kind)
          /\ pc' = "wake" /\ timer' = 0 /\ UNCHANGED out
       \/ /\ tries = 0 /\ ~CanWake(kind)
          /\ pc' = "done" /\ timer' = 0 /\ out' = [NoOutput EXCEPT !.kind = kind]

\* Mutant: an unconfirmed press counts as an attempt that saw the target.
EndAttempt_Assume(ch, seen) ==
    LET resulting == IF seen = "unknown" THEN Want ELSE seen
    IN  /\ Hangup
        /\ attempt' = [changed |-> ch, resulting |-> resulting, observed |-> resulting]
        /\ changed' = (changed \/ ch)
        /\ tries' = tries + 1
        /\ UNCHANGED deadline
        /\ IF tries + 1 < POWER_ON_ATTEMPTS /\ should_retry_power_on(Want, resulting)
           THEN pc' = "backoff" /\ timer' = POWER_ON_RETRY_BACKOFF /\ UNCHANGED out
           ELSE Finish(resulting, changed \/ ch)

Again_OffByOne(seen) ==          \* mutant: one attempt too many
    tries + 1 <= POWER_ON_ATTEMPTS /\ should_retry_power_on(Want, seen)

\* The condition of set_power's loop after an attempt that ended with seen.
Again(seen) == tries + 1 < POWER_ON_ATTEMPTS /\ should_retry_power_on(Want, seen)

Pressed_Last(ch) == ch           \* mutant: changed is the last attempt's

\* Was the power key written in this attempt or in an earlier one?
Pressed(ch) == changed \/ ch

\* press_power_once returns a PowerAttempt to set_power's loop.
EndAttempt(ch, seen) ==
    LET resulting == IF seen = "unknown" THEN Want ELSE seen
    IN  /\ Hangup
        /\ attempt' = [changed |-> ch, resulting |-> resulting, observed |-> seen]
        /\ changed' = Pressed(ch)
        /\ tries' = tries + 1
        /\ UNCHANGED deadline
        /\ \/ /\ Again(seen)
              /\ pc' = "backoff" /\ timer' = POWER_ON_RETRY_BACKOFF /\ UNCHANGED out
           \/ ~Again(seen) /\ Finish(resulting, Pressed(ch))

\* The sleep between two attempts is over.
Retry ==
    /\ pc = "backoff" /\ timer = 0
    /\ pc' = "open"
    /\ UNCHANGED <<cmd, timer, out, retry, local, conn, pending, tv, magic, history>>

----------------------------------------------------------------------------
(* read_power: open the store, connect, pump messages.                      *)

\* credential_dir_from_env and TlsClient::from_credential_dir.
OpenStore ==
    /\ pc = "open"
    /\ \/ cmd.store = "missing" /\ Fail("not_paired")
       \/ cmd.store = "unusable" /\ Fail("config_io")
       \/ /\ cmd.store = "paired"
          /\ pc' = "connect" /\ timer' = CONNECT_TIMEOUT
          /\ UNCHANGED <<out, retry, deadline, conn>>
    /\ UNCHANGED <<cmd, hs, got_any, pending, tv, magic, history>>

\* connect returns once TCP is established: the TLS handshake, and with it the
\* TV's verdict on the client certificate, only happens under the first read.
ConnectOk ==
    /\ pc = "connect" /\ tv.up
    /\ link' = "open"
    /\ hs' = NewHandshake /\ got_any' = FALSE
    /\ pc' = "handshake" /\ timer' = READ_TIMEOUT
    /\ tv' = [tv EXCEPT !.greeted = FALSE, !.hello = 0, !.warm = 0]
    /\ UNCHANGED <<cmd, out, retry, deadline, inbox, frag, pending, magic, history>>

ConnectFail ==
    /\ pc = "connect"
    /\ ~tv.up \/ (Faults /\ timer = 0)
    /\ Fail("unreachable")
    /\ UNCHANGED <<cmd, hs, got_any, pending, tv, magic, history>>

Ready_NoGrace(power) ==         \* mutant: injects right after remote_start
    \/ cmd.name = "status" /\ Hangup /\ Finish(power, FALSE) /\ UNCHANGED <<retry, deadline>>
    \/ IsPower /\ ~needs_power_key(power, Want) /\ EndAttempt(FALSE, power)
    \/ /\ cmd.name # "status" /\ (IsPower => needs_power_key(power, Want))
       /\ pc' = "pause" /\ timer' = 0
       /\ inbox' = Tail(inbox) /\ frag' = 0
       /\ UNCHANGED <<link, out, retry, deadline>>

\* The power state is known: report it, find nothing to do, or prepare to
\* inject after the grace period.
Ready(power) ==
    \/ cmd.name = "status" /\ Hangup /\ Finish(power, FALSE) /\ UNCHANGED <<retry, deadline>>
    \/ IsPower /\ ~needs_power_key(power, Want) /\ EndAttempt(FALSE, power)
    \/ /\ cmd.name # "status" /\ (IsPower => needs_power_key(power, Want))
       /\ pc' = "pause" /\ timer' = KEY_INJECT_GRACE
       /\ inbox' = Tail(inbox) /\ frag' = 0
       /\ UNCHANGED <<link, out, retry, deadline>>

\* One turn of read_power's loop.
HandshakeRead ==
    /\ pc = "handshake" /\ inbox # <<>> /\ ~Undecodable(Head(inbox))
    /\ LET r == Handle(hs, Head(inbox))
       IN  /\ hs' = r.hs /\ got_any' = TRUE
           /\ \/ r.err /\ Fail("protocol_error")
              \/ r.reply # NoReply /\ link = "closed" /\ Fail("protocol_error")
              \/ /\ ~r.err /\ r.hs.power = "unknown"
                 /\ inbox' = Tail(inbox) /\ frag' = 0 /\ timer' = READ_TIMEOUT
                 /\ UNCHANGED <<pc, link, out, retry, deadline>>
              \/ ~r.err /\ r.hs.power # "unknown" /\ Ready(r.hs.power)
    /\ UNCHANGED <<cmd, pending, tv, magic, history>>

\* Why a read fails: the head frame does not decode, or there is none and the
\* connection is closed or the socket timeout has expired.
ReadError(e) ==
    \/ e = "undecodable" /\ inbox # <<>> /\ Undecodable(Head(inbox))
    \/ e = "eof" /\ inbox = <<>> /\ link = "closed"
    \/ e = "timeout" /\ inbox = <<>> /\ link = "open" /\ timer = 0

HandshakeReadError ==
    /\ pc = "handshake"
    /\ \E e \in {"undecodable", "eof", "timeout"} : ReadError(e) /\ lastread' = e
    /\ Fail(map_session_read_error(got_any))
    /\ UNCHANGED <<cmd, hs, got_any, pending, tv, magic, written, acted, waited, stale, fresh>>

\* A read got only part of a frame: the socket timeout starts again.
Fragment ==
    /\ pc \in {"handshake", "await"} /\ inbox = <<>> /\ link = "open" /\ timer > 0
    /\ tv.up /\ tv.trusts /\ frag < MaxFragments
    /\ frag' = frag + 1
    /\ timer' = IF pc = "handshake" THEN READ_TIMEOUT ELSE CONFIRM_TIMEOUT
    /\ UNCHANGED <<cmd, pc, out, retry, local, link, inbox, pending, tv, magic, history>>

----------------------------------------------------------------------------
(* press_power_once, send_keys and send_app_link.                           *)

NextInject == IF IsPower THEN "POWER" ELSE cmd.injects[Len(written) + 1]

\* The key write of press_power_once succeeded: wait for a confirmation.
StartAwait ==
    /\ pc' = "await" /\ timer' = CONFIRM_TIMEOUT /\ deadline' = CONFIRM_DEADLINE
    /\ hs' = [hs EXCEPT !.power = "unknown"]
    /\ waited' = 0 /\ stale' = Len(inbox) /\ fresh' = TRUE

NextKeyOrSettle_NoSettle ==     \* mutant: hangs up right after the last key
    /\ IF Len(written) + 1 < Len(cmd.injects)
       THEN pc' = "pause" /\ timer' = KEY_INTERVAL
       ELSE pc' = "settle" /\ timer' = 0
    /\ UNCHANGED <<hs, deadline, waited, stale, fresh>>

\* The loop of send_keys (for launch, the one write of send_app_link).
NextKeyOrSettle ==
    /\ IF Len(written) + 1 < Len(cmd.injects)
       THEN pc' = "pause" /\ timer' = KEY_INTERVAL
       ELSE pc' = "settle" /\ timer' = SEND_SETTLE
    /\ UNCHANGED <<hs, deadline, waited, stale, fresh>>

\* A write to a connection the TV has closed may fail, or may be accepted by
\* the TLS layer and lost; a write to an open one reaches the TV.
InjectFail ==
    /\ pc = "pause" /\ timer = 0 /\ link = "closed"
    /\ Fail("protocol_error")
    /\ UNCHANGED <<cmd, hs, got_any, pending, tv, magic, history>>

InjectOk ==
    /\ pc = "pause" /\ timer = 0
    /\ written' = Append(written, NextInject)
    /\ pending' = IF link = "open" THEN Append(pending, NextInject) ELSE pending
    /\ IF IsPower THEN StartAwait ELSE NextKeyOrSettle
    /\ UNCHANGED <<cmd, out, retry, got_any, conn, tv, magic, acted, lastread>>

\* The sleep after the last inject is over; the connection is dropped.
Settled ==
    /\ pc = "settle" /\ timer = 0
    /\ Hangup /\ Finish("unknown", FALSE)
    /\ UNCHANGED <<cmd, retry, local, pending, tv, magic, history>>

PastDeadline_Never == FALSE      \* mutant: only the socket timeouts end a loop

\* Instant::now() >= deadline, in the confirmation loop and in wait_for_port.
PastDeadline == deadline = 0

\* One turn of the confirmation loop: handle's errors and failed replies are
\* ignored; the deadline is only looked at before the next read.
AwaitRead ==
    /\ pc = "await" /\ inbox # <<>> /\ ~Undecodable(Head(inbox))
    /\ LET r == Handle(hs, Head(inbox))
           seen == r.hs.power
       IN  /\ hs' = r.hs
           /\ fresh' = IF Branch(Head(inbox)) = "remote_start" THEN stale = 0 ELSE fresh
           /\ \/ (seen = Want \/ PastDeadline) /\ EndAttempt(TRUE, seen)
              \/ /\ seen # Want /\ ~PastDeadline
                 /\ inbox' = Tail(inbox) /\ frag' = 0 /\ timer' = CONFIRM_TIMEOUT
                 /\ UNCHANGED <<pc, link, out, retry, deadline>>
    /\ stale' = IF stale > 0 THEN stale - 1 ELSE 0
    /\ UNCHANGED <<cmd, got_any, pending, tv, magic, written, acted, waited, lastread>>

AwaitReadError ==
    /\ pc = "await"
    /\ \E e \in {"undecodable", "eof", "timeout"} : ReadError(e) /\ lastread' = e
    /\ EndAttempt(TRUE, hs.power)
    /\ UNCHANGED <<cmd, hs, got_any, pending, tv, magic, written, acted, waited, stale, fresh>>

----------------------------------------------------------------------------
(* set_power_with_wake: the magic packet and wait_for_port.                 *)

WakeSent ==
    /\ pc = "wake"
    /\ magic' = "inflight"
    /\ pc' = "poll" /\ timer' = POLL_TIMEOUT /\ deadline' = WOL_WAIT
    /\ waited' = 0
    /\ UNCHANGED <<cmd, out, retry, hs, got_any, conn, pending, tv, written, acted, stale,
                   fresh, lastread>>

WakeFail ==             \* send_magic_packet returned an error
    /\ pc = "wake" /\ Faults
    /\ pc' = "done" /\ out' = [NoOutput EXCEPT !.kind = "protocol_error"]
    /\ UNCHANGED <<cmd, timer, retry, local, conn, pending, tv, magic, history>>

PollOk ==               \* the port answers: run set_power again
    /\ pc = "poll" /\ tv.up
    /\ pc' = "open" /\ timer' = 0
    /\ UNCHANGED <<cmd, out, retry, local, conn, pending, tv, magic, history>>

PollFail ==
    /\ pc = "poll"
    /\ ~tv.up \/ (Faults /\ timer = 0)
    /\ pc' = "pollpause" /\ timer' = POLL_PAUSE
    /\ UNCHANGED <<cmd, out, retry, local, conn, pending, tv, magic, history>>

PollAgain ==            \* the loop condition of wait_for_port
    /\ pc = "pollpause" /\ timer = 0
    /\ \/ /\ ~PastDeadline
          /\ pc' = "poll" /\ timer' = POLL_TIMEOUT /\ UNCHANGED out
       \/ /\ PastDeadline
          /\ pc' = "done" /\ UNCHANGED timer
          /\ out' = [NoOutput EXCEPT !.kind = "unreachable"]
    /\ UNCHANGED <<cmd, retry, local, conn, pending, tv, magic, history>>

----------------------------------------------------------------------------
(* The TV (external).                                                       *)

Deliver(m) == inbox' = Append(inbox, [m EXCEPT !.started = tv.power])

Start == [fields |-> {"remote_start"}, code1 |-> {}, val1 |-> 0, started |-> "off"]

CanSend == link = "open" /\ tv.up /\ tv.trusts /\ Len(inbox) < MaxInbox

\* remote_start: the power state, once when the session is ready and again
\* whenever the TV likes.  Keys are ignored for a moment after the first one.
TVStart ==
    /\ CanSend /\ (tv.greeted => tv.quota > 0)
    /\ Deliver(Start)
    /\ tv' = IF tv.greeted THEN [tv EXCEPT !.quota = @ - 1]
             ELSE [tv EXCEPT !.greeted = TRUE, !.warm = EarlyWindow]
    /\ UNCHANGED <<cmd, pc, timer, out, retry, local, link, frag, pending, magic, history>>

TVChat ==
    /\ CanSend /\ tv.quota > 0
    /\ tv.greeted \/ Babble \/ tv.hello < MaxHello
    /\ \E m \in Chat : Deliver(m)
    /\ tv' = [tv EXCEPT !.quota = @ - 1,
                        !.hello = IF tv.greeted \/ Babble THEN @ ELSE @ + 1]
    /\ UNCHANGED <<cmd, pc, timer, out, retry, local, link, frag, pending, magic, history>>

TVClose ==
    /\ link = "open" /\ (Faults \/ ~tv.trusts)
    /\ link' = "closed"
    /\ UNCHANGED <<cmd, pc, timer, out, retry, local, inbox, frag, pending, tv, magic, history>>

Flip(power) == IF power = "on" THEN "off" ELSE "on"

TVKey ==                \* the power key toggles
    /\ pending # <<>> /\ tv.up /\ tv.warm = 0
    /\ pending' = Tail(pending)
    /\ acted' = Append(acted, Head(pending))
    /\ tv' = IF Head(pending) = "POWER" THEN [tv EXCEPT !.power = Flip(@)] ELSE tv
    /\ UNCHANGED <<cmd, client, magic, written, waited, stale, fresh, lastread>>

TVDropKey ==            \* too early, still shutting down, or gone
    /\ pending # <<>>
    /\ ~tv.up \/ tv.warm > 0 \/ tv.drops < MaxDrops
    /\ pending' = Tail(pending)
    /\ tv' = IF tv.up /\ tv.warm = 0 THEN [tv EXCEPT !.drops = @ + 1] ELSE tv
    /\ UNCHANGED <<cmd, client, magic, history>>

TVOutside ==            \* somebody else uses the TV during the command
    /\ pc # "done" /\ tv.outside < MaxOutside
    /\ tv' = [tv EXCEPT !.power = Flip(@), !.outside = @ + 1]
    /\ UNCHANGED <<cmd, client, pending, magic, history>>

TVSleep ==              \* deep standby, or off the network
    /\ pc # "done" /\ Faults /\ tv.up
    /\ tv' = [tv EXCEPT !.up = FALSE]
    /\ UNCHANGED <<cmd, client, pending, magic, history>>

\* The magic packet arrives, while the client polls or never: the network comes
\* back, and the screen with it or not.  (A screen that follows later is a power
\* change from outside.)
TVWake ==
    /\ magic = "inflight" /\ pc \in {"poll", "pollpause"} /\ ~tv.up
    /\ magic' = "used"
    /\ \E p \in {tv.power, "on"} : tv' = [tv EXCEPT !.up = TRUE, !.power = p]
    /\ UNCHANGED <<cmd, client, pending, history>>

----------------------------------------------------------------------------
(* Time.                                                                    *)

Minus1(n) == IF n > 0 THEN n - 1 ELSE 0

Waiting ==              \* the client is inside a blocking call
    \/ pc \in {"connect", "pause", "backoff", "settle", "poll", "pollpause"}
    \/ pc \in {"handshake", "await"} /\ inbox = <<>> /\ link = "open"

Tick ==
    /\ Waiting /\ timer > 0
    /\ ~SlowTV => pending = <<>>
    /\ (~Faults /\ tv.trusts /\ pc = "handshake" /\ timer = 1) => tv.greeted
    /\ timer' = timer - 1 /\ deadline' = Minus1(deadline)
    /\ waited' = IF pc \in {"await", "poll", "pollpause"} THEN waited + 1 ELSE waited
    /\ tv' = [tv EXCEPT !.quota = Rate, !.warm = Minus1(@)]
    /\ UNCHANGED <<cmd, pc, out, retry, hs, got_any, conn, pending, magic,
                   written, acted, stale, fresh, lastread>>

Terminated == pc = "done" /\ pending = <<>> /\ UNCHANGED vars

----------------------------------------------------------------------------
ClientStep ==
    \/ OpenStore \/ ConnectOk \/ ConnectFail \/ HandshakeRead \/ HandshakeReadError
    \/ InjectFail \/ InjectOk \/ Settled \/ AwaitRead \/ AwaitReadError \/ Retry
    \/ WakeSent \/ WakeFail \/ PollOk \/ PollFail \/ PollAgain

TVStep ==
    \/ Fragment \/ TVStart \/ TVChat \/ TVClose \/ TVKey \/ TVDropKey
    \/ TVOutside \/ TVSleep \/ TVWake

Next == ClientStep \/ TVStep \/ Tick \/ Terminated

Spec == Init /\ [][Next]_vars

\* The client's thread runs, time passes, and the TV takes a key it received
\* (or loses it).  Nothing else is asked of the TV.
Fairness == WF_vars(ClientStep) /\ WF_vars(Tick) /\ WF_vars(TVKey \/ TVDropKey)

FairSpec == Spec /\ Fairness

----------------------------------------------------------------------------
(* Properties.                                                              *)

Succeeded == pc = "done" /\ out.kind = "ok"

\* Nobody else uses the TV, and it acts on a key within the tick it gets it.
Undisturbed == MaxOutside = 0 /\ ~SlowTV

\* set_power: changed in the output says exactly whether a power key was
\* written, over all attempts, even when the last attempt failed; and a command
\* that reports an error has written none.
PressAccounting ==
    pc = "done" /\ IsPower =>
        IF out.kind = "ok" THEN out.changed <=> written # <<>> ELSE written = <<>>

\* set_power: off presses at most once, on at most POWER_ON_ATTEMPTS times over
\* all connections, the Wake-on-LAN fallback included, and status never.
PressBudget ==
    /\ cmd.name = "on" => Len(written) <= POWER_ON_ATTEMPTS
    /\ cmd.name = "off" => Len(written) <= 1
    /\ cmd.name = "status" => Len(written) = 0

\* The toggle is never pressed twice: once the TV is in the requested state,
\* no retry of on / off takes it out of that state again.
NeverUndone ==
    [][Undisturbed /\ IsPower /\ tv.power = Want => tv'.power = Want]_vars

\* A state the command read off the TV (status, a no-op, a confirmed press) is
\* the TV's state when the command reports it.
ReportIsTrue ==
    Undisturbed /\ Succeeded /\ (cmd.name = "status" \/ (IsPower /\ attempt.observed = Want))
        => out.power = tv.power

\* press_power_once: the confirmation loop ends within its deadline plus one
\* read, each part of a frame counted with a socket timeout of its own.
AwaitBounded ==
    pc = "await" =>
        waited <= CONFIRM_DEADLINE - 1 + CONFIRM_TIMEOUT * (1 + MaxFragments)

\* wait_for_port: its loop ends within its budget plus the connect and the sleep
\* that the last look at the deadline still lets through, port or no port.
WakeBounded ==
    pc \in {"poll", "pollpause"} => waited <= WOL_WAIT - 1 + POLL_TIMEOUT + POLL_PAUSE

\* KEY_INJECT_GRACE: no key reaches the TV while it still ignores keys after
\* remote_start.
KeyAfterGrace == ~SlowTV /\ pending # <<>> => tv.warm = 0

\* set_power_with_wake: a magic packet is only considered for a TV that no
\* connection was made to: nothing was read from it, not even the end of a
\* session that rejects the certificate, and no key was written.
WakeIsLastResort ==
    pc \in {"wake", "poll", "pollpause"} =>
        ~got_any /\ written = <<>> /\ link = "down" /\ lastread = "none"

\* The retries of on do what they are for: a TV that stays reachable and
\* ignores fewer presses than there are attempts is on when on succeeds.
PersistentOn ==
    /\ Undisturbed /\ ~Faults /\ MaxDrops < POWER_ON_ATTEMPTS
    /\ Succeeded /\ cmd.name = "on"
    => tv.power = "on"

\* send_keys / send_app_link: the injects are written in order, and all of them
\* on success.  What the TV acts on is what was written, in order and without a
\* gap; and when the connection is dropped (after SEND_SETTLE, "so the TV has
\* processed the message before we close on it") the TV has acted on every one,
\* if it has not closed the connection before.  A key written to a connection
\* that the TV has closed can be lost, and the command reports success for it.
\* (The TV is one that ignores no key itself, drops = 0, and acts on a key
\* within the tick in which it gets it, ~SlowTV.)
KeysDelivered ==
    cmd.name \in {"key", "launch"} =>
        /\ written = SubSeq(cmd.injects, 1, Len(written))
        /\ Succeeded => written = cmd.injects
        /\ ~SlowTV /\ tv.drops = 0 =>
               /\ acted = SubSeq(cmd.injects, 1, Len(acted))
               /\ pc = "settle" /\ timer = 0 /\ link = "open" /\ tv.up
                      => acted = cmd.injects

\* Every command ends: no sequence of faults, pings or silences holds it open.
Termination == <>(pc = "done")

(* What the documentation says and the code does not guarantee.             *)

\* press_power_once's comment: any state seen after the key is an observation
\* made after the key.
ObservationIsFresh ==
    pc = "done" /\ IsPower /\ attempt.changed /\ attempt.observed # "unknown" => fresh

\* README: auth_rejected means that the TV closed the session.
AuthRejectedMeansClosed == out.kind = "auth_rejected" => lastread = "eof"

\* README: because every retry re-reads the state, on never undoes itself.
OnIsIdempotent ==
    [][MaxOutside = 0 /\ cmd.name = "on" /\ tv.power = "on" => tv'.power = "on"]_vars
==============================================================================
