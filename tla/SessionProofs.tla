---------------------------- MODULE SessionProofs ----------------------------
(***************************************************************************)
(* Theorems about Session, for every set of commands, every chat, every    *)
(* duration and every bound of the environment.                            *)
(***************************************************************************)
EXTENDS Session, SequenceTheorems, TLAPS

\* The part of TypeOK that the end of an attempt touches.
EndTyped ==
    /\ pc \in PC /\ timer \in Nat /\ deadline \in Nat
    /\ tries \in Nat /\ (pc # "done" => tries < POWER_ON_ATTEMPTS)
    /\ changed \in BOOLEAN /\ attempt \in PowerAttempt /\ out \in Output
    /\ link \in {"down", "open", "closed"}
    /\ inbox \in Seq(RemoteMessage) /\ frag \in Nat

SendsKeys == cmd.name \in {"key", "launch"}

\* Which calls a command can be in, and how far set_power's loop is.
Phase ==
    /\ ~IsPower => tries = 0
    /\ pc \in {"await", "backoff"} => IsPower
    /\ pc = "settle" => SendsKeys
    /\ pc = "pause" => cmd.name # "status"
    /\ pc \in {"wake", "poll", "pollpause"} => cmd.name = "on" /\ tries = 0
    /\ tries > 0 /\ pc # "done" => cmd.name = "on" /\ tries < POWER_ON_ATTEMPTS
    /\ tries <= POWER_ON_ATTEMPTS
    /\ cmd.name = "off" => tries <= 1
    /\ pc # "done" => out.kind = "none"

\* The power keys written, against what set_power remembers of them.
Presses ==
    /\ IsPower => Len(written) <= IF pc = "await" THEN tries + 1 ELSE tries
    /\ IsPower /\ pc # "await" => (changed <=> written # <<>>)
    /\ IsPower /\ pc = "done" =>
           IF out.kind = "ok" THEN out.changed = changed ELSE written = <<>>
    /\ pc = "await" => written # <<>>
    /\ cmd.name = "status" => written = <<>>

\* The injects written, against the arguments of key / launch.
Keys ==
    SendsKeys =>
        /\ pc \in {"open", "connect", "handshake"} => written = <<>>
        /\ pc = "pause" => Len(written) < Len(cmd.injects)
        /\ pc = "settle" => Len(written) = Len(cmd.injects)
        /\ Len(written) <= Len(cmd.injects)
        /\ \A i \in 1..Len(written) : written[i] = cmd.injects[i]
        /\ pc = "done" /\ out.kind = "ok" => Len(written) = Len(cmd.injects)

\* The clocks of the confirmation loop.
AwaitClock ==
    /\ pc = "pause" => frag = 0
    /\ pc = "await" =>
           /\ frag <= MaxFragments
           /\ deadline > 0 => waited + deadline = CONFIRM_DEADLINE
           /\ waited + timer + CONFIRM_TIMEOUT * (MaxFragments - frag)
                <= CONFIRM_DEADLINE - 1 + CONFIRM_TIMEOUT * (1 + MaxFragments)

\* The clocks of wait_for_port.
WakeClock ==
    /\ pc \in {"poll", "pollpause"} /\ deadline > 0 => waited + deadline = WOL_WAIT
    /\ pc = "poll" => waited + timer <= WOL_WAIT - 1 + POLL_TIMEOUT
    /\ pc = "pollpause" => waited + timer <= WOL_WAIT - 1 + POLL_TIMEOUT + POLL_PAUSE

Books == Phase /\ Presses /\ Keys

ClientInv == TypeOK /\ Books /\ AwaitClock

----------------------------------------------------------------------------
\* SessionHandshake::handle keeps a handshake state well formed.
LEMMA HandleType ==
    ASSUME NEW h \in HandshakeState, NEW m \in RemoteMessage
    PROVE  Handle(h, m).hs \in HandshakeState
  <1>1. Negotiate(h.active_features, m.code1) \in SUBSET Feature
    BY DEF Negotiate, HandshakeState, RemoteMessage
  <1> QED
    BY <1>1 DEF Handle, HandshakeState, RemoteMessage, PowerView, Power

\* What a read takes off the inbox is a message, and what is left is an inbox.
LEMMA InboxType ==
    ASSUME NEW q \in Seq(RemoteMessage), q # <<>>
    PROVE  Head(q) \in RemoteMessage /\ Tail(q) \in Seq(RemoteMessage)
  BY HeadTailProperties

\* The durations and bounds are natural numbers.
LEMMA Bounds ==
    /\ POWER_ON_ATTEMPTS \in Nat \ {0} /\ POWER_ON_RETRY_BACKOFF \in Nat \ {0}
    /\ CONFIRM_TIMEOUT \in Nat \ {0} /\ CONFIRM_DEADLINE \in Nat \ {0}
    /\ READ_TIMEOUT \in Nat \ {0} /\ WOL_WAIT \in Nat \ {0}
    /\ KEY_INJECT_GRACE \in Nat /\ KEY_INTERVAL \in Nat /\ SEND_SETTLE \in Nat \ {0}
    /\ CONNECT_TIMEOUT \in Nat /\ POLL_TIMEOUT \in Nat /\ POLL_PAUSE \in Nat
    /\ MaxFragments \in Nat /\ Rate \in Nat /\ EarlyWindow \in Nat
    /\ EarlyWindow <= KEY_INJECT_GRACE
  BY TimeAssumption, EnvAssumption

\* What the command prints is an Output, whichever way it ends.
LEMMA OutputType ==
    ASSUME NEW kind \in ErrorKind, NEW p \in PowerView, NEW ch \in BOOLEAN
    PROVE  /\ [NoOutput EXCEPT !.kind = kind] \in Output
           /\ [kind |-> "ok", power |-> p, changed |-> ch, wol |-> Woken] \in Output
  <1>1. Woken \in BOOLEAN
    BY DEF Woken
  <1> QED
    BY <1>1 DEF NoOutput, PowerView, Output

\* A failing attempt leaves the client's variables well typed.
LEMMA FailType ==
    ASSUME NEW kind \in ErrorKind, TypeOK, Fail(kind)
    PROVE  EndTyped'
  <1>1. attempt.resulting \in PowerView /\ changed \in BOOLEAN
    BY DEF TypeOK, PowerAttempt
  <1>2. out' \in Output
    BY <1>1, OutputType DEF Fail, Finish, TypeOK
  <1>3. /\ pc' \in PC /\ timer' \in Nat /\ deadline' \in Nat
        /\ tries' \in Nat /\ changed' = changed /\ attempt' = attempt
    BY DEF TypeOK, Fail, Finish, PC, retry
  <1>4. link' = "down" /\ inbox' = <<>> /\ frag' = 0
    BY DEF Fail, Hangup
  <1>5. pc' # "done" => tries' < POWER_ON_ATTEMPTS
    <2>1. pc' # "done" => tries = 0 /\ tries' = tries
      BY DEF Fail, Finish, retry
    <2> QED
      BY <2>1, Bounds
  <1> QED
    BY <1>2, <1>3, <1>4, <1>5, EmptySeq DEF TypeOK, EndTyped

\* So does the end of an attempt.
LEMMA EndAttemptType ==
    ASSUME NEW ch \in BOOLEAN, NEW seen \in PowerView, TypeOK, EndAttempt(ch, seen)
    PROVE  EndTyped'
  <1> DEFINE resulting == IF seen = "unknown" THEN Want ELSE seen
  <1>1. resulting \in PowerView /\ (changed \/ ch) \in BOOLEAN
    BY DEF Want, PowerView, Power
  <1>2. out' \in Output
    BY <1>1, OutputType, Bounds DEF EndAttempt, Finish, TypeOK, ErrorKind, Pressed, Again
  <1>3. attempt' \in PowerAttempt /\ changed' \in BOOLEAN
    BY <1>1 DEF EndAttempt, PowerAttempt, Pressed, Again
  <1>4. pc' \in PC /\ timer' \in Nat /\ deadline' \in Nat /\ tries' \in Nat
    BY Bounds DEF TypeOK, EndAttempt, Finish, PC, Pressed, Again
  <1>5. link' = "down" /\ inbox' = <<>> /\ frag' = 0
    BY DEF EndAttempt, Hangup, Pressed, Again
  <1>6. pc' # "done" => tries' < POWER_ON_ATTEMPTS
    BY DEF EndAttempt, Finish, Again
  <1> QED
    BY <1>2, <1>3, <1>4, <1>5, <1>6, EmptySeq DEF EndTyped

\* The injects left of a key / launch command are injects.
LEMMA NextInjectType ==
    ASSUME TypeOK, Books, pc = "pause"
    PROVE  NextInject \in Inject
  <1>1. CASE IsPower
    BY <1>1 DEF NextInject, Inject
  <1>2. CASE ~IsPower
    <2>1. SendsKeys /\ cmd.injects \in Seq(Inject)
      BY <1>2, CommandsAssumption DEF TypeOK, Books, Phase, IsPower, SendsKeys, Command
    <2>2. Len(written) + 1 \in 1..Len(cmd.injects)
      BY <2>1, LenProperties DEF Books, Keys, TypeOK
    <2> QED
      BY <1>2, <2>1, <2>2, ElementOfSeq DEF NextInject
  <1> QED
    BY <1>1, <1>2

\* A message the TV sends is a message.
LEMMA DeliverType ==
    ASSUME TypeOK, NEW m \in RemoteMessage, Deliver(m)
    PROVE  inbox' \in Seq(RemoteMessage)
  <1>1. [m EXCEPT !.started = tv.power] \in RemoteMessage
    BY DEF TypeOK, TV, RemoteMessage
  <1> QED
    BY <1>1, AppendProperties DEF Deliver, TypeOK

\* The TV's counters are numbers.
LEMMA TVNumbers ==
    ASSUME NEW t \in TV
    PROVE  /\ t.hello \in Nat /\ t.quota \in Nat /\ t.warm \in Nat
           /\ t.drops \in Nat /\ t.outside \in Nat
  BY DEF TV

\* Sending a message uses up quota.
LEMMA TVQuota ==
    ASSUME NEW t \in TV, t.quota > 0
    PROVE  [t EXCEPT !.quota = t.quota - 1] \in TV
  <1>1. t.quota - 1 \in Nat
    BY TVNumbers
  <1> QED
    BY <1>1 DEF TV

\* Every step keeps every variable in its type.
LEMMA TypeStep ==
    ASSUME TypeOK, Books, [Next]_vars
    PROVE  TypeOK'
  <1> USE Bounds
  <1>1. CASE OpenStore
    <2>1. EndTyped'
      BY <1>1, FailType DEF OpenStore, ErrorKind, EndTyped, TypeOK, PC, retry, conn
    <2> QED
      BY <1>1, <2>1 DEF OpenStore, EndTyped, TypeOK, history
  <1>2. CASE ConnectOk
    <2>1. hs' \in HandshakeState
      BY <1>2 DEF ConnectOk, NewHandshake, HandshakeState, PowerView, FEATURES, Feature
    <2> QED
      BY <1>2, <2>1 DEF ConnectOk, TypeOK, TV, PC, retry, history
  <1>3. CASE ConnectFail
    <2>1. EndTyped'
      BY <1>3, FailType DEF ConnectFail, ErrorKind
    <2> QED
      BY <1>3, <2>1 DEF ConnectFail, EndTyped, TypeOK, history
  <1>4. CASE HandshakeRead
    <2> DEFINE r == Handle(hs, Head(inbox))
    <2>1. Head(inbox) \in RemoteMessage /\ Tail(inbox) \in Seq(RemoteMessage)
      BY <1>4, InboxType DEF HandshakeRead, TypeOK
    <2>2. r.hs \in HandshakeState /\ r.hs.power \in PowerView
      BY <2>1, HandleType DEF TypeOK, HandshakeState
    <2>3. hs' = r.hs /\ got_any' = TRUE
      BY <1>4 DEF HandshakeRead
    <2>4. EndTyped'
      <3>1. CASE Fail("protocol_error")
        BY <3>1, FailType DEF ErrorKind
      <3>2. CASE EndAttempt(FALSE, r.hs.power)
        BY <3>2, <2>2, EndAttemptType
      <3>3. CASE Hangup /\ Finish(r.hs.power, FALSE) /\ UNCHANGED <<retry, deadline>>
        <4>1. out' \in Output
          BY <2>2, <3>3, OutputType DEF Finish, ErrorKind
        <4> QED
          BY <3>3, <4>1, EmptySeq DEF Hangup, Finish, TypeOK, EndTyped, PC, retry
      <3>4. CASE /\ pc' = "pause" /\ timer' = KEY_INJECT_GRACE
                 /\ inbox' = Tail(inbox) /\ frag' = 0
                 /\ UNCHANGED <<link, out, retry, deadline>>
        <4>1. pc # "done" /\ pc' \in PC
          BY <1>4, <3>4 DEF HandshakeRead, PC
        <4> QED
          BY <2>1, <3>4, <4>1 DEF TypeOK, EndTyped, retry
      <3>5. CASE /\ inbox' = Tail(inbox) /\ frag' = 0 /\ timer' = READ_TIMEOUT
                 /\ UNCHANGED <<pc, link, out, retry, deadline>>
        BY <2>1, <3>5 DEF TypeOK, EndTyped, retry
      <3> QED
        BY <1>4, <3>1, <3>2, <3>3, <3>4, <3>5 DEF HandshakeRead, Ready
    <2> QED
      BY <1>4, <2>2, <2>3, <2>4 DEF HandshakeRead, EndTyped, TypeOK, history
  <1>5. CASE HandshakeReadError
    <2>1. EndTyped'
      BY <1>5, FailType DEF HandshakeReadError, map_session_read_error, ErrorKind
    <2> QED
      BY <1>5, <2>1 DEF HandshakeReadError, EndTyped, TypeOK
  <1>6. CASE Fragment
    BY <1>6 DEF Fragment, TypeOK, retry, local, history
  <1>7. CASE InjectFail
    <2>1. EndTyped'
      BY <1>7, FailType DEF InjectFail, ErrorKind
    <2> QED
      BY <1>7, <2>1 DEF InjectFail, EndTyped, TypeOK, history
  <1>8. CASE InjectOk
    <2>1. NextInject \in Inject
      BY <1>8, NextInjectType DEF InjectOk
    <2>2. written' \in Seq(Inject) /\ pending' \in Seq(Inject)
      BY <1>8, <2>1, AppendProperties DEF InjectOk, TypeOK
    <2>3. /\ pc' \in PC /\ timer' \in Nat /\ deadline' \in Nat
          /\ hs' \in HandshakeState /\ waited' \in Nat /\ stale' \in Nat
      <3>1. CASE IsPower
        <4>1. [hs EXCEPT !.power = "unknown"] \in HandshakeState
          BY DEF TypeOK, HandshakeState, PowerView
        <4>2. Len(inbox) \in Nat
          BY LenProperties DEF TypeOK
        <4> QED
          <5>1. /\ pc' = "await" /\ timer' = CONFIRM_TIMEOUT
                /\ deadline' = CONFIRM_DEADLINE /\ waited' = 0 /\ stale' = Len(inbox)
            BY <1>8, <3>1 DEF InjectOk, StartAwait
          <5>2. hs' \in HandshakeState
            BY <1>8, <3>1, <4>1 DEF InjectOk, StartAwait
          <5> QED
            BY <4>2, <5>1, <5>2 DEF PC
      <3>2. CASE ~IsPower
        BY <1>8, <3>2 DEF InjectOk, NextKeyOrSettle, TypeOK, PC
      <3> QED
        BY <3>1, <3>2
    <2>4. fresh' \in BOOLEAN
      BY <1>8 DEF InjectOk, StartAwait, NextKeyOrSettle, TypeOK
    <2> QED
      BY <1>8, <2>2, <2>3, <2>4 DEF InjectOk, TypeOK, retry, conn
  <1>9. CASE Settled
    <2>1. out' \in Output
      BY <1>9, OutputType DEF Settled, Finish, PowerView, ErrorKind
    <2> QED
      BY <1>9, <2>1, EmptySeq DEF Settled, Hangup, Finish, TypeOK, PC, retry, local, history
  <1>10. CASE AwaitRead
    <2> DEFINE r == Handle(hs, Head(inbox))
    <2>1. Head(inbox) \in RemoteMessage /\ Tail(inbox) \in Seq(RemoteMessage)
      BY <1>10, InboxType DEF AwaitRead, TypeOK, PastDeadline
    <2>2. r.hs \in HandshakeState /\ r.hs.power \in PowerView
      BY <2>1, HandleType DEF TypeOK, HandshakeState
    <2>3. hs' = r.hs /\ stale' \in Nat
      BY <1>10 DEF AwaitRead, TypeOK, PastDeadline
    <2>4. fresh' \in BOOLEAN
      BY <1>10 DEF AwaitRead, TypeOK, PastDeadline
    <2>5. EndTyped'
      <3>1. CASE EndAttempt(TRUE, r.hs.power)
        BY <2>2, <3>1, EndAttemptType
      <3>2. CASE /\ inbox' = Tail(inbox) /\ frag' = 0 /\ timer' = CONFIRM_TIMEOUT
                 /\ UNCHANGED <<pc, link, out, retry, deadline>>
        BY <2>1, <3>2 DEF TypeOK, EndTyped, retry
      <3> QED
        BY <1>10, <3>1, <3>2 DEF AwaitRead, PastDeadline
    <2> QED
      BY <1>10, <2>2, <2>3, <2>4, <2>5 DEF AwaitRead, EndTyped, TypeOK, PastDeadline
  <1>11. CASE AwaitReadError
    <2>1. hs.power \in PowerView
      BY DEF TypeOK, HandshakeState
    <2>2. EndTyped'
      BY <1>11, <2>1, EndAttemptType DEF AwaitReadError
    <2> QED
      BY <1>11, <2>2 DEF AwaitReadError, EndTyped, TypeOK
  <1>12. CASE Retry
    BY <1>12 DEF Retry, TypeOK, PC, retry, local, conn, history
  <1>13. CASE WakeSent
    BY <1>13 DEF WakeSent, TypeOK, PC, retry, conn, history
  <1>14. CASE WakeFail
    <2>1. out' \in Output
      BY <1>14, OutputType DEF WakeFail, ErrorKind, PowerView
    <2> QED
      BY <1>14, <2>1 DEF WakeFail, TypeOK, PC, retry, local, conn, history
  <1>15. CASE PollOk
    BY <1>15 DEF PollOk, TypeOK, PC, retry, local, conn, history
  <1>16. CASE PollFail
    BY <1>16 DEF PollFail, TypeOK, PC, retry, local, conn, history
  <1>17. CASE PollAgain
    <2>1. out' \in Output
      BY <1>17, OutputType DEF PollAgain, ErrorKind, PowerView, TypeOK, PastDeadline
    <2> QED
      BY <1>17, <2>1, ZenonT(60) DEF PollAgain, TypeOK, PC, retry, local, conn, history, PastDeadline
  <1>18. CASE TVStart
    <2>1. Start \in RemoteMessage
      BY DEF Start, RemoteMessage, Field, HandleOrder, Power
    <2>2. inbox' \in Seq(RemoteMessage)
      BY <1>18, <2>1, DeliverType DEF TVStart
    <2>3. tv' \in TV
      <3>1. CASE tv.greeted
        <4>1. tv.quota > 0 /\ tv' = [tv EXCEPT !.quota = tv.quota - 1]
          BY <1>18, <3>1 DEF TVStart
        <4> QED
          BY <4>1, TVQuota DEF TypeOK
      <3>2. CASE ~tv.greeted
        BY <1>18, <3>2 DEF TVStart, TypeOK, TV
      <3> QED
        BY <3>1, <3>2
    <2> QED
      BY <1>18, <2>2, <2>3 DEF TVStart, TypeOK, retry, local, history
  <1>19. CASE TVChat
    <2>1. inbox' \in Seq(RemoteMessage)
      BY <1>19, DeliverType, ChatAssumption DEF TVChat
    <2>2. tv' \in TV
      <3> DEFINE h == IF tv.greeted \/ Babble THEN tv.hello ELSE tv.hello + 1
      <3>0. h \in Nat /\ tv.quota \in Nat
        BY TVNumbers DEF TypeOK
      <3>1. h \in Nat /\ tv.quota \in Nat /\ tv.quota > 0
        BY <1>19, <3>0 DEF TVChat
      <3>2. tv' = [tv EXCEPT !.quota = tv.quota - 1, !.hello = h]
        BY <1>19 DEF TVChat
      <3> HIDE DEF h
      <3>3. tv.quota - 1 \in Nat
        BY <3>1
      <3> QED
        BY <3>1, <3>2, <3>3 DEF TypeOK, TV
    <2> QED
      BY <1>19, <2>1, <2>2 DEF TVChat, TypeOK, retry, local, history
  <1>20. CASE TVClose
    BY <1>20 DEF TVClose, TypeOK, retry, local, history
  <1>21. CASE TVKey
    <2>1. pending' \in Seq(Inject) /\ acted' \in Seq(Inject)
      BY <1>21, HeadTailProperties, AppendProperties DEF TVKey, TypeOK
    <2>2. tv' \in TV
      BY <1>21 DEF TVKey, TypeOK, TV, Flip, Power
    <2> QED
      BY <1>21, <2>1, <2>2 DEF TVKey, TypeOK, client, retry, local, conn
  <1>22. CASE TVDropKey
    <2>1. pending' \in Seq(Inject)
      BY <1>22, HeadTailProperties DEF TVDropKey, TypeOK
    <2>2. tv' \in TV
      <3>1. tv' = tv \/ tv' = [tv EXCEPT !.drops = tv.drops + 1]
        BY <1>22 DEF TVDropKey
      <3>2. tv.drops + 1 \in Nat
        BY TVNumbers DEF TypeOK
      <3> QED
        BY <3>1, <3>2 DEF TypeOK, TV
    <2> QED
      BY <1>22, <2>1, <2>2 DEF TVDropKey, TypeOK, client, retry, local, conn, history
  <1>23. CASE TVOutside
    <2>1. tv' \in TV
      <3>1. tv.outside + 1 \in Nat /\ Flip(tv.power) \in Power
        BY TVNumbers DEF TypeOK, Flip, Power
      <3>2. tv' = [tv EXCEPT !.power = Flip(tv.power), !.outside = tv.outside + 1]
        BY <1>23 DEF TVOutside
      <3> QED
        BY <3>1, <3>2 DEF TypeOK, TV
    <2> QED
      BY <1>23, <2>1 DEF TVOutside, TypeOK, client, retry, local, conn, history
  <1>24. CASE TVSleep
    BY <1>24, ZenonT(60) DEF TVSleep, TypeOK, TV, client, retry, local, conn, history
  <1>25. CASE TVWake
    <2>1. tv' \in TV
      BY <1>25, ZenonT(60) DEF TVWake, TypeOK, TV, Power
    <2> QED
      BY <1>25, <2>1 DEF TVWake, TypeOK, client, retry, local, conn, history
  <1>26. CASE Tick
    <2>1. tv' \in TV
      <3>1. Minus1(tv.warm) \in Nat
        BY DEF Minus1, TypeOK, TV
      <3>2. tv' = [tv EXCEPT !.quota = Rate, !.warm = Minus1(tv.warm)]
        BY <1>26 DEF Tick
      <3> QED
        BY <3>1, <3>2 DEF TypeOK, TV
    <2>2. timer' \in Nat /\ deadline' \in Nat /\ waited' \in Nat
      <3>1. /\ timer > 0 /\ timer' = timer - 1 /\ deadline' = Minus1(deadline)
            /\ waited' = IF pc \in {"await", "poll", "pollpause"} THEN waited + 1 ELSE waited
        BY <1>26 DEF Tick
      <3> QED
        BY <3>1 DEF Minus1, TypeOK
    <2> QED
      BY <1>26, <2>1, <2>2 DEF Tick, TypeOK, retry, conn
  <1>27. CASE UNCHANGED vars
    BY <1>27 DEF vars, TypeOK, client, retry, local, conn, history
  <1> QED
    BY <1>1, <1>2, <1>3, <1>4, <1>5, <1>6, <1>7, <1>8, <1>9, <1>10, <1>11, <1>12,
       <1>13, <1>14, <1>15, <1>16, <1>17, <1>18, <1>19, <1>20, <1>21, <1>22, <1>23,
       <1>24, <1>25, <1>26, <1>27 DEF Next, ClientStep, TVStep, Terminated

----------------------------------------------------------------------------
(* The bookkeeping of set_power, send_keys and send_app_link.               *)

\* An attempt that returns an error before it wrote a key keeps the books: the
\* error of a first attempt is reported with nothing written, and the error of
\* a retry is replaced by what the attempts before it did.
LEMMA FailBooks ==
    ASSUME TypeOK, Books, NEW kind \in ErrorKind, Fail(kind),
           pc \in {"open", "connect", "handshake", "pause"},
           cmd' = cmd, written' = written
    PROVE  Books'
  <1>1. /\ tries' = tries /\ changed' = changed /\ cmd' = cmd /\ written' = written
        /\ tries \in Nat /\ POWER_ON_ATTEMPTS \in Nat
    BY Bounds DEF Fail, retry, TypeOK
  <1>2. CASE tries > 0
    <2>1. pc' = "done" /\ out'.kind = "ok" /\ out'.changed = changed
      BY <1>2, <1>1 DEF Fail, Finish
    <2> QED
      BY <1>1, <1>2, <2>1 DEF Books, Phase, Presses, Keys, IsPower, SendsKeys
  <1>3. CASE tries = 0
    <2>1. \/ pc' = "wake" /\ out' = out /\ cmd.name = "on"
          \/ pc' = "done" /\ out'.kind = kind
      BY <1>3, <1>1 DEF Fail, CanWake, NoOutput
    <2>2. IsPower => written = <<>>
      <3>1. IsPower => Len(written) <= 0
        BY <1>3 DEF Books, Presses
      <3> QED
        BY <3>1, EmptySeq DEF TypeOK
    <2> QED
      BY <1>1, <1>3, <2>1, <2>2
         DEF Books, Phase, Presses, Keys, IsPower, SendsKeys, ErrorKind
  <1> QED
    BY <1>1, <1>2, <1>3

\* The end of an attempt keeps the books, whether it found nothing to do or
\* has just waited for the confirmation of the key it wrote.
LEMMA EndAttemptBooks ==
    ASSUME TypeOK, Books, IsPower, NEW ch \in BOOLEAN, NEW seen \in PowerView,
           EndAttempt(ch, seen), pc = IF ch THEN "await" ELSE "handshake",
           cmd' = cmd, written' = written
    PROVE  Books'
  <1>1. /\ tries' = tries + 1 /\ changed' = (changed \/ ch)
        /\ tries \in Nat /\ POWER_ON_ATTEMPTS \in Nat \ {0}
    BY Bounds DEF EndAttempt, TypeOK, Pressed, Again
  <1>2. changed' <=> written # <<>>
    <2>1. CASE ch
      BY <1>1, <2>1 DEF Books, Presses
    <2>2. CASE ~ch
      BY <1>1, <2>2 DEF Books, Presses
    <2> QED
      BY <2>1, <2>2
  <1>3. Len(written) <= tries + 1
    <2>1. Len(written) \in Nat
      BY LenProperties DEF TypeOK
    <2> QED
      BY <1>1, <2>1 DEF Books, Presses
  <1>4. \/ /\ pc' = "backoff" /\ out' = out /\ cmd.name = "on"
           /\ tries + 1 < POWER_ON_ATTEMPTS
        \/ /\ pc' = "done" /\ out'.kind = "ok" /\ out'.changed = changed'
    BY <1>1 DEF EndAttempt, Finish, should_retry_power_on, Want, IsPower, Pressed, Again
  <1>5. tries < POWER_ON_ATTEMPTS /\ (cmd.name = "off" => tries = 0)
    BY <1>1 DEF Books, Phase
  <1> QED
    BY <1>1, <1>2, <1>3, <1>4, <1>5 DEF Books, Phase, Presses, Keys, IsPower, SendsKeys

\* The TV and the clock do not touch the books.
LEMMA TVFrame ==
    ASSUME TVStep \/ Tick
    PROVE  /\ cmd' = cmd /\ pc' = pc /\ out' = out /\ written' = written
           /\ tries' = tries /\ changed' = changed /\ attempt' = attempt
  BY DEF TVStep, Fragment, TVStart, TVChat, TVClose, TVKey, TVDropKey, TVOutside,
         TVSleep, TVWake, Tick, client, retry, history

\* Writing one more inject keeps the books.
LEMMA InjectBooks ==
    ASSUME TypeOK, Books, InjectOk
    PROVE  Books'
  <1>1. /\ pc = "pause" /\ cmd' = cmd /\ tries' = tries /\ out' = out
        /\ written' = Append(written, NextInject)
    BY DEF InjectOk, retry
  <1>2. NextInject \in Inject
    BY <1>1, NextInjectType
  <1>3. /\ Len(written) \in Nat /\ Len(written') = Len(written) + 1 /\ written' # <<>>
        /\ \A i \in 1..Len(written) : written'[i] = written[i]
        /\ written'[Len(written) + 1] = NextInject
    BY <1>1, <1>2, LenProperties, AppendProperties DEF TypeOK
  <1>4. CASE IsPower
    <2>1. pc' = "await"
      BY <1>4 DEF InjectOk, StartAwait
    <2> QED
      BY <1>1, <1>3, <1>4, <2>1 DEF Books, Phase, Presses, Keys, IsPower, SendsKeys, TypeOK
  <1>5. CASE ~IsPower
    <2>1. SendsKeys /\ Len(cmd.injects) \in Nat
      <3>1. cmd.injects \in Seq(Inject)
        BY CommandsAssumption DEF TypeOK, Command
      <3> QED
        BY <1>1, <1>5, <3>1, LenProperties, CommandsAssumption
           DEF Books, Phase, IsPower, SendsKeys, TypeOK, Command
    <2>2. IF Len(written) + 1 < Len(cmd.injects) THEN pc' = "pause" ELSE pc' = "settle"
      BY <1>5 DEF InjectOk, NextKeyOrSettle
    <2>3. Phase' /\ Presses'
      BY <1>1, <1>5, <2>1, <2>2 DEF Books, Phase, Presses, IsPower, SendsKeys
    <2>4. \A i \in 1..Len(written') : written'[i] = cmd.injects[i]
      <3>1. NextInject = cmd.injects[Len(written) + 1]
        BY <1>5 DEF NextInject
      <3>2. \A i \in 1..Len(written) : written[i] = cmd.injects[i]
        BY <2>1 DEF Books, Keys
      <3> QED
        BY <1>3, <3>1, <3>2
    <2>5. Keys'
      BY <1>1, <1>3, <2>1, <2>2, <2>4 DEF Books, Keys, SendsKeys
    <2> QED
      BY <2>3, <2>5 DEF Books
  <1> QED
    BY <1>4, <1>5

\* Every step keeps the books.
LEMMA BooksStep ==
    ASSUME TypeOK, Books, [Next]_vars
    PROVE  Books'
  <1>1. CASE OpenStore
    <2>1. CASE Fail("not_paired") \/ Fail("config_io")
      BY <1>1, <2>1, FailBooks DEF OpenStore, ErrorKind, history
    <2>2. CASE pc' = "connect" /\ UNCHANGED <<out, retry>>
      BY <1>1, <2>2
         DEF OpenStore, Books, Phase, Presses, Keys, IsPower, SendsKeys, retry, history
    <2> QED
      BY <1>1, <2>1, <2>2 DEF OpenStore
  <1>2. CASE ConnectOk
    <2>1. /\ pc = "connect" /\ pc' = "handshake"
          /\ UNCHANGED <<cmd, out, tries, changed, written>>
      BY <1>2 DEF ConnectOk, retry, history
    <2> QED
      BY <2>1 DEF Books, Phase, Presses, Keys, IsPower, SendsKeys
  <1>3. CASE ConnectFail
    BY <1>3, FailBooks DEF ConnectFail, ErrorKind, history
  <1>4. CASE HandshakeRead
    <2> DEFINE p == Handle(hs, Head(inbox)).hs.power
    <2>1. p \in PowerView
      BY <1>4, InboxType, HandleType DEF HandshakeRead, TypeOK, HandshakeState
    <2>2. pc = "handshake" /\ cmd' = cmd /\ written' = written
      BY <1>4 DEF HandshakeRead, history
    <2>3. CASE Fail("protocol_error")
      BY <2>2, <2>3, FailBooks DEF ErrorKind
    <2>4. CASE IsPower /\ EndAttempt(FALSE, p)
      BY <2>1, <2>2, <2>4, EndAttemptBooks
    <2>5. CASE cmd.name = "status" /\ Finish(p, FALSE) /\ UNCHANGED <<retry, deadline>>
      BY <2>2, <2>5 DEF Finish, Books, Phase, Presses, Keys, IsPower, SendsKeys, retry
    <2>6. CASE cmd.name # "status" /\ pc' = "pause" /\ UNCHANGED <<link, out, retry, deadline>>
      <3>1. SendsKeys => Len(written) < Len(cmd.injects)
        <4>1. SendsKeys => cmd.injects \in Seq(Inject) /\ cmd.injects # <<>>
          BY CommandsAssumption DEF TypeOK, SendsKeys, Command
        <4>2. SendsKeys => Len(cmd.injects) \in Nat \ {0}
          BY <4>1, EmptySeq
        <4>3. SendsKeys => Len(written) = 0
          BY <2>2, EmptySeq DEF Books, Keys
        <4> QED
          BY <4>2, <4>3
      <3> QED
        BY <2>2, <2>6, <3>1 DEF Books, Phase, Presses, Keys, IsPower, SendsKeys, retry
    <2>7. CASE UNCHANGED <<pc, link, out, retry, deadline>>
      BY <2>2, <2>7 DEF Books, Phase, Presses, Keys, IsPower, SendsKeys, retry
    <2> QED
      BY <1>4, <2>3, <2>4, <2>5, <2>6, <2>7 DEF HandshakeRead, Ready
  <1>5. CASE HandshakeReadError
    BY <1>5, FailBooks DEF HandshakeReadError, map_session_read_error, ErrorKind
  <1>6. CASE InjectFail
    BY <1>6, FailBooks DEF InjectFail, ErrorKind, history
  <1>7. CASE InjectOk
    BY <1>7, InjectBooks
  <1>8. CASE Settled
    BY <1>8 DEF Settled, Finish, Books, Phase, Presses, Keys, IsPower, SendsKeys, retry, history
  <1>9. CASE AwaitRead
    <2> DEFINE p == Handle(hs, Head(inbox)).hs.power
    <2>1. p \in PowerView
      BY <1>9, InboxType, HandleType DEF AwaitRead, TypeOK, HandshakeState, PastDeadline
    <2>2. pc = "await" /\ cmd' = cmd /\ written' = written /\ IsPower
      BY <1>9 DEF AwaitRead, Books, Phase, PastDeadline
    <2>3. CASE EndAttempt(TRUE, p)
      BY <2>1, <2>2, <2>3, EndAttemptBooks
    <2>4. CASE UNCHANGED <<pc, link, out, retry, deadline>>
      BY <2>2, <2>4 DEF Books, Phase, Presses, Keys, IsPower, SendsKeys, retry
    <2> QED
      BY <1>9, <2>3, <2>4 DEF AwaitRead, PastDeadline
  <1>10. CASE AwaitReadError
    <2>1. /\ pc = "await" /\ cmd' = cmd /\ written' = written /\ IsPower
          /\ hs.power \in PowerView
      BY <1>10 DEF AwaitReadError, Books, Phase, TypeOK, HandshakeState
    <2> QED
      BY <1>10, <2>1, EndAttemptBooks DEF AwaitReadError
  <1>11. CASE Retry
    BY <1>11 DEF Retry, Books, Phase, Presses, Keys, IsPower, SendsKeys, retry, history
  <1>12. CASE WakeSent \/ PollOk \/ PollFail
    BY <1>12 DEF WakeSent, PollOk, PollFail, Books, Phase, Presses, Keys, IsPower,
                 SendsKeys, retry, history
  <1>13. CASE WakeFail \/ PollAgain
    <2>1. /\ pc \in {"wake", "pollpause"} /\ cmd' = cmd /\ tries' = tries
          /\ changed' = changed /\ written' = written
          /\ \/ pc' = "poll" /\ out' = out
             \/ pc' = "done" /\ out'.kind \in {"protocol_error", "unreachable"}
      BY <1>13 DEF WakeFail, PollAgain, NoOutput, retry, history, PastDeadline
    <2>2. cmd.name = "on" /\ written = <<>>
      <3>1. cmd.name = "on" /\ Len(written) <= 0
        BY <2>1 DEF Books, Phase, Presses, IsPower
      <3> QED
        BY <3>1, EmptySeq DEF TypeOK
    <2> QED
      BY <2>1, <2>2 DEF Books, Phase, Presses, Keys, IsPower, SendsKeys
  <1>14. CASE TVStep \/ Tick \/ UNCHANGED vars
    <2>1. UNCHANGED <<cmd, pc, out, written, tries, changed>>
      BY <1>14, TVFrame DEF vars, client, retry, history
    <2> QED
      BY <2>1 DEF Books, Phase, Presses, Keys, IsPower, SendsKeys
  <1> QED
    BY <1>1, <1>2, <1>3, <1>4, <1>5, <1>6, <1>7, <1>8, <1>9, <1>10, <1>11, <1>12,
       <1>13, <1>14 DEF Next, ClientStep, Terminated

----------------------------------------------------------------------------
(* The clocks of the confirmation loop.                                     *)

\* An attempt that ends leaves the loop.
LEMMA EndLeavesAwait ==
    ASSUME NEW kind, NEW ch, NEW seen, Fail(kind) \/ EndAttempt(ch, seen)
    PROVE  pc' \notin {"await", "pause"}
  BY DEF Fail, EndAttempt, Finish, Pressed, Again

\* Every step keeps the clocks of the loop within their bound.
LEMMA AwaitStep ==
    ASSUME TypeOK, AwaitClock, [Next]_vars
    PROVE  AwaitClock'
  <1> USE Bounds
  <1>1. CASE pc' \notin {"await", "pause"}
    BY <1>1 DEF AwaitClock
  <1>2. CASE HandshakeRead /\ pc' \in {"await", "pause"}
    <2>1. pc' = "pause" /\ frag' = 0
      BY <1>2, EndLeavesAwait DEF HandshakeRead, Ready, Finish
    <2> QED
      BY <2>1 DEF AwaitClock
  <1>3. CASE InjectOk
    <2>1. pc = "pause" /\ frag = 0 /\ frag' = frag
      BY <1>3 DEF InjectOk, conn, AwaitClock
    <2>2. CASE IsPower
      <3>1. /\ pc' = "await" /\ timer' = CONFIRM_TIMEOUT
            /\ deadline' = CONFIRM_DEADLINE /\ waited' = 0
        BY <1>3, <2>2 DEF InjectOk, StartAwait
      <3>2. CONFIRM_TIMEOUT + CONFIRM_TIMEOUT * (MaxFragments - 0)
              = CONFIRM_TIMEOUT * (1 + MaxFragments)
        OBVIOUS
      <3> QED
        BY <2>1, <3>1, <3>2 DEF AwaitClock
    <2>3. CASE ~IsPower
      <3>1. pc' \in {"pause", "settle"}
        BY <1>3, <2>3 DEF InjectOk, NextKeyOrSettle
      <3> QED
        BY <2>1, <3>1 DEF AwaitClock
    <2> QED
      BY <2>2, <2>3
  <1>4. CASE AwaitRead /\ pc' \in {"await", "pause"}
    <2>1. /\ pc = "await" /\ pc' = "await" /\ waited' = waited /\ deadline' = deadline
          /\ deadline # 0 /\ frag' = 0 /\ timer' = CONFIRM_TIMEOUT
      BY <1>4, EndLeavesAwait DEF AwaitRead, PastDeadline
    <2>2. waited + deadline = CONFIRM_DEADLINE /\ deadline \in Nat /\ waited \in Nat
      BY <2>1 DEF AwaitClock, TypeOK
    <2>3. CONFIRM_TIMEOUT + CONFIRM_TIMEOUT * (MaxFragments - 0)
            = CONFIRM_TIMEOUT * (1 + MaxFragments)
      OBVIOUS
    <2> QED
      BY <2>1, <2>2, <2>3 DEF AwaitClock
  <1>5. CASE Fragment
    <2>1. /\ pc' = pc /\ pc \in {"handshake", "await"} /\ frag < MaxFragments
          /\ frag' = frag + 1 /\ waited' = waited /\ deadline' = deadline
          /\ pc = "await" => timer' = CONFIRM_TIMEOUT
      BY <1>5 DEF Fragment, local, history
    <2>2. CASE pc = "await"
      <3>1. /\ timer \in Nat /\ frag \in Nat /\ waited \in Nat
            /\ waited + timer + CONFIRM_TIMEOUT * (MaxFragments - frag)
                 <= CONFIRM_DEADLINE - 1 + CONFIRM_TIMEOUT * (1 + MaxFragments)
        BY <2>2 DEF TypeOK, AwaitClock
      <3>2. CONFIRM_TIMEOUT + CONFIRM_TIMEOUT * (MaxFragments - (frag + 1))
              = CONFIRM_TIMEOUT * (MaxFragments - frag)
        BY <3>1
      <3>3. waited + CONFIRM_TIMEOUT + CONFIRM_TIMEOUT * (MaxFragments - (frag + 1))
              <= CONFIRM_DEADLINE - 1 + CONFIRM_TIMEOUT * (1 + MaxFragments)
        BY <3>1, <3>2
      <3> QED
        BY <2>1, <2>2, <3>1, <3>3 DEF AwaitClock
    <2>3. CASE pc # "await"
      BY <2>1, <2>3 DEF AwaitClock
    <2> QED
      BY <2>2, <2>3
  <1>6. CASE Tick
    <2>1. /\ pc' = pc /\ frag' = frag /\ timer > 0 /\ timer' = timer - 1
          /\ deadline' = Minus1(deadline)
          /\ waited' = IF pc \in {"await", "poll", "pollpause"} THEN waited + 1 ELSE waited
      BY <1>6 DEF Tick, conn
    <2>2. timer \in Nat /\ deadline \in Nat /\ waited \in Nat /\ frag \in Nat
      BY DEF TypeOK
    <2>3. waited' + timer' = waited + timer \/ pc # "await"
      BY <2>1, <2>2
    <2> QED
      BY <2>1, <2>2, <2>3 DEF AwaitClock, Minus1
  <1>7. CASE TVStep /\ ~Fragment
    <2>1. UNCHANGED <<pc, timer, deadline, frag, waited>>
      BY <1>7 DEF TVStep, TVStart, TVChat, TVClose, TVKey, TVDropKey, TVOutside, TVSleep,
                  TVWake, client, conn, local, history
    <2> QED
      BY <2>1 DEF AwaitClock
  <1>8. CASE UNCHANGED vars
    BY <1>8 DEF vars, client, local, conn, history, AwaitClock
  <1>9. CASE ClientStep /\ ~HandshakeRead /\ ~InjectOk /\ ~AwaitRead
    <2>1. pc' \notin {"await", "pause"}
      BY <1>9, EndLeavesAwait
         DEF ClientStep, OpenStore, ConnectOk, ConnectFail, HandshakeReadError, InjectFail,
             Settled, AwaitReadError, Retry, WakeSent, WakeFail, PollOk, PollFail,
             PollAgain, Finish, PastDeadline
    <2> QED
      BY <1>1, <2>1
  <1> QED
    BY <1>1, <1>2, <1>3, <1>4, <1>5, <1>6, <1>7, <1>8, <1>9
       DEF Next, ClientStep, Terminated

----------------------------------------------------------------------------
(* The theorems.                                                            *)

LEMMA InitInv == Init => ClientInv
  <1> SUFFICES ASSUME Init PROVE ClientInv
    OBVIOUS
  <1>1. hs \in HandshakeState /\ attempt \in PowerAttempt /\ out \in Output
    BY DEF Init, NewHandshake, HandshakeState, PowerView, FEATURES, Feature,
           NoAttempt, PowerAttempt, NoOutput, Output
  <1>2. tv \in TV
    <2>1. Rate \in Nat /\ 0 \in Nat /\ FALSE \in BOOLEAN
      BY Bounds
    <2> QED
      BY <2>1, Zenon DEF Init, TV
  <1>3. tries < POWER_ON_ATTEMPTS
    BY Bounds DEF Init
  <1>4. TypeOK
    BY <1>1, <1>2, <1>3, EmptySeq DEF Init, TypeOK, PC
  <1>5. Books /\ AwaitClock
    <2>1. Len(written) = 0
      BY EmptySeq DEF Init
    <2>2. cmd.name \in {"key", "launch"} => Len(cmd.injects) \in Nat
      BY CommandsAssumption, LenProperties DEF Init, Command
    <2> QED
      BY <2>1, <2>2, Bounds
         DEF Init, Books, Phase, Presses, Keys, AwaitClock, NoOutput, IsPower, SendsKeys
  <1> QED
    BY <1>4, <1>5 DEF ClientInv

\* ClientInv is an invariant of Session.
LEMMA ClientInvariant == Spec => []ClientInv
  <1>1. ClientInv /\ [Next]_vars => ClientInv'
    BY TypeStep, BooksStep, AwaitStep DEF ClientInv
  <1> QED
    BY InitInv, <1>1, PTL DEF Spec

\* Every variable of the session keeps its type, for every TV and every chat.
THEOREM TypeCorrect == Spec => []TypeOK
  <1>1. ClientInv => TypeOK
    BY DEF ClientInv
  <1> QED
    BY ClientInvariant, <1>1, PTL

\* changed in the output of on / off says exactly whether a power key was
\* written over all the attempts, and an error means that none was.
THEOREM PressesAreReported == Spec => []PressAccounting
  <1>1. ClientInv => PressAccounting
    BY DEF ClientInv, Books, Presses, PressAccounting
  <1> QED
    BY ClientInvariant, <1>1, PTL

\* off presses the toggle at most once, on at most POWER_ON_ATTEMPTS times,
\* status never, whatever the TV does.
THEOREM PressesAreBounded == Spec => []PressBudget
  <1>1. ClientInv => PressBudget
    <2> SUFFICES ASSUME ClientInv PROVE PressBudget
      OBVIOUS
    <2>1. /\ Len(written) \in Nat /\ tries \in Nat /\ POWER_ON_ATTEMPTS \in Nat \ {0}
          /\ written = <<>> => Len(written) = 0
      BY LenProperties, EmptySeq, Bounds DEF ClientInv, TypeOK
    <2> QED
      BY <2>1 DEF ClientInv, Books, Phase, Presses, PressBudget, IsPower
  <1> QED
    BY ClientInvariant, <1>1, PTL

\* The confirmation loop is left within its deadline plus one read, for every
\* deadline, every socket timeout and every fragmentation of the frames.
THEOREM AwaitEnds == Spec => []AwaitBounded
  <1>1. ClientInv => AwaitBounded
    <2> SUFFICES ASSUME ClientInv, pc = "await"
                 PROVE  waited <= CONFIRM_DEADLINE - 1 + CONFIRM_TIMEOUT * (1 + MaxFragments)
      BY DEF AwaitBounded
    <2>1. /\ waited \in Nat /\ timer \in Nat /\ MaxFragments - frag \in Nat
          /\ waited + timer + CONFIRM_TIMEOUT * (MaxFragments - frag)
               <= CONFIRM_DEADLINE - 1 + CONFIRM_TIMEOUT * (1 + MaxFragments)
      BY Bounds DEF ClientInv, AwaitClock, TypeOK
    <2>2. CONFIRM_TIMEOUT * (MaxFragments - frag) \in Nat
      BY <2>1, Bounds
    <2>3. CONFIRM_TIMEOUT * (1 + MaxFragments) \in Nat
      BY Bounds
    <2> QED
      BY <2>1, <2>2, <2>3, Bounds
  <1> QED
    BY ClientInvariant, <1>1, PTL

\* Every step keeps the clocks of wait_for_port within their bound.
LEMMA WakeStep ==
    ASSUME TypeOK, WakeClock, [Next]_vars
    PROVE  WakeClock'
  <1> USE Bounds
  <1>0. timer \in Nat /\ deadline \in Nat /\ waited \in Nat
    BY DEF TypeOK
  <1>1. CASE pc' \notin {"poll", "pollpause"}
    BY <1>1 DEF WakeClock
  <1>2. CASE WakeSent
    <2>1. pc' = "poll" /\ timer' = POLL_TIMEOUT /\ deadline' = WOL_WAIT /\ waited' = 0
      BY <1>2 DEF WakeSent
    <2> QED
      BY <2>1 DEF WakeClock
  <1>3. CASE PollFail
    <2>1. /\ pc = "poll" /\ pc' = "pollpause" /\ timer' = POLL_PAUSE
          /\ deadline' = deadline /\ waited' = waited
      BY <1>3 DEF PollFail, local, history
    <2> QED
      BY <1>0, <2>1 DEF WakeClock
  <1>4. CASE PollAgain
    <2>1. /\ pc = "pollpause" /\ deadline' = deadline /\ waited' = waited
          /\ \/ deadline # 0 /\ pc' = "poll" /\ timer' = POLL_TIMEOUT
             \/ pc' = "done"
      BY <1>4 DEF PollAgain, local, history, PastDeadline
    <2> QED
      BY <1>0, <2>1 DEF WakeClock
  <1>5. CASE Tick
    <2>1. /\ pc' = pc /\ timer > 0 /\ timer' = timer - 1 /\ deadline' = Minus1(deadline)
          /\ pc \in {"poll", "pollpause"} => waited' = waited + 1
      BY <1>5 DEF Tick
    <2> QED
      BY <1>0, <2>1 DEF WakeClock, Minus1
  <1>6. CASE TVStep \/ UNCHANGED vars
    <2>1. pc' = pc /\ deadline' = deadline /\ waited' = waited
      BY <1>6 DEF TVStep, Fragment, TVStart, TVChat, TVClose, TVKey, TVDropKey, TVOutside,
                  TVSleep, TVWake, vars, client, local, history
    <2>2. pc \in {"poll", "pollpause"} => timer' = timer
      BY <1>6 DEF TVStep, Fragment, TVStart, TVChat, TVClose, TVKey, TVDropKey, TVOutside,
                  TVSleep, TVWake, vars, client
    <2> QED
      BY <2>1, <2>2 DEF WakeClock
  <1>7. CASE ClientStep /\ ~WakeSent /\ ~PollFail /\ ~PollAgain
    <2>1. \A kind, ch, seen :
              Fail(kind) \/ EndAttempt(ch, seen) => pc' \notin {"poll", "pollpause"}
      BY DEF Fail, EndAttempt, Finish, Pressed, Again
    <2>2. pc' \notin {"poll", "pollpause"}
      <3>1. CASE HandshakeRead
        BY <2>1, <3>1 DEF HandshakeRead, Ready, Finish
      <3>2. CASE InjectOk
        BY <3>2 DEF InjectOk, StartAwait, NextKeyOrSettle
      <3>3. CASE AwaitRead
        BY <2>1, <3>3 DEF AwaitRead, PastDeadline
      <3>4. CASE ~HandshakeRead /\ ~InjectOk /\ ~AwaitRead
        BY <1>7, <2>1, <3>4
           DEF ClientStep, OpenStore, ConnectOk, ConnectFail, HandshakeReadError, InjectFail,
               Settled, AwaitReadError, Retry, WakeFail, PollOk, Finish
      <3> QED
        BY <3>1, <3>2, <3>3, <3>4
    <2> QED
      BY <1>1, <2>2
  <1> QED
    BY <1>2, <1>3, <1>4, <1>5, <1>6, <1>7 DEF Next, Terminated

\* wait_for_port returns within its budget, one connect and one sleep, for every
\* budget, timeout and pause, whatever becomes of the packet.
THEOREM WakeEnds == Spec => []WakeBounded
  <1>1. Init => WakeClock
    BY DEF Init, WakeClock
  <1>2. ClientInv /\ WakeClock /\ [Next]_vars => WakeClock'
    BY WakeStep DEF ClientInv
  <1>3. ClientInv /\ WakeClock => WakeBounded
    <2> SUFFICES ASSUME ClientInv, WakeClock PROVE WakeBounded
      OBVIOUS
    <2>1. timer \in Nat /\ waited \in Nat
      BY DEF ClientInv, TypeOK
    <2> QED
      BY <2>1, Bounds DEF WakeClock, WakeBounded
  <1> QED
    BY ClientInvariant, <1>1, <1>2, <1>3, PTL DEF Spec
==============================================================================
