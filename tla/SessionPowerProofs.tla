------------------------- MODULE SessionPowerProofs --------------------------
(***************************************************************************)
(* What the client knows of the TV's power, and why a retry never presses  *)
(* the toggle once too often: the theorems about Session that relate the   *)
(* client to the TV.                                                       *)
(***************************************************************************)
EXTENDS SessionProofs

\* A first attempt has heard nothing of the TV before it is connected.
Unheard ==
    /\ tries = 0 /\ pc \in {"open", "connect", "wake", "poll", "pollpause"}
           => ~got_any /\ lastread = "none"
    /\ pc = "backoff" => tries > 0

\* When the client holds a connection, and what the TV has said on it.
Wire ==
    /\ pc \in {"handshake", "pause", "await", "settle"} \/ (link = "down" /\ inbox = <<>>)
    /\ pc = "handshake" =>
           /\ hs.power = "unknown" /\ tv.warm <= EarlyWindow
           /\ tv.greeted \/ \A i \in 1..Len(inbox) : Branch(inbox[i]) # "remote_start"
    /\ pc = "pause" => tv.greeted /\ tv.warm <= timer
    /\ pc \in {"await", "settle"} => tv.greeted /\ tv.warm = 0

\* Where the client can be while the TV still holds a key it received.
Pipeline ==
    ~SlowTV /\ pending # <<>> =>
        /\ pc \in {"pause", "await", "backoff", "settle", "done"}
        /\ pc = "pause" => SendsKeys
        /\ pc = "backoff" => timer = POWER_ON_RETRY_BACKOFF
        /\ tv.warm = 0

\* What the client knows, against the TV's power.
Truth ==
    Undisturbed =>
        /\ ~SendsKeys /\ pc \in {"handshake", "pause"} =>
               \A i \in 1..Len(inbox) : inbox[i].started = tv.power
        /\ IsPower /\ pc = "pause" => tv.power # Want
        /\ pc = "await" =>
               /\ \A i \in 1..Len(inbox) : inbox[i].started = Want => tv.power = Want
               /\ hs.power = Want => tv.power = Want
        /\ IsPower /\ pending # <<>> => tv.power # Want /\ Len(pending) = 1
        /\ cmd.name = "status" => pending = <<>>
        /\ tries > 0 /\ pc # "done" => attempt.observed # Want
        /\ Succeeded /\ IsPower /\ attempt.observed = Want => out.power = Want /\ tv.power = Want
        /\ Succeeded /\ cmd.name = "status" => out.power = tv.power

PowerInv == ClientInv /\ Unheard /\ Wire /\ Pipeline /\ Truth

----------------------------------------------------------------------------
\* The elements of a sequence after a read, and after a message arrived.
LEMMA ReadElements ==
    ASSUME NEW q \in Seq(RemoteMessage), q # <<>>
    PROVE  /\ Len(q) \in Nat /\ 1 \in 1..Len(q) /\ Head(q) = q[1]
           /\ \A i \in 1..Len(Tail(q)) : i + 1 \in 1..Len(q) /\ Tail(q)[i] = q[i + 1]
  <1>1. Len(q) \in Nat \ {0} /\ Tail(q) \in Seq(RemoteMessage) /\ Len(Tail(q)) = Len(q) - 1
    BY EmptySeq, HeadTailProperties
  <1>2. \A i \in 1..Len(Tail(q)) : Tail(q)[i] = q[i + 1]
    BY HeadTailProperties
  <1>3. Head(q) = q[1]
    OBVIOUS
  <1> QED
    BY <1>1, <1>2, <1>3

LEMMA DeliveredElements ==
    ASSUME TypeOK, NEW m \in RemoteMessage, Deliver(m)
    PROVE  LET e == [m EXCEPT !.started = tv.power]
           IN  /\ e.started = tv.power /\ e.fields = m.fields
               /\ \A i \in 1..Len(inbox') :
                      inbox'[i] = e \/ (i \in 1..Len(inbox) /\ inbox'[i] = inbox[i])
  <1> DEFINE e == [m EXCEPT !.started = tv.power]
  <1>1. e \in RemoteMessage /\ e.started = tv.power /\ e.fields = m.fields
    BY DEF TypeOK, TV, RemoteMessage
  <1>2. inbox' = Append(inbox, e)
    BY DEF Deliver
  <1> HIDE DEF e
  <1>3. /\ Len(inbox) \in Nat /\ Len(inbox') = Len(inbox) + 1
        /\ \A i \in 1..Len(inbox) : inbox'[i] = inbox[i]
        /\ inbox'[Len(inbox) + 1] = e
    BY <1>1, <1>2, LenProperties, AppendProperties DEF TypeOK
  <1>4. \A i \in 1..Len(inbox') :
           inbox'[i] = e \/ (i \in 1..Len(inbox) /\ inbox'[i] = inbox[i])
    BY <1>3
  <1> USE DEF e
  <1> QED
    BY <1>1, <1>4

\* handle looks at the fields of a message only.
LEMMA BranchOfFields ==
    ASSUME NEW a, NEW b, a.fields = b.fields
    PROVE  Branch(a) = Branch(b)
  BY DEF Branch

\* handle learns the power state from a remote_start and from nothing else.
LEMMA HandlePower ==
    ASSUME NEW h \in HandshakeState, NEW m \in RemoteMessage
    PROVE  Handle(h, m).hs.power = IF Branch(m) = "remote_start" THEN m.started ELSE h.power
  BY DEF Handle

\* An attempt that ends drops its connection.
LEMMA EndHangsUp ==
    ASSUME NEW kind, NEW ch, NEW seen, Fail(kind) \/ EndAttempt(ch, seen)
    PROVE  link' = "down" /\ inbox' = <<>> /\ pc' \in {"done", "wake", "backoff"}
  BY DEF Fail, EndAttempt, Finish, Hangup, Pressed, Again

\* What the steps that change the TV's record make of it.
LEMMA ConnectTV ==
    ASSUME TypeOK, ConnectOk
    PROVE  tv'.greeted = FALSE /\ tv'.warm = 0 /\ tv'.power = tv.power
  BY DEF ConnectOk, TypeOK, TV

LEMMA StartTV ==
    ASSUME TypeOK, TVStart
    PROVE  /\ tv'.greeted = TRUE /\ tv'.power = tv.power
           /\ tv'.warm = IF tv.greeted THEN tv.warm ELSE EarlyWindow
  BY DEF TVStart, TypeOK, TV

LEMMA TickTV ==
    ASSUME TypeOK, Tick
    PROVE  /\ tv'.greeted = tv.greeted /\ tv'.power = tv.power
           /\ tv'.warm = Minus1(tv.warm)
  BY DEF Tick, TypeOK, TV

LEMMA ChatTV ==
    ASSUME TypeOK, TVChat
    PROVE  tv'.greeted = tv.greeted /\ tv'.power = tv.power /\ tv'.warm = tv.warm
  BY DEF TVChat, TypeOK, TV

LEMMA OtherTV ==
    ASSUME TypeOK, TVKey \/ TVDropKey \/ TVOutside \/ TVSleep \/ TVWake
    PROVE  /\ tv'.greeted = tv.greeted /\ tv'.warm = tv.warm
           /\ UNCHANGED <<cmd, pc, hs, timer, link, inbox, out, attempt, tries>>
  <1>1. CASE TVKey
    BY <1>1 DEF TVKey, TypeOK, TV, client, local, conn, retry
  <1>2. CASE TVDropKey
    BY <1>2 DEF TVDropKey, TypeOK, TV, client, local, conn, retry
  <1>3. CASE TVOutside
    BY <1>3 DEF TVOutside, TypeOK, TV, client, local, conn, retry
  <1>4. CASE TVSleep
    BY <1>4 DEF TVSleep, TypeOK, TV, client, local, conn, retry
  <1>5. CASE TVWake
    BY <1>5 DEF TVWake, TypeOK, TV, client, local, conn, retry
  <1> QED
    BY <1>1, <1>2, <1>3, <1>4, <1>5

----------------------------------------------------------------------------
(* The connection.                                                          *)

\* A client that is not in a session holds no connection, and one that injects
\* does it after the TV said remote_start and the grace period has passed.
LEMMA WireStep ==
    ASSUME TypeOK, Wire, [Next]_vars
    PROVE  Wire'
  <1> USE Bounds
  <1>0. tv \in TV /\ tv.warm \in Nat /\ timer \in Nat
    BY TVNumbers DEF TypeOK
  <1>1. CASE /\ link' = "down" /\ inbox' = <<>>
             /\ pc' \notin {"handshake", "pause", "await", "settle"}
    BY <1>1 DEF Wire
  <1>2. CASE ConnectOk
    <2>1. pc' = "handshake" /\ hs'.power = "unknown" /\ inbox' = <<>>
      BY <1>2 DEF ConnectOk, NewHandshake, Wire
    <2>2. \A i \in 1..Len(inbox') : Branch(inbox'[i]) # "remote_start"
      BY <2>1, EmptySeq
    <2> QED
      BY <1>2, <2>1, <2>2, ConnectTV DEF Wire
  <1>3. CASE HandshakeRead
    <2> DEFINE m == Head(inbox)
               p == Handle(hs, m).hs.power
    <2>1. /\ pc = "handshake" /\ inbox # <<>> /\ hs'.power = p /\ tv' = tv
      BY <1>3 DEF HandshakeRead
    <2>2. p = IF Branch(m) = "remote_start" THEN m.started ELSE "unknown"
      BY <2>1, InboxType, HandlePower DEF TypeOK, Wire
    <2>3. \/ link' = "down" /\ inbox' = <<>> /\ pc' \in {"done", "wake", "backoff"}
          \/ p # "unknown" /\ pc' = "pause" /\ timer' = KEY_INJECT_GRACE
          \/ p = "unknown" /\ pc' = "handshake" /\ inbox' = Tail(inbox)
      BY <1>3, EndHangsUp DEF HandshakeRead, Ready, Finish, Hangup
    <2>4. /\ p # "unknown" => tv.greeted
          /\ tv.greeted \/ \A i \in 1..Len(Tail(inbox)) : Branch(Tail(inbox)[i]) # "remote_start"
      BY <2>1, <2>2, ReadElements DEF Wire, TypeOK
    <2> HIDE DEF p
    <2>5. CASE link' = "down" /\ inbox' = <<>> /\ pc' \in {"done", "wake", "backoff"}
      BY <2>5 DEF Wire
    <2>6. CASE p # "unknown" /\ pc' = "pause" /\ timer' = KEY_INJECT_GRACE
      <3>1. tv.greeted /\ tv.warm <= EarlyWindow
        BY <2>1, <2>4, <2>6 DEF Wire
      <3>2. tv'.greeted /\ tv'.warm <= timer'
        BY <1>0, <2>1, <2>6, <3>1
      <3> QED
        BY <2>6, <3>2 DEF Wire
    <2>7. CASE p = "unknown" /\ pc' = "handshake" /\ inbox' = Tail(inbox)
      BY <2>1, <2>4, <2>7 DEF Wire
    <2> QED
      BY <2>3, <2>5, <2>6, <2>7
  <1>4. CASE InjectOk
    <2>1. /\ pc = "pause" /\ timer = 0 /\ tv' = tv
          /\ \/ pc' = "await" \/ pc' = "settle"
             \/ pc' = "pause" /\ timer' = KEY_INTERVAL
      BY <1>4 DEF InjectOk, StartAwait, NextKeyOrSettle
    <2>2. tv.greeted /\ tv.warm = 0
      BY <1>0, <2>1 DEF Wire
    <2> QED
      BY <2>1, <2>2 DEF Wire
  <1>5. CASE AwaitRead
    <2>1. \/ link' = "down" /\ inbox' = <<>> /\ pc' \in {"done", "wake", "backoff"}
          \/ pc' = pc
      BY <1>5, EndHangsUp DEF AwaitRead, PastDeadline
    <2>2. pc = "await" /\ tv' = tv
      BY <1>5 DEF AwaitRead, PastDeadline
    <2> QED
      BY <2>1, <2>2 DEF Wire
  <1>6. CASE TVStart
    <2>1. /\ UNCHANGED <<pc, hs, timer, link>> /\ link = "open"
          /\ pc \in {"handshake", "pause", "await", "settle"}
      BY <1>6 DEF TVStart, CanSend, Wire, local
    <2>2. tv'.greeted = TRUE
      BY <1>6, StartTV
    <2>3. CASE tv.greeted
      BY <1>6, <2>1, <2>2, <2>3, StartTV DEF Wire
    <2>4. CASE ~tv.greeted
      <3>1. pc = "handshake" /\ tv'.warm = EarlyWindow
        BY <1>6, <2>1, <2>4, StartTV DEF Wire
      <3> QED
        BY <2>1, <2>2, <3>1 DEF Wire
    <2> QED
      BY <2>3, <2>4
  <1>7. CASE TVChat
    <2>1. /\ UNCHANGED <<pc, hs, timer, link>> /\ link = "open"
          /\ pc \in {"handshake", "pause", "await", "settle"}
      BY <1>7 DEF TVChat, CanSend, Wire, local
    <2>2. PICK m \in Chat : Deliver(m)
      BY <1>7 DEF TVChat
    <2>3. m \in RemoteMessage /\ Branch(m) # "remote_start"
      BY ChatAssumption
    <2>4. Branch([m EXCEPT !.started = tv.power]) # "remote_start"
      BY <2>2, <2>3, BranchOfFields, DeliveredElements
    <2>5. pc = "handshake" /\ ~tv.greeted =>
             \A i \in 1..Len(inbox') : Branch(inbox'[i]) # "remote_start"
      BY <2>2, <2>3, <2>4, DeliveredElements DEF Wire
    <2> QED
      BY <1>0, <1>7, <2>1, <2>5, ChatTV DEF Wire
  <1>8. CASE Fragment \/ TVClose
    <2>1. /\ UNCHANGED <<pc, hs, inbox, tv>> /\ link # "down"
          /\ pc \in {"handshake", "await"} \/ timer' = timer
      BY <1>8 DEF Fragment, TVClose, local
    <2> QED
      BY <2>1 DEF Wire
  <1>9. CASE TVKey \/ TVDropKey \/ TVOutside \/ TVSleep \/ TVWake
    BY <1>9, OtherTV DEF Wire
  <1>10. CASE Tick
    <2>1. UNCHANGED <<pc, hs, link, inbox>> /\ timer' = timer - 1 /\ timer > 0
      BY <1>10 DEF Tick, conn
    <2>2. tv'.greeted = tv.greeted /\ tv'.warm = Minus1(tv.warm)
      BY <1>10, TickTV
    <2> QED
      BY <1>0, <2>1, <2>2 DEF Wire, Minus1
  <1>11. CASE UNCHANGED vars
    BY <1>11 DEF vars, client, local, conn, Wire
  <1>12. CASE OpenStore \/ Retry \/ WakeSent \/ WakeFail \/ PollOk \/ PollFail \/ PollAgain
    <2>1. link = "down" /\ inbox = <<>>
      BY <1>12 DEF OpenStore, Retry, WakeSent, WakeFail, PollOk, PollFail, PollAgain, Wire, PastDeadline
    <2>2. link' = "down" /\ inbox' = <<>>
      BY <1>12, <2>1, EndHangsUp
         DEF OpenStore, Retry, WakeSent, WakeFail, PollOk, PollFail, PollAgain, conn, PastDeadline
    <2>3. pc' \notin {"handshake", "pause", "await", "settle"}
      BY <1>12, EndHangsUp
         DEF OpenStore, Retry, WakeSent, WakeFail, PollOk, PollFail, PollAgain, PastDeadline
    <2> QED
      BY <1>1, <2>2, <2>3
  <1>13. CASE ConnectFail \/ HandshakeReadError \/ InjectFail \/ Settled \/ AwaitReadError
    <2>1. /\ link' = "down" /\ inbox' = <<>>
          /\ pc' \notin {"handshake", "pause", "await", "settle"}
      BY <1>13, EndHangsUp
         DEF ConnectFail, HandshakeReadError, InjectFail, Settled, AwaitReadError,
             Hangup, Finish
    <2> QED
      BY <1>1, <2>1
  <1> QED
    BY <1>2, <1>3, <1>4, <1>5, <1>6, <1>7, <1>8, <1>9, <1>10, <1>11, <1>12, <1>13
       DEF Next, ClientStep, TVStep, Terminated

----------------------------------------------------------------------------
(* Keys on their way to the TV.                                             *)

\* While the TV still holds a key, the client is in a call that only a tick can
\* end, or has ended: it cannot have read the state again.
LEMMA PipelineStep ==
    ASSUME TypeOK, Books, Wire, Pipeline, [Next]_vars
    PROVE  Pipeline'
  <1> USE Bounds
  <1>0. tv \in TV /\ tv.warm \in Nat
    BY TVNumbers DEF TypeOK
  <1> SUFFICES ASSUME ~SlowTV, pending' # <<>>
               PROVE  /\ pc' \in {"pause", "await", "backoff", "settle", "done"}
                      /\ pc' = "pause" => SendsKeys'
                      /\ pc' = "backoff" => timer' = POWER_ON_RETRY_BACKOFF
                      /\ tv'.warm = 0
    BY DEF Pipeline
  <1>1. CASE InjectOk
    <2>1. /\ pc = "pause" /\ timer = 0 /\ tv' = tv /\ cmd' = cmd
          /\ pc' = "await" \/ (pc' \in {"pause", "settle"} /\ ~IsPower)
      BY <1>1 DEF InjectOk, StartAwait, NextKeyOrSettle
    <2>2. tv.warm = 0
      BY <1>0, <2>1 DEF Wire
    <2>3. ~IsPower => SendsKeys
      BY <2>1, CommandsAssumption DEF Books, Phase, TypeOK, Command, IsPower, SendsKeys
    <2> QED
      BY <2>1, <2>2, <2>3 DEF SendsKeys
  <1>2. CASE TVKey \/ TVDropKey
    <2>1. pending # <<>>
      BY <1>2 DEF TVKey, TVDropKey
    <2> QED
      BY <1>2, <2>1, OtherTV DEF Pipeline, SendsKeys
  <1>3. CASE ~InjectOk /\ ~TVKey /\ ~TVDropKey
    <2>1. pending' = pending
      BY <1>3 DEF Next, ClientStep, TVStep, Terminated, OpenStore, ConnectOk, ConnectFail,
                  HandshakeRead, HandshakeReadError, InjectFail, Settled, AwaitRead,
                  AwaitReadError, Retry, WakeSent, WakeFail, PollOk, PollFail, PollAgain,
                  Fragment, TVStart, TVChat, TVClose, TVOutside, TVSleep, TVWake, Tick, vars, PastDeadline
    <2>2. /\ pc \in {"pause", "await", "backoff", "settle", "done"}
          /\ pc = "pause" => SendsKeys
          /\ pc = "backoff" => timer = POWER_ON_RETRY_BACKOFF
          /\ tv.warm = 0
      BY <2>1 DEF Pipeline
    <2>3. CASE InjectFail
      <3>1. pc' = "done" /\ tv' = tv
        BY <2>3 DEF InjectFail, Fail, Finish, CanWake
      <3> QED
        BY <2>2, <3>1
    <2>4. CASE Settled
      BY <2>2, <2>4 DEF Settled, Finish
    <2>5. CASE AwaitRead
      <3>1. /\ tv' = tv /\ pc = "await"
            /\ \/ pc' = "await" \/ pc' = "done"
               \/ pc' = "backoff" /\ timer' = POWER_ON_RETRY_BACKOFF
        BY <2>5 DEF AwaitRead, EndAttempt, Finish, PastDeadline, Pressed, Again
      <3> QED
        BY <2>2, <3>1
    <2>6. CASE AwaitReadError
      <3>1. /\ tv' = tv
            /\ \/ pc' = "done"
               \/ pc' = "backoff" /\ timer' = POWER_ON_RETRY_BACKOFF
        BY <2>6 DEF AwaitReadError, EndAttempt, Finish, Pressed, Again
      <3> QED
        BY <2>2, <3>1
    <2>7. CASE TVStart
      <3>1. UNCHANGED <<cmd, pc, timer>> /\ tv.greeted
        BY <2>2, <2>7 DEF TVStart, CanSend, Wire
      <3>2. tv'.warm = tv.warm
        BY <2>7, <3>1, StartTV
      <3> QED
        BY <2>2, <3>1, <3>2 DEF SendsKeys
    <2>8. CASE TVChat
      <3>1. UNCHANGED <<cmd, pc, timer>> /\ tv'.warm = tv.warm
        BY <2>8, ChatTV DEF TVChat
      <3> QED
        BY <2>2, <3>1 DEF SendsKeys
    <2>9. CASE Fragment \/ TVClose
      <3>1. UNCHANGED <<cmd, pc, tv>> /\ (pc \in {"handshake", "await"} \/ timer' = timer)
        BY <2>9 DEF Fragment, TVClose
      <3> QED
        BY <2>2, <3>1 DEF SendsKeys
    <2>10. CASE TVOutside \/ TVSleep \/ TVWake
      BY <2>2, <2>10, OtherTV DEF SendsKeys
    <2>11. CASE Tick
      BY <2>1, <2>11 DEF Tick
    <2>12. CASE UNCHANGED vars
      BY <2>2, <2>12 DEF vars, client, SendsKeys
    <2>13. ~(\/ OpenStore \/ ConnectOk \/ ConnectFail \/ HandshakeRead \/ HandshakeReadError
             \/ Retry \/ WakeSent \/ WakeFail \/ PollOk \/ PollFail \/ PollAgain)
      BY <2>2 DEF OpenStore, ConnectOk, ConnectFail, HandshakeRead, HandshakeReadError,
                  Retry, WakeSent, WakeFail, PollOk, PollFail, PollAgain, PastDeadline
    <2> QED
      BY <1>3, <2>3, <2>4, <2>5, <2>6, <2>7, <2>8, <2>9, <2>10, <2>11, <2>12, <2>13
         DEF Next, ClientStep, TVStep, Terminated
  <1> QED
    BY <1>1, <1>2, <1>3

----------------------------------------------------------------------------
(* What the client knows.                                                   *)

\* A failing attempt reports nothing it has not seen.
LEMMA FailTruth ==
    ASSUME TypeOK, Books, Truth, NEW kind \in ErrorKind, Fail(kind), pc # "done",
           UNCHANGED <<cmd, pending, tv>>
    PROVE  Truth'
  <1>1. UNCHANGED <<cmd, pending, tv, tries, attempt>> /\ tries \in Nat
    BY DEF Fail, retry, TypeOK
  <1>2. \/ tries > 0 /\ pc' = "done"
        \/ tries = 0 /\ pc' \in {"done", "wake"} /\ ~Succeeded'
    <2>1. CASE tries > 0
      BY <1>1, <2>1 DEF Fail, Finish
    <2>2. CASE tries = 0 /\ CanWake(kind)
      BY <1>1, <2>2 DEF Fail, Succeeded
    <2>3. CASE tries = 0 /\ ~CanWake(kind)
      <3>1. pc' = "done" /\ out'.kind = kind
        BY <1>1, <2>3 DEF Fail, NoOutput
      <3> QED
        BY <2>3, <3>1 DEF Succeeded, ErrorKind
    <2> QED
      BY <1>1, <2>1, <2>2, <2>3
  <1>3. (Undisturbed /\ tries > 0) => (attempt.observed # Want /\ IsPower)
    BY <1>1 DEF Truth, Books, Phase
  <1>4. pc' \notin {"handshake", "pause", "await"}
    BY <1>2
  <1>5. cmd.name = "status" => tries = 0
    BY DEF Books, Phase, IsPower
  <1> QED
    BY <1>1, <1>2, <1>3, <1>4, <1>5
       DEF Truth, Undisturbed, IsPower, SendsKeys, Want, Succeeded

\* An attempt that ends having seen the target state has seen the truth.
LEMMA EndAttemptTruth ==
    ASSUME TypeOK, Books, Truth, NEW ch \in BOOLEAN, NEW seen \in PowerView, IsPower,
           EndAttempt(ch, seen), UNCHANGED <<cmd, pending, tv>>,
           Undisturbed => (seen = Want => tv.power = Want)
    PROVE  Truth'
  <1>1. attempt'.observed = seen
    BY DEF EndAttempt, Pressed, Again
  <1>2. \/ pc' = "backoff" /\ seen # Want
        \/ /\ pc' = "done" /\ (seen = Want => out'.power = Want)
    <2>1. Want # "unknown"
      BY DEF Want
    <2> QED
      BY <2>1 DEF EndAttempt, Finish, should_retry_power_on, Pressed, Again
  <1>3. UNCHANGED <<cmd, pending, tv>> /\ cmd.name # "status"
    BY DEF IsPower
  <1> QED
    BY <1>1, <1>2, <1>3 DEF Truth, Undisturbed, IsPower, SendsKeys, Want, Succeeded

\* Every step keeps what the client knows in line with the TV.
LEMMA TruthStep ==
    ASSUME TypeOK, Books, Wire, Pipeline, Truth, [Next]_vars
    PROVE  Truth'
  <1> SUFFICES ASSUME Undisturbed PROVE Truth'
    BY DEF Truth, Undisturbed
  <1>0. MaxOutside = 0 /\ ~SlowTV
    BY DEF Undisturbed
  <1>1. CASE OpenStore
    <2>1. UNCHANGED <<cmd, pending, tv>> /\ pc = "open"
      BY <1>1 DEF OpenStore
    <2>2. CASE Fail("not_paired") \/ Fail("config_io")
      BY <2>1, <2>2, FailTruth DEF ErrorKind
    <2>3. CASE pc' = "connect" /\ UNCHANGED <<out, retry>>
      BY <2>1, <2>3 DEF Truth, IsPower, SendsKeys, Want, Succeeded, retry
    <2> QED
      BY <1>1, <2>2, <2>3 DEF OpenStore
  <1>2. CASE ConnectOk
    <2>1. /\ UNCHANGED <<cmd, pending, out, tries, attempt>>
          /\ pc = "connect" /\ pc' = "handshake" /\ inbox' = <<>>
      BY <1>2 DEF ConnectOk, Wire, retry
    <2>2. tv'.power = tv.power
      BY <1>2, ConnectTV
    <2>3. Len(inbox') = 0
      BY <2>1, EmptySeq
    <2> QED
      BY <2>1, <2>2, <2>3 DEF Truth, IsPower, SendsKeys, Want, Succeeded
  <1>3. CASE ConnectFail \/ HandshakeReadError \/ InjectFail
    BY <1>3, FailTruth
       DEF ConnectFail, HandshakeReadError, InjectFail, map_session_read_error, ErrorKind
  <1>4. CASE HandshakeRead
    <2> DEFINE m == Head(inbox)
               p == Handle(hs, m).hs.power
    <2>1. /\ pc = "handshake" /\ inbox # <<>> /\ UNCHANGED <<cmd, pending, tv>>
      BY <1>4 DEF HandshakeRead
    <2>2. m \in RemoteMessage /\ p \in PowerView
      BY <2>1, InboxType, HandleType DEF TypeOK, HandshakeState
    <2>3. ~SendsKeys /\ p # "unknown" => p = tv.power
      <3>1. p = IF Branch(m) = "remote_start" THEN m.started ELSE "unknown"
        BY <2>1, <2>2, HandlePower DEF TypeOK, Wire
      <3>2. ~SendsKeys => m.started = tv.power
        BY <2>1, ReadElements DEF Truth, TypeOK
      <3> QED
        BY <3>1, <3>2
    <2>4. ~SendsKeys => \A i \in 1..Len(Tail(inbox)) : Tail(inbox)[i].started = tv.power
      BY <2>1, ReadElements DEF Truth, TypeOK
    <2>5. CASE Fail("protocol_error")
      BY <2>1, <2>5, FailTruth DEF ErrorKind
    <2>6. CASE IsPower /\ p # "unknown" /\ EndAttempt(FALSE, p)
      <3>1. p = Want => tv.power = Want
        BY <2>3, <2>6 DEF IsPower, SendsKeys
      <3> QED
        BY <2>1, <2>2, <2>6, <3>1, EndAttemptTruth
    <2>7. CASE cmd.name = "status" /\ p # "unknown" /\ Finish(p, FALSE) /\ UNCHANGED <<retry, deadline>>
      <3>1. pc' = "done" /\ out'.power = p /\ tries' = tries /\ attempt' = attempt
        BY <2>7 DEF Finish, retry
      <3>2. p = tv.power
        BY <2>3, <2>7 DEF SendsKeys
      <3> QED
        BY <2>1, <2>7, <3>1, <3>2 DEF Truth, IsPower, SendsKeys, Want, Succeeded
    <2>8. CASE /\ p # "unknown" /\ (IsPower => needs_power_key(p, Want))
               /\ pc' = "pause" /\ inbox' = Tail(inbox)
               /\ UNCHANGED <<link, out, retry, deadline>>
      <3>1. IsPower => tv.power # Want
        BY <2>3, <2>8 DEF needs_power_key, IsPower, SendsKeys
      <3> QED
        BY <2>1, <2>4, <2>8, <3>1 DEF Truth, IsPower, SendsKeys, Want, Succeeded, retry
    <2>9. CASE inbox' = Tail(inbox) /\ UNCHANGED <<pc, link, out, retry, deadline>>
      BY <2>1, <2>4, <2>9 DEF Truth, IsPower, SendsKeys, Want, Succeeded, retry
    <2> HIDE DEF p
    <2> QED
      BY <1>4, <2>5, <2>6, <2>7, <2>8, <2>9 DEF HandshakeRead, Ready, p
  <1>5. CASE InjectOk
    <2>1. /\ pc = "pause" /\ UNCHANGED <<cmd, out, tries, attempt, tv, inbox>>
          /\ pending' = pending \/ pending' = Append(pending, NextInject)
      BY <1>5 DEF InjectOk, conn, retry
    <2>2. CASE IsPower
      <3>1. pending = <<>> /\ tv.power # Want
        BY <1>0, <2>1, <2>2 DEF Pipeline, Truth, IsPower, SendsKeys
      <3>2. pending' = <<>> \/ Len(pending') = 1
        <4>1. NextInject \in Inject /\ pending \in Seq(Inject)
          BY <2>1, NextInjectType DEF TypeOK
        <4> QED
          BY <2>1, <3>1, <4>1, AppendProperties, EmptySeq
      <3>3. pc' = "await" /\ hs'.power = "unknown"
        BY <1>5, <2>2 DEF InjectOk, StartAwait, TypeOK, HandshakeState
      <3>4. \A i \in 1..Len(inbox) : inbox[i].started = tv.power
        BY <2>1, <2>2 DEF Truth, IsPower, SendsKeys
      <3>5. Want # "unknown"
        BY DEF Want
      <3> QED
        BY <2>1, <2>2, <3>1, <3>2, <3>3, <3>4, <3>5
           DEF Truth, IsPower, SendsKeys, Want, Succeeded
    <2>3. CASE ~IsPower
      <3>1. SendsKeys
        BY <2>1, <2>3, CommandsAssumption
           DEF Books, Phase, TypeOK, Command, IsPower, SendsKeys
      <3>2. pc' \in {"pause", "settle"}
        BY <1>5, <2>3 DEF InjectOk, NextKeyOrSettle
      <3> QED
        BY <2>1, <2>3, <3>1, <3>2 DEF Truth, IsPower, SendsKeys, Want, Succeeded
    <2> QED
      BY <2>2, <2>3
  <1>6. CASE Settled
    <2>1. /\ pc' = "done" /\ SendsKeys /\ UNCHANGED <<cmd, pending, tv, tries, attempt>>
      BY <1>6 DEF Settled, Finish, Books, Phase, retry
    <2> QED
      BY <2>1 DEF Truth, IsPower, SendsKeys, Want, Succeeded
  <1>7. CASE AwaitRead
    <2> DEFINE m == Head(inbox)
               p == Handle(hs, m).hs.power
    <2>1. /\ pc = "await" /\ inbox # <<>> /\ UNCHANGED <<cmd, pending, tv>>
          /\ hs'.power = p /\ IsPower
      BY <1>7 DEF AwaitRead, Books, Phase, PastDeadline
    <2>2. m \in RemoteMessage /\ p \in PowerView
      BY <2>1, InboxType, HandleType DEF TypeOK, HandshakeState
    <2>3. p = Want => tv.power = Want
      <3>1. p = IF Branch(m) = "remote_start" THEN m.started ELSE hs.power
        BY <2>1, <2>2, HandlePower DEF TypeOK
      <3>2. m.started = Want => tv.power = Want
        BY <2>1, ReadElements DEF Truth, TypeOK
      <3> QED
        BY <2>1, <3>1, <3>2 DEF Truth
    <2>4. \A i \in 1..Len(Tail(inbox)) : Tail(inbox)[i].started = Want => tv.power = Want
      BY <2>1, ReadElements DEF Truth, TypeOK
    <2> HIDE DEF p
    <2>5. CASE EndAttempt(TRUE, p)
      BY <2>1, <2>2, <2>3, <2>5, EndAttemptTruth
    <2>6. CASE inbox' = Tail(inbox) /\ UNCHANGED <<pc, link, out, retry, deadline>>
      BY <2>1, <2>3, <2>4, <2>6 DEF Truth, IsPower, SendsKeys, Want, Succeeded, retry
    <2> QED
      BY <1>7, <2>5, <2>6 DEF AwaitRead, p, PastDeadline
  <1>8. CASE AwaitReadError
    <2>1. /\ UNCHANGED <<cmd, pending, tv>> /\ EndAttempt(TRUE, hs.power) /\ IsPower
          /\ hs.power \in PowerView /\ (hs.power = Want => tv.power = Want)
      BY <1>8 DEF AwaitReadError, Books, Phase, Truth, TypeOK, HandshakeState
    <2> QED
      BY <2>1, EndAttemptTruth
  <1>9. CASE Retry \/ WakeSent \/ WakeFail \/ PollOk \/ PollFail \/ PollAgain
    <2>1. /\ UNCHANGED <<cmd, pending, tv, tries, attempt>> /\ pc # "done"
          /\ \/ pc' \in {"open", "poll", "pollpause"}
             \/ /\ pc' = "done" /\ out'.kind \in {"protocol_error", "unreachable"}
                /\ pc # "backoff"
      BY <1>9 DEF Retry, WakeSent, WakeFail, PollOk, PollFail, PollAgain, retry, NoOutput, PastDeadline
    <2> QED
      BY <2>1 DEF Truth, IsPower, SendsKeys, Want, Succeeded
  <1>10. CASE TVStart \/ TVChat
    <2>1. /\ UNCHANGED <<cmd, pc, hs, out, tries, attempt, pending>> /\ tv'.power = tv.power
      BY <1>10, StartTV, ChatTV DEF TVStart, TVChat, local, retry
    <2>2. PICK m \in RemoteMessage : Deliver(m)
      <3>1. Start \in RemoteMessage
        BY DEF Start, RemoteMessage, Field, HandleOrder, Power
      <3> QED
        BY <1>10, <3>1, ChatAssumption DEF TVStart, TVChat
    <2>3. \A i \in 1..Len(inbox') :
             inbox'[i].started = tv.power
             \/ (i \in 1..Len(inbox) /\ inbox'[i].started = inbox[i].started)
      BY <2>2, DeliveredElements
    <2> QED
      BY <2>1, <2>3 DEF Truth, IsPower, SendsKeys, Want, Succeeded
  <1>11. CASE TVKey
    <2>1. UNCHANGED <<cmd, pc, hs, inbox, out, attempt, tries>>
      BY <1>11, OtherTV
    <2>2. /\ pending # <<>> /\ pending' = Tail(pending)
          /\ tv'.power = tv.power \/ tv'.power = Flip(tv.power)
      BY <1>11 DEF TVKey, TypeOK, TV
    <2>3. pc \in {"pause", "await", "backoff", "settle", "done"} /\ (pc = "pause" => SendsKeys)
      BY <1>0, <2>2 DEF Pipeline
    <2>4. IsPower => pending' = <<>> /\ (tv'.power = tv.power \/ tv'.power = Want)
      <3>1. IsPower => tv.power # Want /\ Len(pending) = 1
        BY <2>2 DEF Truth
      <3>2. pending' \in Seq(Inject) /\ Len(pending') = Len(pending) - 1
        BY <2>2, HeadTailProperties DEF TypeOK
      <3>3. IsPower => pending' = <<>>
        <4>1. IsPower => Len(pending') = 0
          BY <3>1, <3>2
        <4> QED
          BY <3>2, <4>1, EmptySeq
      <3>4. tv.power \in {"on", "off"}
        BY DEF TypeOK, TV, Power
      <3> QED
        BY <2>2, <3>1, <3>3, <3>4 DEF Flip, Want
    <2>5. cmd.name # "status"
      BY <2>2 DEF Truth
    <2>6. CASE IsPower
      <3>1. pc \in {"pause", "handshake"} => FALSE
        BY <2>3, <2>6 DEF IsPower, SendsKeys
      <3>2. pending' = <<>> /\ (tv.power = Want => tv'.power = Want)
        BY <2>4, <2>6
      <3> QED
        BY <2>1, <2>5, <2>6, <3>1, <3>2 DEF Truth, IsPower, SendsKeys, Want, Succeeded
    <2>7. CASE ~IsPower
      <3>1. SendsKeys /\ pc # "await"
        BY <2>5, <2>7, CommandsAssumption
           DEF Books, Phase, TypeOK, Command, IsPower, SendsKeys
      <3> QED
        BY <2>1, <2>5, <2>7, <3>1 DEF Truth, IsPower, SendsKeys, Want, Succeeded
    <2> QED
      BY <2>6, <2>7
  <1>12. CASE TVDropKey
    <2>1. UNCHANGED <<cmd, pc, hs, inbox, out, attempt, tries>>
      BY <1>12, OtherTV
    <2>2. /\ pending # <<>> /\ pending' = Tail(pending) /\ tv'.power = tv.power
      BY <1>12 DEF TVDropKey, TypeOK, TV
    <2>3. IsPower => pending' = <<>>
      <3>1. IsPower => Len(pending) = 1
        BY <2>2 DEF Truth
      <3>2. pending' \in Seq(Inject) /\ Len(pending') = Len(pending) - 1
        BY <2>2, HeadTailProperties DEF TypeOK
      <3> QED
        BY <3>1, <3>2, EmptySeq
    <2>4. cmd.name # "status"
      BY <2>2 DEF Truth
    <2> QED
      BY <2>1, <2>2, <2>3, <2>4 DEF Truth, IsPower, SendsKeys, Want, Succeeded
  <1>13. CASE TVOutside
    <2>1. tv.outside < 0 /\ tv.outside \in Nat
      BY <1>0, <1>13, TVNumbers DEF TVOutside, TypeOK
    <2> QED
      BY <2>1
  <1>14. CASE TVSleep \/ TVWake
    <2>1. UNCHANGED <<cmd, pc, hs, inbox, out, attempt, tries, pending>>
      BY <1>14, OtherTV DEF TVSleep, TVWake
    <2>2. \/ tv'.power = tv.power
          \/ tv'.power = "on" /\ pc \in {"poll", "pollpause"}
      BY <1>14 DEF TVSleep, TVWake, TypeOK, TV
    <2>3. pc \in {"poll", "pollpause"} => pending = <<>>
      BY <1>0 DEF Pipeline
    <2> QED
      BY <2>1, <2>2, <2>3 DEF Truth, IsPower, SendsKeys, Want, Succeeded
  <1>15. CASE Fragment \/ TVClose \/ Tick \/ UNCHANGED vars
    <2>1. UNCHANGED <<cmd, pc, hs, inbox, out, attempt, tries, pending>>
      BY <1>15 DEF Fragment, TVClose, Tick, vars, client, local, conn, retry
    <2>2. tv'.power = tv.power
      BY <1>15, TickTV DEF Fragment, TVClose, vars
    <2> QED
      BY <2>1, <2>2 DEF Truth, IsPower, SendsKeys, Want, Succeeded
  <1> QED
    BY <1>1, <1>2, <1>3, <1>4, <1>5, <1>6, <1>7, <1>8, <1>9, <1>10, <1>11, <1>12,
       <1>13, <1>14, <1>15 DEF Next, ClientStep, TVStep, Terminated
----------------------------------------------------------------------------
(* The magic packet.                                                        *)

\* Only a failed connect leads to the magic packet, and a first attempt that
\* got past its connect never returns to one.
LEMMA UnheardStep ==
    ASSUME TypeOK, Books, Unheard, [Next]_vars
    PROVE  Unheard'
  <1> USE DEF Unheard
  <1>1. CASE OpenStore
    BY <1>1 DEF OpenStore, Fail, CanWake, Finish, retry, history
  <1>2. CASE ConnectFail
    BY <1>2 DEF ConnectFail, Fail, CanWake, Finish, retry, history
  <1>3. CASE ConnectOk \/ InjectOk \/ Settled
    BY <1>3 DEF ConnectOk, InjectOk, StartAwait, NextKeyOrSettle, Settled, Finish
  <1>4. CASE HandshakeRead
    <2>1. \/ pc' \in {"done", "handshake", "pause"}
          \/ pc' = "backoff" /\ tries' = tries + 1
      BY <1>4 DEF HandshakeRead, Ready, Fail, CanWake, EndAttempt, Finish, Pressed, Again
    <2> QED
      BY <2>1 DEF TypeOK
  <1>5. CASE HandshakeReadError \/ InjectFail
    <2>1. pc' = "done"
      BY <1>5 DEF HandshakeReadError, InjectFail, Fail, CanWake, Finish, map_session_read_error
    <2> QED
      BY <2>1
  <1>6. CASE AwaitRead \/ AwaitReadError
    <2>1. \/ pc' \in {"done", "await"}
          \/ pc' = "backoff" /\ tries' = tries + 1
      BY <1>6 DEF AwaitRead, AwaitReadError, EndAttempt, Finish, PastDeadline, Pressed, Again
    <2> QED
      BY <2>1 DEF TypeOK
  <1>7. CASE Retry
    <2>1. tries' = tries /\ pc = "backoff"
      BY <1>7 DEF Retry, retry
    <2>2. tries # 0
      BY <2>1 DEF TypeOK
    <2> QED
      BY <2>1, <2>2
  <1>8. CASE WakeSent \/ WakeFail \/ PollOk \/ PollFail \/ PollAgain
    BY <1>8 DEF WakeSent, WakeFail, PollOk, PollFail, PollAgain, retry, local, history,
                PastDeadline
  <1>9. CASE TVStep \/ Tick \/ UNCHANGED vars
    <2>1. UNCHANGED <<pc, tries, got_any, lastread>>
      BY <1>9 DEF TVStep, Fragment, TVStart, TVChat, TVClose, TVKey, TVDropKey, TVOutside,
                  TVSleep, TVWake, Tick, vars, client, retry, local, history
    <2> QED
      BY <2>1
  <1> QED
    BY <1>1, <1>2, <1>3, <1>4, <1>5, <1>6, <1>7, <1>8, <1>9 DEF Next, ClientStep, Terminated

----------------------------------------------------------------------------
(* The theorems.                                                            *)

LEMMA InitPower == Init => PowerInv
  <1> SUFFICES ASSUME Init PROVE PowerInv
    OBVIOUS
  <1>1. ClientInv
    BY InitInv
  <1>2. Unheard /\ Wire /\ Pipeline
    BY DEF Init, Unheard, Wire, Pipeline
  <1>3. Truth
    BY DEF Init, Truth, Succeeded
  <1> QED
    BY <1>1, <1>2, <1>3 DEF PowerInv

\* PowerInv is an invariant of Session.
LEMMA PowerInvariant == Spec => []PowerInv
  <1>1. PowerInv /\ [Next]_vars => PowerInv'
    BY TypeStep, BooksStep, AwaitStep, UnheardStep, WireStep, PipelineStep, TruthStep
       DEF PowerInv, ClientInv
  <1> QED
    BY InitPower, <1>1, PTL DEF Spec

\* A state that status, a no-op or a confirmed press reports is the TV's, for
\* every timing, chat, loss and retry, as long as nobody else uses the TV and
\* it acts on a key within a tick.
THEOREM ReportsAreTrue == Spec => []ReportIsTrue
  <1>1. PowerInv => ReportIsTrue
    BY DEF PowerInv, Truth, ReportIsTrue, Succeeded
  <1> QED
    BY PowerInvariant, <1>1, PTL

\* No key is on its way to a TV that still ignores keys after remote_start.
THEOREM KeysComeAfterGrace == Spec => []KeyAfterGrace
  <1>1. PowerInv => KeyAfterGrace
    BY DEF PowerInv, Pipeline, KeyAfterGrace
  <1> QED
    BY PowerInvariant, <1>1, PTL

\* Wake-on-LAN is only used against a TV that has said nothing, not even that it
\* rejects the certificate, and was sent nothing.
THEOREM WakesOnlySilentTVs == Spec => []WakeIsLastResort
  <1>1. PowerInv => WakeIsLastResort
    <2> SUFFICES ASSUME PowerInv, pc \in {"wake", "poll", "pollpause"}
                 PROVE  /\ ~got_any /\ written = <<>>
                        /\ link = "down" /\ lastread = "none"
      BY DEF WakeIsLastResort
    <2>1. cmd.name = "on" /\ tries = 0
      BY DEF PowerInv, ClientInv, Books, Phase
    <2>2. Len(written) <= tries /\ Len(written) \in Nat
      BY <2>1, LenProperties DEF PowerInv, ClientInv, TypeOK, Books, Presses, IsPower
    <2>3. written = <<>>
      BY <2>1, <2>2, EmptySeq DEF PowerInv, ClientInv, TypeOK
    <2> QED
      BY <2>1, <2>3 DEF PowerInv, Unheard, Wire
  <1> QED
    BY PowerInvariant, <1>1, PTL

\* The toggle is never pressed once too often: no step of the client, the TV or
\* the clock takes a TV out of the state that on / off asked for.
THEOREM ToggleIsNeverUndone == Spec => NeverUndone
  <1> DEFINE Kept == Undisturbed /\ IsPower /\ tv.power = Want => tv'.power = Want
  <1>1. PowerInv /\ [Next]_vars => [Kept]_vars
    <2> SUFFICES ASSUME PowerInv, Next, Undisturbed, IsPower, tv.power = Want
                 PROVE  tv'.power = Want
      OBVIOUS
    <2>0. TypeOK /\ tv \in TV
      BY DEF PowerInv, ClientInv, TypeOK
    <2>1. CASE TVKey
      BY <2>1 DEF TVKey, PowerInv, Truth
    <2>2. CASE TVOutside
      BY <2>0, <2>2, TVNumbers DEF TVOutside, Undisturbed
    <2>3. CASE TVWake
      <3>1. cmd.name = "on"
        BY <2>3 DEF TVWake, PowerInv, ClientInv, Books, Phase
      <3> QED
        BY <2>0, <2>3, <3>1 DEF TVWake, TV, Want
    <2>4. CASE ConnectOk
      BY <2>0, <2>4, ConnectTV
    <2>5. CASE TVStart \/ TVChat \/ Tick
      BY <2>0, <2>5, StartTV, ChatTV, TickTV
    <2>6. CASE TVDropKey \/ TVSleep
      BY <2>0, <2>6 DEF TVDropKey, TVSleep, TV
    <2>7. CASE UNCHANGED tv
      BY <2>7
    <2> QED
      BY <2>1, <2>2, <2>3, <2>4, <2>5, <2>6, <2>7
         DEF Next, ClientStep, TVStep, OpenStore, ConnectFail, HandshakeRead,
             HandshakeReadError, InjectFail, InjectOk, Settled, AwaitRead, AwaitReadError,
             Retry, WakeSent, WakeFail, PollOk, PollFail, PollAgain, Fragment, TVClose,
             Terminated, vars, PastDeadline
  <1> QED
    BY PowerInvariant, <1>1, PTL DEF Spec, NeverUndone
==============================================================================
