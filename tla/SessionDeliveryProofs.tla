------------------------- MODULE SessionDeliveryProofs -------------------------
(***************************************************************************)
(* That a reported success is one: key and launch deliver what they were   *)
(* given, for every list of injects, every timing and every fault; and on  *)
(* turns a TV on that stays reachable and ignores fewer presses than there *)
(* are attempts.                                                           *)
(***************************************************************************)
EXTENDS SessionPowerProofs

\* The client does not stop waiting while the TV holds a key.
Settling == ~SlowTV /\ pc = "settle" /\ pending # <<>> => timer > 0

\* What was written, against what the TV has acted on and what it still holds:
\* while it is there, nothing is missing in between, and on an open connection
\* nothing is missing at the end.
Delivery ==
    ~SlowTV /\ SendsKeys /\ tv.drops = 0 =>
        /\ Len(acted) <= Len(written)
        /\ \A i \in 1..Len(acted) : acted[i] = written[i]
        /\ tv.up =>
               /\ Len(acted) + Len(pending) <= Len(written)
               /\ \A i \in 1..Len(pending) : pending[i] = written[Len(acted) + i]
               /\ link = "open" => Len(acted) + Len(pending) = Len(written)

\* A TV that stays reachable and says nothing that ends a session.
Polite ==
    /\ Undisturbed /\ ~Faults
    /\ \A m \in Chat : ~Undecodable(m) /\ Branch(m) # "remote_error"

\* Why no attempt after the first can fail against such a TV.
Steady ==
    /\ pc \in {"connect", "handshake", "pause", "await"} \/ tries > 0 => cmd.store = "paired"
    /\ pc \in {"handshake", "pause", "await"} \/ tries > 0 => tv.up
    /\ inbox # <<>> \/ tv.greeted \/ tries > 0 => tv.trusts
    /\ pc \in {"handshake", "pause", "await"} => link # "down"
    /\ link = "closed" => ~tv.trusts
    /\ \A i \in 1..Len(inbox) : ~Undecodable(inbox[i]) /\ Branch(inbox[i]) # "remote_error"
    /\ pc = "handshake" /\ tv.greeted =>
           \E i \in 1..Len(inbox) : Branch(inbox[i]) = "remote_start"
    /\ pc = "handshake" /\ tv.trusts => timer > 0 \/ tv.greeted

\* Where the presses of on have gone: every attempt so far has made one, and
\* while the TV is off, it has ignored each or is about to take it.
Ledger ==
    /\ tv.drops <= MaxDrops
    /\ pc = "await" /\ pending # <<>> => timer > 0 /\ deadline > 0
    /\ cmd.name = "on" =>
           /\ pending # <<>> => pc = "await" /\ pending = <<"POWER">>
           /\ pc # "done" => Len(written) = IF pc = "await" THEN tries + 1 ELSE tries
           /\ Succeeded => attempt.observed = "on" \/ Len(written) >= POWER_ON_ATTEMPTS
           /\ tv.power = "off" => Len(written) = tv.drops + Len(pending)

----------------------------------------------------------------------------
\* The command line never changes.
LEMMA CommandIsFixed == [Next]_vars => cmd' = cmd
  BY DEF Next, ClientStep, TVStep, Terminated, OpenStore, ConnectOk, ConnectFail,
         HandshakeRead, HandshakeReadError, InjectFail, InjectOk, Settled, AwaitRead,
         AwaitReadError, Retry, WakeSent, WakeFail, PollOk, PollFail, PollAgain,
         Fragment, TVStart, TVChat, TVClose, TVKey, TVDropKey, TVOutside, TVSleep,
         TVWake, Tick, vars, PastDeadline

\* The TV empties its queue: only a client that pauses before an inject fills it.
LEMMA QueueGrowsByInject ==
    ASSUME TypeOK, [Next]_vars, pending = <<>>, pending' # <<>>
    PROVE  InjectOk
  BY DEF Next, ClientStep, TVStep, Terminated, OpenStore, ConnectOk, ConnectFail,
         HandshakeRead, HandshakeReadError, InjectFail, Settled, AwaitRead,
         AwaitReadError, Retry, WakeSent, WakeFail, PollOk, PollFail, PollAgain,
         Fragment, TVStart, TVChat, TVClose, TVKey, TVDropKey, TVOutside, TVSleep,
         TVWake, Tick, vars, PastDeadline

\* No time passes while the TV holds a key, so the pause after the last inject
\* does not end before the TV has taken it.
LEMMA SettlingStep ==
    ASSUME TypeOK, Settling, [Next]_vars
    PROVE  Settling'
  <1> USE Bounds
  <1> SUFFICES ASSUME ~SlowTV, pc' = "settle", pending' # <<>>
               PROVE  timer' > 0
    BY DEF Settling
  <1>1. CASE InjectOk
    BY <1>1, SMTT(60) DEF InjectOk, StartAwait, NextKeyOrSettle
  <1>2. CASE ~InjectOk
    <2>1. pending # <<>>
      BY <1>2, QueueGrowsByInject
    <2>2. ~Tick
      BY <2>1 DEF Tick
    <2>3. ASSUME NEW kind PROVE ~Fail(kind)
      BY DEF Fail, Finish
    <2>4. ASSUME NEW ch, NEW seen PROVE ~EndAttempt(ch, seen)
      BY DEF EndAttempt, Finish
    <2>5. ~ClientStep
      BY <1>2, <2>3, <2>4
         DEF ClientStep, OpenStore, ConnectOk, ConnectFail, HandshakeRead, Ready, Finish,
             HandshakeReadError, InjectFail, Settled, AwaitRead, AwaitReadError, Retry,
             WakeSent, WakeFail, PollOk, PollFail, PollAgain, PastDeadline
    <2>6. pc' = pc /\ timer' = timer
      BY <2>2, <2>5 DEF Next, TVStep, Terminated, Fragment, TVStart, TVChat, TVClose,
             TVKey, TVDropKey, TVOutside, TVSleep, TVWake, vars, client
    <2> QED
      BY <2>1, <2>6 DEF Settling
  <1> QED
    BY <1>1, <1>2

\* Only an inject, and the TV that takes or loses one, move keys.
LEMMA KeysStay ==
    ASSUME [Next]_vars, ~InjectOk, ~TVKey, ~TVDropKey
    PROVE  UNCHANGED <<written, acted, pending>>
  BY DEF Next, ClientStep, TVStep, Terminated, OpenStore, ConnectOk, ConnectFail,
         HandshakeRead, HandshakeReadError, InjectFail, Settled, AwaitRead,
         AwaitReadError, Retry, WakeSent, WakeFail, PollOk, PollFail, PollAgain,
         Fragment, TVStart, TVChat, TVClose, TVOutside, TVSleep,
         TVWake, Tick, vars, history, PastDeadline

\* A connection is only ever opened by a connect.
LEMMA OpenedByConnect ==
    ASSUME [Next]_vars, link' = "open", link # "open"
    PROVE  ConnectOk
  <1>1. ASSUME NEW kind PROVE ~Fail(kind)
    BY DEF Fail, Hangup
  <1>2. ASSUME NEW ch, NEW seen PROVE ~EndAttempt(ch, seen)
    BY DEF EndAttempt, Hangup
  <1> QED
    BY <1>1, <1>2
       DEF Next, ClientStep, TVStep, Terminated, OpenStore, ConnectFail,
           HandshakeRead, HandshakeReadError, InjectFail, InjectOk, Settled, AwaitRead,
           AwaitReadError, Retry, WakeSent, WakeFail, PollOk, PollFail, PollAgain,
           Fragment, TVStart, TVChat, TVClose, TVKey, TVDropKey, TVOutside, TVSleep,
           TVWake, Tick, vars, client, conn, Ready, Hangup, PastDeadline

\* During key / launch, which wake nobody, a TV that left does not come back, and
\* the count of the keys it ignored is not reset.
LEMMA TVLeavesForGood ==
    ASSUME TypeOK, Books, SendsKeys, [Next]_vars
    PROVE  (tv'.up => tv.up) /\ (tv'.drops = 0 => tv.drops = 0)
  <1>0. tv \in TV /\ tv.drops \in Nat
    BY TVNumbers DEF TypeOK
  <1>1. CASE ConnectOk
    BY <1>0, <1>1 DEF ConnectOk, TV
  <1>2. CASE TVStart \/ TVChat
    BY <1>0, <1>2 DEF TVStart, TVChat, TV
  <1>3. CASE TVKey \/ TVDropKey
    BY <1>0, <1>3 DEF TVKey, TVDropKey, TV
  <1>4. CASE TVOutside \/ TVSleep
    BY <1>0, <1>4 DEF TVOutside, TVSleep, TV
  <1>5. ~TVWake
    BY DEF TVWake, Books, Phase, SendsKeys
  <1>6. CASE Tick
    BY <1>0, <1>6 DEF Tick, TV
  <1>7. CASE UNCHANGED tv
    BY <1>7
  <1> QED
    BY <1>1, <1>2, <1>3, <1>4, <1>5, <1>6, <1>7
       DEF Next, ClientStep, TVStep, OpenStore, ConnectFail, HandshakeRead,
           HandshakeReadError, InjectFail, InjectOk, Settled, AwaitRead, AwaitReadError,
           Retry, WakeSent, WakeFail, PollOk, PollFail, PollAgain, Fragment, TVClose,
           Terminated, vars, PastDeadline

\* A key that is written is the next one the TV gets, if the connection is open.
LEMMA DeliveryInject ==
    ASSUME TypeOK, Books, Delivery, InjectOk,
           ~SlowTV, SendsKeys, tv.drops = 0
    PROVE  Delivery'
  <1>1. /\ NextInject \in Inject /\ UNCHANGED <<cmd, acted, tv, link>>
        /\ written' = Append(written, NextInject)
        /\ pending' = IF link = "open" THEN Append(pending, NextInject) ELSE pending
    BY NextInjectType DEF InjectOk, conn
  <1>2. /\ Len(written) \in Nat /\ Len(written') = Len(written) + 1
        /\ \A i \in 1..Len(written) : written'[i] = written[i]
        /\ written'[Len(written) + 1] = NextInject
    BY <1>1, LenProperties, AppendProperties DEF TypeOK
  <1>3. /\ Len(pending) \in Nat
        /\ link = "open" => /\ Len(pending') = Len(pending) + 1
                            /\ \A i \in 1..Len(pending) : pending'[i] = pending[i]
                            /\ pending'[Len(pending) + 1] = NextInject
    BY <1>1, LenProperties, AppendProperties DEF TypeOK
  <1>4. Len(acted) \in Nat
    BY LenProperties DEF TypeOK
  <1>5. /\ Len(acted) <= Len(written)
        /\ \A i \in 1..Len(acted) : acted[i] = written[i]
    BY DEF Delivery
  <1>6. Len(acted') <= Len(written') /\ \A i \in 1..Len(acted') : acted'[i] = written'[i]
    BY <1>1, <1>2, <1>4, <1>5
  <1>7. ASSUME tv.up
        PROVE  /\ Len(acted) + Len(pending') <= Len(written')
               /\ \A i \in 1..Len(pending') : pending'[i] = written'[Len(acted) + i]
               /\ link = "open" => Len(acted) + Len(pending') = Len(written')
    <2>1. /\ Len(acted) + Len(pending) <= Len(written)
          /\ \A i \in 1..Len(pending) : pending[i] = written[Len(acted) + i]
          /\ link = "open" => Len(acted) + Len(pending) = Len(written)
      BY <1>7 DEF Delivery
    <2>2. \A i \in 1..Len(pending) : pending[i] = written'[Len(acted) + i]
      <3> SUFFICES ASSUME NEW i \in 1..Len(pending)
                   PROVE  pending[i] = written'[Len(acted) + i]
        OBVIOUS
      <3>1. Len(acted) + i \in 1..Len(written)
        BY <1>2, <1>3, <1>4, <2>1
      <3> QED
        BY <1>2, <2>1, <3>1
    <2>3. CASE link = "open"
      <3>1. \A i \in 1..Len(pending') : i \in 1..Len(pending) \/ i = Len(pending) + 1
        BY <1>3, <2>3
      <3>2. Len(acted) + (Len(pending) + 1) = Len(written) + 1
        BY <1>2, <1>3, <1>4, <2>1, <2>3
      <3>3. Len(acted) + Len(pending') = Len(written')
        BY <1>2, <1>3, <2>3, <3>2
      <3>4. pending'[Len(pending) + 1] = written'[Len(acted) + (Len(pending) + 1)]
        BY <1>2, <1>3, <2>3, <3>2
      <3>5. ASSUME NEW i \in 1..Len(pending')
            PROVE  pending'[i] = written'[Len(acted) + i]
        BY <1>3, <2>2, <2>3, <3>1, <3>4
      <3>6. Len(acted) + Len(pending') <= Len(written')
        BY <1>2, <3>3
      <3> QED
        BY <3>3, <3>5, <3>6
    <2>4. CASE link # "open"
      BY <1>1, <1>2, <1>3, <1>4, <2>1, <2>2, <2>4
    <2> QED
      BY <2>3, <2>4
  <1> QED
    BY <1>1, <1>6, <1>7 DEF Delivery, SendsKeys

\* The TV acts on the first of the keys it holds.
LEMMA DeliveryKey ==
    ASSUME TypeOK, Delivery, TVKey, ~SlowTV, SendsKeys, tv.drops = 0
    PROVE  Delivery'
  <1>1. /\ pending # <<>> /\ tv.up /\ tv'.up = tv.up /\ UNCHANGED <<cmd, written, link>>
        /\ pending' = Tail(pending) /\ acted' = Append(acted, Head(pending))
    BY DEF TVKey, client, conn, TypeOK, TV
  <1>2. /\ Len(pending) \in Nat \ {0} /\ Len(pending') = Len(pending) - 1
        /\ Head(pending) = pending[1] /\ Head(pending) \in Inject
        /\ \A i \in 1..Len(pending') : pending'[i] = pending[i + 1]
    BY <1>1, EmptySeq, LenProperties, HeadTailProperties DEF TypeOK
  <1>3. /\ Len(acted) \in Nat /\ Len(acted') = Len(acted) + 1
        /\ \A i \in 1..Len(acted) : acted'[i] = acted[i]
        /\ acted'[Len(acted) + 1] = Head(pending)
    BY <1>1, <1>2, LenProperties, AppendProperties DEF TypeOK
  <1>4. /\ \A i \in 1..Len(acted) : acted[i] = written[i]
        /\ Len(acted) + Len(pending) <= Len(written)
        /\ \A i \in 1..Len(pending) : pending[i] = written[Len(acted) + i]
        /\ link = "open" => Len(acted) + Len(pending) = Len(written)
    BY <1>1 DEF Delivery
  <1>5. Len(written) \in Nat
    BY LenProperties DEF TypeOK
  <1>6. Len(acted') <= Len(written')
    BY <1>1, <1>2, <1>3, <1>4, <1>5
  <1>7. \A i \in 1..Len(acted') : acted'[i] = written'[i]
    <2>1. \A i \in 1..Len(acted') : i \in 1..Len(acted) \/ i = Len(acted) + 1
      BY <1>3
    <2>2. pending[1] = written[Len(acted) + 1]
      BY <1>2, <1>4
    <2> QED
      BY <1>1, <1>2, <1>3, <1>4, <2>1, <2>2
  <1>8. /\ Len(acted') + Len(pending') <= Len(written')
        /\ link' = "open" => Len(acted') + Len(pending') = Len(written')
    BY <1>1, <1>2, <1>3, <1>4, <1>5
  <1>9. \A i \in 1..Len(pending') : pending'[i] = written'[Len(acted') + i]
    <2> SUFFICES ASSUME NEW i \in 1..Len(pending')
                 PROVE  pending'[i] = written'[Len(acted') + i]
      OBVIOUS
    <2>1. i + 1 \in 1..Len(pending) /\ Len(acted) + (i + 1) = Len(acted') + i
      BY <1>2, <1>3
    <2> QED
      BY <1>1, <1>2, <1>4, <2>1
  <1> QED
    BY <1>6, <1>7, <1>8, <1>9 DEF Delivery

\* Every step keeps the order of the keys, and their number on an open connection.
LEMMA DeliveryStep ==
    ASSUME TypeOK, Books, Pipeline, Delivery, [Next]_vars
    PROVE  Delivery'
  <1> SUFFICES ASSUME ~SlowTV, SendsKeys, tv'.drops = 0
               PROVE  Delivery'
    BY CommandIsFixed DEF Delivery, SendsKeys
  <1>1. (tv'.up => tv.up) /\ tv.drops = 0
    BY TVLeavesForGood
  <1>2. CASE InjectOk
    BY <1>1, <1>2, DeliveryInject
  <1>3. CASE TVKey
    BY <1>1, <1>3, DeliveryKey
  <1>4. CASE TVDropKey
    <2>1. pending # <<>> /\ UNCHANGED <<written, acted>>
      BY <1>4 DEF TVDropKey, history
    <2>2. tv.warm = 0
      BY <2>1 DEF Pipeline
    <2>3. ~tv.up
      <3>1. SUFFICES ASSUME tv.up PROVE FALSE
        OBVIOUS
      <3>2. tv' = [tv EXCEPT !.drops = tv.drops + 1]
        BY <1>4, <2>2, <3>1 DEF TVDropKey
      <3>3. tv'.drops = 1
        BY <1>1, <3>2 DEF TypeOK, TV
      <3> QED
        BY <3>3
    <2> QED
      BY <1>1, <2>1, <2>3 DEF Delivery
  <1>5. CASE ~InjectOk /\ ~TVKey /\ ~TVDropKey
    <2>1. UNCHANGED <<written, acted, pending>>
      BY <1>5, KeysStay
    <2>2. CASE link' = "open" /\ link # "open"
      <3>1. written = <<>>
        BY <2>2, OpenedByConnect DEF ConnectOk, Books, Keys
      <3>2. Len(written) = 0 /\ Len(acted) \in Nat /\ Len(pending) \in Nat
        BY <3>1, EmptySeq, LenProperties DEF TypeOK
      <3>3. tv.up => Len(acted) + Len(pending) = Len(written)
        BY <1>1, <3>2 DEF Delivery
      <3> QED
        BY <1>1, <2>1, <3>3 DEF Delivery
    <2>3. CASE link' = "open" => link = "open"
      BY <1>1, <2>1, <2>3 DEF Delivery
    <2> QED
      BY <2>2, <2>3
  <1> QED
    BY <1>2, <1>3, <1>4, <1>5

\* send_keys and send_app_link: what was written is a prefix of the arguments,
\* and what the TV has acted on a prefix of that, whatever goes wrong and
\* whenever; and when the client is about to drop a connection that the TV has
\* kept open, the TV has acted on every one of the arguments.
THEOREM KeysAreDelivered == Spec => []KeysDelivered
  <1>1. PowerInv /\ Settling /\ Delivery => KeysDelivered
    <2> SUFFICES ASSUME PowerInv, Settling, Delivery, SendsKeys
                 PROVE  /\ written = SubSeq(cmd.injects, 1, Len(written))
                        /\ Succeeded => written = cmd.injects
                        /\ ~SlowTV /\ tv.drops = 0 =>
                               /\ acted = SubSeq(cmd.injects, 1, Len(acted))
                               /\ pc = "settle" /\ timer = 0 /\ link = "open" /\ tv.up
                                      => acted = cmd.injects
      BY DEF KeysDelivered, SendsKeys
    <2>1. /\ written \in Seq(Inject) /\ acted \in Seq(Inject) /\ cmd.injects \in Seq(Inject)
          /\ Len(written) \in Nat /\ Len(acted) \in Nat /\ Len(cmd.injects) \in Nat
      BY CommandsAssumption, LenProperties DEF PowerInv, ClientInv, TypeOK, Command
    <2>2. /\ Len(written) <= Len(cmd.injects)
          /\ \A i \in 1..Len(written) : written[i] = cmd.injects[i]
          /\ Succeeded \/ pc = "settle" => Len(written) = Len(cmd.injects)
      BY DEF PowerInv, ClientInv, Books, Keys, Succeeded
    <2>3. ASSUME NEW s \in Seq(Inject), Len(s) \in Nat, Len(s) <= Len(cmd.injects),
                 \A i \in 1..Len(s) : s[i] = cmd.injects[i]
          PROVE  /\ s = SubSeq(cmd.injects, 1, Len(s))
                 /\ Len(s) = Len(cmd.injects) => s = cmd.injects
      <3> DEFINE pre == SubSeq(cmd.injects, 1, Len(s))
      <3>1. pre \in Seq(Inject) /\ Len(pre) = Len(s)
            /\ \A i \in 1..Len(s) : pre[i] = cmd.injects[i]
        BY <2>1, <2>3, SubSeqProperties
      <3> HIDE DEF pre
      <3>2. s = pre
        BY <2>3, <3>1, SeqEqual
      <3>3. Len(s) = Len(cmd.injects) => s = cmd.injects
        BY <2>1, <2>3, SeqEqual
      <3> QED
        BY <3>2, <3>3 DEF pre
    <2>4. ASSUME ~SlowTV, tv.drops = 0
          PROVE  /\ acted = SubSeq(cmd.injects, 1, Len(acted))
                 /\ pc = "settle" /\ timer = 0 /\ link = "open" /\ tv.up
                        => acted = cmd.injects
      <3>1. /\ Len(acted) <= Len(written)
            /\ \A i \in 1..Len(acted) : acted[i] = written[i]
            /\ tv.up /\ link = "open" => Len(acted) + Len(pending) = Len(written)
        BY <2>4 DEF Delivery
      <3>2. /\ Len(acted) <= Len(cmd.injects)
            /\ \A i \in 1..Len(acted) : acted[i] = cmd.injects[i]
        BY <2>1, <2>2, <3>1
      <3>3. ASSUME pc = "settle", timer = 0, link = "open", tv.up
            PROVE  Len(acted) = Len(cmd.injects)
        <4>1. pending = <<>>
          BY <2>4, <3>3 DEF Settling
        <4>2. Len(pending) = 0
          BY <4>1, EmptySeq
        <4> QED
          BY <2>1, <2>2, <3>1, <3>3, <4>2
      <3> QED
        BY <2>1, <2>3, <3>2, <3>3
    <2> QED
      BY <2>1, <2>2, <2>3, <2>4
  <1>2. Init => Settling /\ Delivery
    BY EmptySeq DEF Init, Settling, Delivery
  <1>3. PowerInv /\ Settling /\ Delivery /\ [Next]_vars => Settling' /\ Delivery'
    BY SettlingStep, DeliveryStep DEF PowerInv, ClientInv
  <1> QED
    BY PowerInvariant, <1>1, <1>2, <1>3, PTL DEF Spec

----------------------------------------------------------------------------
(* A TV that stays reachable.                                               *)

\* The TV's trust is for ever, and without faults so is its network.
LEMMA TVStays ==
    ASSUME TypeOK, ~Faults, [Next]_vars
    PROVE  tv'.trusts = tv.trusts /\ (tv.up => tv'.up)
  <1>1. CASE ConnectOk
    BY <1>1 DEF ConnectOk, TypeOK, TV
  <1>2. CASE TVStart
    BY <1>2 DEF TVStart, TypeOK, TV
  <1>3. CASE TVChat
    BY <1>3 DEF TVChat, TypeOK, TV
  <1>4. CASE TVKey
    BY <1>4 DEF TVKey, TypeOK, TV
  <1>5. CASE TVDropKey
    BY <1>5 DEF TVDropKey, TypeOK, TV
  <1>6. CASE TVOutside
    BY <1>6 DEF TVOutside, TypeOK, TV
  <1>7. CASE TVWake
    BY <1>7 DEF TVWake, TypeOK, TV
  <1>8. CASE Tick
    BY <1>8 DEF Tick, TypeOK, TV
  <1>9. CASE UNCHANGED tv
    BY <1>9
  <1> QED
    BY <1>1, <1>2, <1>3, <1>4, <1>5, <1>6, <1>7, <1>8, <1>9
       DEF Next, ClientStep, TVStep, OpenStore, ConnectFail, HandshakeRead,
           HandshakeReadError, InjectFail, InjectOk, Settled, AwaitRead, AwaitReadError,
           Retry, WakeSent, WakeFail, PollOk, PollFail, PollAgain, Fragment, TVClose,
           TVSleep, Terminated, vars, PastDeadline

\* An attempt that fails, or ends after it was in a session, leaves no connection.
LEMMA SteadyFail ==
    ASSUME Steady, NEW kind, Fail(kind), UNCHANGED <<cmd, tv>>
    PROVE  Steady'
  <1>1. /\ link' = "down" /\ inbox' = <<>> /\ tries' = tries
        /\ pc' \in {"done", "wake"}
    BY DEF Fail, Finish, Hangup, retry
  <1>2. \A i \in 1..Len(inbox') : FALSE
    BY <1>1, EmptySeq
  <1> QED
    BY <1>1, <1>2 DEF Steady

LEMMA SteadyEnd ==
    ASSUME Steady, NEW ch, NEW seen, EndAttempt(ch, seen), UNCHANGED <<cmd, tv>>,
           cmd.store = "paired", tv.up, tv.trusts
    PROVE  Steady'
  <1>1. link' = "down" /\ inbox' = <<>> /\ pc' \in {"done", "backoff"}
    BY DEF EndAttempt, Finish, Hangup, Pressed, Again
  <1>2. \A i \in 1..Len(inbox') : FALSE
    BY <1>1, EmptySeq
  <1> QED
    BY <1>1, <1>2 DEF Steady

\* The TV delivers a message that ends no session.
LEMMA SteadyDelivery ==
    ASSUME TypeOK, Steady, NEW m \in RemoteMessage, Deliver(m),
           ~Undecodable(m), Branch(m) # "remote_error"
    PROVE  /\ \A i \in 1..Len(inbox') :
                  ~Undecodable(inbox'[i]) /\ Branch(inbox'[i]) # "remote_error"
           /\ (\E i \in 1..Len(inbox) : Branch(inbox[i]) = "remote_start")
                  => \E i \in 1..Len(inbox') : Branch(inbox'[i]) = "remote_start"
           /\ Branch(m) = "remote_start"
                  => \E i \in 1..Len(inbox') : Branch(inbox'[i]) = "remote_start"
  <1> DEFINE e == [m EXCEPT !.started = tv.power]
  <1>1. e \in RemoteMessage /\ e.fields = m.fields
    BY DEF TypeOK, TV, RemoteMessage
  <1>2. inbox' = Append(inbox, e)
    BY DEF Deliver
  <1> HIDE DEF e
  <1>3. /\ Len(inbox) \in Nat /\ Len(inbox') = Len(inbox) + 1
        /\ \A i \in 1..Len(inbox) : inbox'[i] = inbox[i]
        /\ inbox'[Len(inbox) + 1] = e
    BY <1>1, <1>2, LenProperties, AppendProperties DEF TypeOK
  <1>4. Branch(e) = Branch(m) /\ (Undecodable(e) <=> Undecodable(m))
    BY <1>1, BranchOfFields DEF Undecodable
  <1>5. Len(inbox) + 1 \in 1..Len(inbox') /\ \A i \in 1..Len(inbox) : i \in 1..Len(inbox')
    BY <1>3
  <1>6. \A i \in 1..Len(inbox') : i \in 1..Len(inbox) \/ i = Len(inbox) + 1
    BY <1>3
  <1>7. \A i \in 1..Len(inbox) : ~Undecodable(inbox[i]) /\ Branch(inbox[i]) # "remote_error"
    BY DEF Steady
  <1> QED
    BY <1>3, <1>4, <1>5, <1>6, <1>7

\* What such a TV has said is heard: no attempt that is connected can fail.
LEMMA NoFailure ==
    ASSUME TypeOK, Wire, Steady, Polite, tv.trusts
    PROVE  /\ ~HandshakeReadError /\ ~InjectFail
           /\ pc = "handshake" /\ inbox # <<>> =>
                  ~Handle(hs, Head(inbox)).err /\ link # "closed"
           /\ pc = "await" => \A e \in {"undecodable", "eof"} : ~ReadError(e)
  <1>1. link # "closed" /\ ~Faults
    BY DEF Steady, Polite
  <1>2. inbox # <<>> => ~Undecodable(Head(inbox)) /\ Branch(Head(inbox)) # "remote_error"
    BY ReadElements DEF Steady, TypeOK
  <1>3. pc = "handshake" /\ timer = 0 => inbox # <<>>
    <2>1. SUFFICES ASSUME pc = "handshake", timer = 0, inbox = <<>> PROVE FALSE
      OBVIOUS
    <2>2. tv.greeted
      BY <2>1 DEF Steady
    <2>3. \A i \in 1..Len(inbox) : FALSE
      BY <2>1, EmptySeq
    <2> QED
      BY <2>1, <2>2, <2>3 DEF Steady
  <1>4. ~HandshakeReadError
    BY <1>1, <1>2, <1>3 DEF HandshakeReadError, ReadError
  <1>5. ~InjectFail
    BY <1>1 DEF InjectFail
  <1>6. inbox # <<>> => ~Handle(hs, Head(inbox)).err
    BY <1>2 DEF Handle
  <1>7. \A e \in {"undecodable", "eof"} : ~ReadError(e)
    BY <1>1, <1>2 DEF ReadError
  <1> QED
    BY <1>1, <1>4, <1>5, <1>6, <1>7

\* A plain remote_start is handled as one.
LEMMA StartBranch ==
    ASSUME NEW m \in RemoteMessage, m.fields = {"remote_start"}
    PROVE  Branch(m) = "remote_start"
  <1> DEFINE present == {i \in DOMAIN HandleOrder : HandleOrder[i] \in m.fields}
  <1>1. DOMAIN HandleOrder = 1..5
    BY DEF HandleOrder
  <1>2. \A i \in 1..5 : HandleOrder[i] = "remote_start" <=> i = 4
    BY DEF HandleOrder
  <1>3. present = {4}
    BY <1>1, <1>2
  <1>4. Min(present) = 4
    BY <1>3 DEF Min
  <1>5. present # {}
    BY <1>3
  <1>6. HandleOrder[4] = "remote_start"
    BY <1>2
  <1> QED
    BY <1>4, <1>5, <1>6 DEF Branch

\* Every step keeps what is known of such a TV.
LEMMA SteadyStep ==
    ASSUME TypeOK, Books, Wire, Steady, Polite, [Next]_vars
    PROVE  Steady'
  <1> USE Bounds
  <1>0. /\ cmd' = cmd /\ tv'.trusts = tv.trusts /\ (tv.up => tv'.up) /\ ~Faults
        /\ timer \in Nat /\ tries \in Nat
    BY CommandIsFixed, TVStays DEF Polite, TypeOK
  <1>1. CASE ConnectFail \/ HandshakeReadError \/ InjectFail
    BY <1>1, SteadyFail DEF ConnectFail, HandshakeReadError, InjectFail
  <1>2. CASE OpenStore
    <2>1. UNCHANGED <<cmd, tv>>
      BY <1>2 DEF OpenStore
    <2>2. CASE \E kind \in ErrorKind : Fail(kind)
      BY <2>1, <2>2, SteadyFail
    <2>3. CASE /\ cmd.store = "paired" /\ pc' = "connect" /\ UNCHANGED <<retry, conn>>
      BY <2>1, <2>3, <1>2 DEF Steady, retry, conn, OpenStore
    <2> QED
      BY <1>2, <2>2, <2>3 DEF OpenStore, ErrorKind
  <1>3. CASE ConnectOk
    <2>1. /\ pc = "connect" /\ tv.up /\ link' = "open" /\ pc' = "handshake"
          /\ timer' > 0 /\ tries' = tries /\ inbox' = inbox /\ inbox = <<>>
      BY SMTT(30), <1>3 DEF ConnectOk, retry, Wire
    <2>2. tv'.greeted = FALSE
      BY <1>3, ConnectTV
    <2>3. \A i \in 1..Len(inbox') : FALSE
      BY <2>1, EmptySeq
    <2> QED
      BY <1>0, <2>1, <2>2, <2>3 DEF Steady
  <1>4. CASE HandshakeRead
    <2> DEFINE p == Handle(hs, Head(inbox)).hs.power
    <2>1. pc = "handshake" /\ inbox # <<>> /\ UNCHANGED <<cmd, tv>>
      BY <1>4 DEF HandshakeRead
    <2>2. cmd.store = "paired" /\ tv.up /\ tv.trusts /\ link = "open"
      BY <2>1 DEF Steady, TypeOK
    <2>3. \A i \in 1..Len(Tail(inbox)) :
             ~Undecodable(Tail(inbox)[i]) /\ Branch(Tail(inbox)[i]) # "remote_error"
      BY <2>1, ReadElements DEF Steady, TypeOK
    <2>4. CASE Fail("protocol_error")
      BY <2>1, <2>4, SteadyFail
    <2>5. CASE EndAttempt(FALSE, p)
      BY <2>1, <2>2, <2>5, SteadyEnd
    <2>6. CASE Hangup /\ Finish(p, FALSE) /\ UNCHANGED <<retry, deadline>>
      <3>1. link' = "down" /\ inbox' = <<>> /\ pc' = "done" /\ tries' = tries
        BY <2>6 DEF Hangup, Finish, retry
      <3>2. \A i \in 1..Len(inbox') : FALSE
        BY <3>1, EmptySeq
      <3> QED
        BY <2>1, <2>2, <3>1, <3>2 DEF Steady
    <2>7. CASE pc' = "pause" /\ inbox' = Tail(inbox) /\ UNCHANGED <<link, retry>>
      BY <2>1, <2>2, <2>3, <2>7 DEF Steady, retry
    <2>8. CASE /\ p = "unknown" /\ inbox' = Tail(inbox) /\ timer' = READ_TIMEOUT
               /\ UNCHANGED <<pc, link, retry>>
      <3>1. Branch(Head(inbox)) # "remote_start"
        <4>1. /\ Head(inbox) \in RemoteMessage
              /\ p = IF Branch(Head(inbox)) = "remote_start"
                     THEN Head(inbox).started ELSE hs.power
          BY <2>1, InboxType, HandlePower DEF TypeOK
        <4>2. Head(inbox).started # "unknown"
          BY <4>1 DEF RemoteMessage, Power
        <4> QED
          BY <2>8, <4>1, <4>2
      <3>2. ASSUME NEW i \in 1..Len(inbox), Branch(inbox[i]) = "remote_start"
            PROVE  \E j \in 1..Len(Tail(inbox)) : Branch(Tail(inbox)[j]) = "remote_start"
        <4>1. /\ Len(inbox) \in Nat /\ Len(Tail(inbox)) = Len(inbox) - 1
              /\ Head(inbox) = inbox[1]
          BY <2>1, HeadTailProperties, LenProperties DEF TypeOK
        <4>2. i # 1
          BY <3>1, <3>2, <4>1
        <4>3. i - 1 \in 1..Len(Tail(inbox)) /\ (i - 1) + 1 = i
          BY <4>1, <4>2
        <4>4. Tail(inbox)[i - 1] = inbox[i]
          BY <2>1, <4>3, ReadElements DEF TypeOK
        <4> QED
          BY <3>2, <4>3, <4>4
      <3> QED
        BY <2>1, <2>2, <2>3, <2>8, <3>2 DEF Steady, retry
    <2> QED
      BY <1>4, <2>4, <2>5, <2>6, <2>7, <2>8 DEF HandshakeRead, Ready
  <1>5. CASE InjectOk
    <2>1. /\ pc = "pause" /\ pc' \in {"await", "pause", "settle"}
          /\ UNCHANGED <<cmd, tv, tries, inbox, link>>
      BY <1>5 DEF InjectOk, StartAwait, NextKeyOrSettle, retry, conn
    <2> QED
      BY <2>1 DEF Steady
  <1>6. CASE Settled
    <2>1. /\ link' = "down" /\ inbox' = <<>> /\ pc' = "done"
          /\ UNCHANGED <<cmd, tv, tries>>
      BY <1>6 DEF Settled, Hangup, Finish, retry
    <2>2. \A i \in 1..Len(inbox') : FALSE
      BY <2>1, EmptySeq
    <2> QED
      BY <2>1, <2>2 DEF Steady
  <1>7. CASE AwaitRead \/ AwaitReadError
    <2>1. pc = "await" /\ UNCHANGED <<cmd, tv>> /\ tv.greeted
      BY <1>7 DEF AwaitRead, AwaitReadError, Wire, PastDeadline
    <2>2. cmd.store = "paired" /\ tv.up /\ tv.trusts
      BY <2>1 DEF Steady
    <2>3. CASE \E ch, seen : EndAttempt(ch, seen)
      BY <2>1, <2>2, <2>3, SteadyEnd
    <2>4. CASE inbox # <<>> /\ inbox' = Tail(inbox) /\ UNCHANGED <<pc, link, retry>>
      <3>1. \A i \in 1..Len(Tail(inbox)) :
               ~Undecodable(Tail(inbox)[i]) /\ Branch(Tail(inbox)[i]) # "remote_error"
        BY <2>4, ReadElements DEF Steady, TypeOK
      <3> QED
        BY <2>1, <2>2, <2>4, <3>1 DEF Steady, retry
    <2> QED
      BY <1>7, <2>3, <2>4 DEF AwaitRead, AwaitReadError, PastDeadline
  <1>8. CASE Retry \/ WakeSent \/ WakeFail \/ PollOk \/ PollFail \/ PollAgain
    <2>1. /\ UNCHANGED <<cmd, tv, tries, inbox, link>>
          /\ pc' \in {"open", "poll", "pollpause", "done"}
      BY <1>8 DEF Retry, WakeSent, WakeFail, PollOk, PollFail, PollAgain, retry, conn, PastDeadline
    <2> QED
      BY <2>1 DEF Steady
  <1>9. CASE TVStart
    <2>1. UNCHANGED <<cmd, pc, timer, tries, link>> /\ tv.trusts /\ Deliver(Start)
      BY <1>9 DEF TVStart, CanSend, retry
    <2>2. /\ Start \in RemoteMessage /\ Start.fields = {"remote_start"}
      BY DEF Start, RemoteMessage, Field, HandleOrder, Power
    <2>3. Branch(Start) = "remote_start" /\ ~Undecodable(Start)
      BY <2>2, StartBranch DEF Undecodable
    <2>4. tv'.greeted
      BY <1>9, StartTV
    <2> QED
      BY <1>0, <2>1, <2>2, <2>3, <2>4, SteadyDelivery DEF Steady
  <1>10. CASE TVChat
    <2>1. UNCHANGED <<cmd, pc, timer, tries, link>> /\ tv.trusts
      BY <1>10 DEF TVChat, CanSend, retry
    <2>2. PICK m \in Chat : Deliver(m)
      BY <1>10 DEF TVChat
    <2>3. m \in RemoteMessage /\ ~Undecodable(m) /\ Branch(m) # "remote_error"
      BY ChatAssumption DEF Polite
    <2>4. tv'.greeted = tv.greeted
      BY <1>10, ChatTV
    <2> QED
      BY <1>0, <2>1, <2>2, <2>3, <2>4, SteadyDelivery DEF Steady
  <1>11. CASE Fragment
    <2>1. /\ UNCHANGED <<cmd, pc, tries, inbox, link, tv>>
          /\ pc = "handshake" => timer' = READ_TIMEOUT
      BY <1>11 DEF Fragment, retry
    <2> QED
      BY <2>1 DEF Steady
  <1>12. CASE TVClose
    <2>1. UNCHANGED <<cmd, pc, timer, tries, inbox, tv>> /\ link' = "closed" /\ ~tv.trusts
      BY <1>0, <1>12 DEF TVClose, retry
    <2> QED
      BY <2>1 DEF Steady
  <1>13. CASE TVKey \/ TVDropKey \/ TVOutside \/ TVSleep \/ TVWake
    BY <1>0, <1>13, OtherTV DEF Steady
  <1>14. CASE Tick
    <2>1. /\ UNCHANGED <<cmd, pc, tries, inbox, link>> /\ timer > 0 /\ timer' = timer - 1
          /\ tv.trusts /\ pc = "handshake" /\ timer = 1 => tv.greeted
      BY <1>0, <1>14 DEF Tick, conn, retry
    <2>2. tv'.greeted = tv.greeted
      BY <1>14, TickTV
    <2>3. timer = 1 \/ timer' > 0
      BY <1>0, <2>1
    <2> QED
      BY <1>0, <2>1, <2>2, <2>3 DEF Steady
  <1>15. CASE UNCHANGED vars
    BY <1>15 DEF vars, client, conn, retry, Steady
  <1> QED
    BY <1>1, <1>2, <1>3, <1>4, <1>5, <1>6, <1>7, <1>8, <1>9, <1>10, <1>11, <1>12, <1>13,
       <1>14, <1>15 DEF Next, ClientStep, TVStep, Terminated

\* A first attempt that fails has pressed nothing.
LEMMA LedgerFail ==
    ASSUME TypeOK, Books, Ledger, NEW kind \in ErrorKind, Fail(kind), tries = 0,
           pc \notin {"await", "done"}, UNCHANGED <<cmd, tv, pending, written>>
    PROVE  Ledger'
  <1>1. pc' \in {"done", "wake"} /\ tries' = tries /\ ~Succeeded'
    <2>1. CASE CanWake(kind)
      BY <2>1 DEF Fail, Succeeded, retry
    <2>2. CASE ~CanWake(kind)
      <3>1. pc' = "done" /\ out'.kind = kind /\ tries' = tries
        BY <2>2 DEF Fail, NoOutput, retry
      <3> QED
        BY <3>1 DEF Succeeded, ErrorKind
    <2> QED
      BY <2>1, <2>2
  <1> QED
    BY <1>1 DEF Ledger

\* An attempt ends without a press and the TV on, or with one and the TV done
\* with it.
LEMMA LedgerEnd ==
    ASSUME TypeOK, Ledger, NEW ch, NEW seen, EndAttempt(ch, seen),
           pc # "done", pc = "await" \/ seen = Want, pending = <<>>,
           UNCHANGED <<cmd, tv, pending, written>>
    PROVE  Ledger'
  <1>1. /\ tries' = tries + 1 /\ attempt'.observed = seen /\ pc' \in {"backoff", "done"}
        /\ pc' = "backoff" => seen # "on"
        /\ cmd.name = "on" /\ pc' = "done" => tries + 1 >= POWER_ON_ATTEMPTS \/ seen = "on"
    <2>1. /\ tries' = tries + 1 /\ attempt'.observed = seen /\ pc' \in {"backoff", "done"}
      BY DEF EndAttempt, Finish, Pressed, Again
    <2>2. \/ /\ tries + 1 < POWER_ON_ATTEMPTS /\ Want = "on" /\ seen # "on"
             /\ pc' = "backoff"
          \/ /\ ~(tries + 1 < POWER_ON_ATTEMPTS) \/ Want # "on" \/ seen = "on"
             /\ pc' = "done"
      BY DEF EndAttempt, Finish, should_retry_power_on, Pressed, Again
    <2> QED
      BY <2>1, <2>2, Bounds DEF Want, TypeOK
  <1>2. CASE cmd.name = "on"
    <2>1. pc # "await" => seen = "on"
      BY <1>2 DEF Want
    <2>2. Len(written) = IF pc = "await" THEN tries + 1 ELSE tries
      BY <1>2 DEF Ledger
    <2>3. pc' = "backoff" => Len(written) = tries'
      BY <1>1, <2>1, <2>2
    <2>4. pc' = "done" => attempt'.observed = "on" \/ Len(written) >= POWER_ON_ATTEMPTS
      BY <1>1, <1>2, <2>1, <2>2
    <2>5. tv.power = "off" => Len(written) = tv.drops + Len(pending)
      BY <1>2 DEF Ledger
    <2> QED
      BY <1>1, <1>2, <2>3, <2>4, <2>5 DEF Ledger, Succeeded
  <1>3. CASE cmd.name # "on"
    BY <1>1, <1>3 DEF Ledger
  <1> QED
    BY <1>2, <1>3

\* Steps that neither press, nor end an attempt, nor touch the TV's queue.
LEMMA LedgerKept ==
    ASSUME Ledger, UNCHANGED <<cmd, written, pending, tries>>,
           pc # "done", pc' # "done" \/ ~Succeeded', pc = "await" <=> pc' = "await",
           tv'.drops = tv.drops, tv'.power \in {tv.power, "on"},
           pc' = "await" /\ pending # <<>> => timer' > 0 /\ deadline' > 0
    PROVE  Ledger'
  BY DEF Ledger, Succeeded

\* Every step keeps the account of the presses.
LEMMA LedgerStep ==
    ASSUME TypeOK, Books, Wire, Pipeline, Truth, Steady, Ledger, Polite, [Next]_vars
    PROVE  Ledger'
  <1> USE Bounds
  <1>0. /\ tv.drops \in Nat /\ MaxDrops \in Nat /\ ~SlowTV /\ ~Faults /\ MaxOutside = 0
        /\ cmd' = cmd /\ timer \in Nat /\ deadline \in Nat /\ tries \in Nat
        /\ Len(written) \in Nat /\ Len(pending) \in Nat
    BY CommandIsFixed, TVNumbers, EnvAssumption, LenProperties
       DEF Polite, Undisturbed, TypeOK
  <1>1. CASE OpenStore
    <2>1. UNCHANGED <<cmd, tv, pending, written>> /\ pc = "open"
      BY <1>1 DEF OpenStore, history
    <2>2. CASE cmd.store # "paired" /\ \E kind \in ErrorKind : Fail(kind)
      <3>1. tries = 0
        BY <1>0, <2>2 DEF Steady
      <3> QED
        BY <2>1, <2>2, <3>1, LedgerFail
    <2>3. CASE pc' = "connect" /\ UNCHANGED retry
      BY <2>1, <2>3, LedgerKept DEF retry
    <2> QED
      BY <1>1, <2>2, <2>3 DEF OpenStore, ErrorKind
  <1>2. CASE ConnectOk
    <2>1. /\ UNCHANGED <<cmd, pending, written, tries>> /\ pc = "connect" /\ pc' = "handshake"
      BY <1>2 DEF ConnectOk, history, retry
    <2>2. tv'.drops = tv.drops /\ tv'.power = tv.power
      BY <1>2 DEF ConnectOk, TypeOK, TV
    <2> QED
      BY <2>1, <2>2, LedgerKept
  <1>3. CASE ConnectFail
    <2>1. /\ pc = "connect" /\ UNCHANGED <<cmd, tv, pending, written>>
          /\ Fail("unreachable") /\ ~tv.up
      BY <1>0, <1>3 DEF ConnectFail, history
    <2>2. tries = 0
      BY <1>0, <2>1 DEF Steady
    <2> QED
      BY <2>1, <2>2, LedgerFail DEF ErrorKind
  <1>4. CASE HandshakeReadError \/ InjectFail
    <2>1. tries = 0
      BY <1>0, <1>4, NoFailure DEF Steady
    <2>2. /\ pc \in {"handshake", "pause"} /\ UNCHANGED <<cmd, tv, pending, written>>
          /\ \E kind \in ErrorKind : Fail(kind)
      BY <1>4 DEF HandshakeReadError, InjectFail, history, map_session_read_error, ErrorKind
    <2> QED
      BY <2>1, <2>2, LedgerFail
  <1>5. CASE HandshakeRead
    <2> DEFINE p == Handle(hs, Head(inbox)).hs.power
    <2>1. /\ pc = "handshake" /\ inbox # <<>> /\ UNCHANGED <<cmd, tv, pending, written>>
      BY <1>5 DEF HandshakeRead, history
    <2>2. tv.trusts
      BY <2>1 DEF Steady
    <2>3. ~Handle(hs, Head(inbox)).err /\ link # "closed"
      BY <2>1, <2>2, NoFailure
    <2> HIDE DEF p
    <2>4. CASE IsPower /\ p = Want /\ EndAttempt(FALSE, p)
      <3>1. pending = <<>>
        BY <1>0, <2>1 DEF Pipeline
      <3> QED
        BY <2>1, <2>4, <3>1, LedgerEnd
    <2>5. CASE cmd.name = "status" /\ pc' = "done"
      BY <2>1, <2>5 DEF Ledger
    <2>6. CASE pc' \in {"pause", "handshake"} /\ UNCHANGED retry
      BY <2>1, <2>6, LedgerKept DEF retry
    <2> QED
      BY <1>5, <2>1, <2>3, <2>4, <2>5, <2>6
         DEF HandshakeRead, Ready, Finish, needs_power_key, p
  <1>6. CASE InjectOk
    <2>1. /\ pc = "pause" /\ UNCHANGED <<cmd, tv, tries, inbox, link>>
          /\ written' = Append(written, NextInject)
          /\ pending' = IF link = "open" THEN Append(pending, NextInject) ELSE pending
          /\ pc' # "done"
          /\ pc' = "await" => timer' = CONFIRM_TIMEOUT /\ deadline' = CONFIRM_DEADLINE
          /\ IsPower => pc' = "await"
      BY <1>6 DEF InjectOk, StartAwait, NextKeyOrSettle, retry, conn
    <2>2. CASE cmd.name = "on"
      <3>1. pending = <<>> /\ NextInject = "POWER" /\ pc' = "await"
        BY <2>1, <2>2 DEF Ledger, NextInject, IsPower
      <3>2. link = "open"
        BY <2>1 DEF Wire, Steady, TypeOK
      <3>3. pending' = <<"POWER">> /\ Len(pending') = 1 /\ Len(pending) = 0
        BY <2>1, <3>1, <3>2
      <3>4. Len(written') = Len(written) + 1
        <4>1. NextInject \in Inject /\ written \in Seq(Inject)
          BY <3>1 DEF Inject, TypeOK
        <4> QED
          BY <2>1, <4>1, AppendProperties
      <3>5. Len(written') = tries' + 1
        BY <2>1, <2>2, <3>4 DEF Ledger
      <3>6. tv.power = "off" => Len(written') = tv.drops + Len(pending')
        BY <1>0, <2>2, <3>3, <3>4 DEF Ledger
      <3> QED
        BY <2>1, <2>2, <3>1, <3>3, <3>5, <3>6 DEF Ledger, Succeeded
    <2>3. CASE cmd.name # "on"
      BY <2>1, <2>3 DEF Ledger
    <2> QED
      BY <2>2, <2>3
  <1>7. CASE Settled
    <2>1. UNCHANGED <<cmd, tv>> /\ pc' = "done" /\ cmd.name # "on"
      BY <1>7 DEF Settled, Finish, Books, Phase, SendsKeys
    <2> QED
      BY <2>1 DEF Ledger
  <1>8. CASE AwaitRead
    <2> DEFINE m == Head(inbox)
               p == Handle(hs, m).hs.power
    <2>1. /\ pc = "await" /\ inbox # <<>> /\ UNCHANGED <<cmd, tv, pending, written>>
          /\ IsPower
      BY <1>8 DEF AwaitRead, Books, Phase, PastDeadline
    <2>2. p = Want => pending = <<>>
      <3>1. m \in RemoteMessage /\ hs \in HandshakeState
        BY <2>1, InboxType DEF TypeOK
      <3>2. p = IF Branch(m) = "remote_start" THEN m.started ELSE hs.power
        BY <3>1, HandlePower
      <3>3. Undisturbed
        BY DEF Polite
      <3>4. m.started = Want => tv.power = Want
        BY <2>1, <3>3, ReadElements DEF Truth, TypeOK
      <3>5. hs.power = Want => tv.power = Want
        BY <2>1, <3>3 DEF Truth
      <3>6. pending # <<>> => tv.power # Want
        BY <2>1, <3>3 DEF Truth
      <3> QED
        BY <3>2, <3>4, <3>5, <3>6
    <2> HIDE DEF p
    <2>3. CASE (p = Want \/ deadline = 0) /\ EndAttempt(TRUE, p)
      <3>1. pending = <<>>
        BY <1>0, <2>1, <2>2, <2>3 DEF Ledger
      <3> QED
        BY <2>1, <2>3, <3>1, LedgerEnd
    <2>4. CASE deadline # 0 /\ timer' = CONFIRM_TIMEOUT /\ UNCHANGED <<pc, retry, deadline>>
      <3>1. deadline > 0 /\ CONFIRM_TIMEOUT > 0
        BY <2>4, Bounds DEF TypeOK
      <3> QED
        BY <2>1, <2>4, <3>1, LedgerKept DEF retry
    <2> QED
      BY <1>8, <2>3, <2>4 DEF AwaitRead, p, PastDeadline
  <1>9. CASE AwaitReadError
    <2>1. /\ pc = "await" /\ UNCHANGED <<cmd, tv, pending, written>>
          /\ EndAttempt(TRUE, hs.power)
      BY <1>9 DEF AwaitReadError
    <2>2. tv.trusts
      BY <2>1 DEF Wire, Steady
    <2>3. timer = 0
      BY <1>9, <2>1, <2>2, NoFailure DEF AwaitReadError, ReadError
    <2>4. pending = <<>>
      BY <1>0, <2>1, <2>3 DEF Ledger
    <2> QED
      BY <2>1, <2>4, LedgerEnd
  <1>10. CASE Retry \/ WakeSent \/ WakeFail \/ PollOk \/ PollFail \/ PollAgain
    <2>1. /\ UNCHANGED <<cmd, tv, pending, written, tries>>
          /\ pc \notin {"await", "done"} /\ pc' # "await" /\ (pc' = "done" => ~Succeeded')
      BY <1>10 DEF Retry, WakeSent, WakeFail, PollOk, PollFail, PollAgain, retry, history,
                   NoOutput, Succeeded, PastDeadline
    <2> QED
      BY <2>1, LedgerKept
  <1>11. CASE TVStart \/ TVChat \/ Fragment \/ TVClose \/ TVWake
    <2>1. /\ UNCHANGED <<cmd, pc, pending, written, tries, out, attempt, deadline>>
          /\ timer' = timer \/ (pc = "await" => timer' = CONFIRM_TIMEOUT)
      BY <1>11 DEF TVStart, TVChat, Fragment, TVClose, TVWake, client, local, retry, history
    <2>2. tv'.drops = tv.drops /\ tv'.power \in {tv.power, "on"}
      BY <1>11 DEF TVStart, TVChat, Fragment, TVClose, TVWake, TypeOK, TV
    <2> QED
      BY <2>1, <2>2 DEF Ledger, Succeeded
  <1>12. CASE TVKey \/ TVDropKey
    <2>1. /\ UNCHANGED <<cmd, pc, timer, deadline, out, attempt, tries, written>>
          /\ pending # <<>> /\ pending' = Tail(pending)
      BY <1>12 DEF TVKey, TVDropKey, client, local, retry, history
    <2>2. CASE cmd.name = "on"
      <3>1. pc = "await" /\ pending = <<"POWER">>
        BY <2>1, <2>2 DEF Ledger
      <3>2. pending' = <<>> /\ Len(pending) = 1 /\ Len(pending') = 0
            /\ Head(pending) = "POWER"
        BY <2>1, <3>1
      <3>3. tv.up /\ tv.warm = 0
        BY <3>1 DEF Steady, Wire
      <3>4. CASE TVKey
        <4>1. tv' = [tv EXCEPT !.power = Flip(tv.power)]
          BY <3>2, <3>4 DEF TVKey
        <4>2. tv.power # "on"
          BY <2>1, <2>2 DEF Truth, Polite, IsPower, Want
        <4>3. tv'.power = "on" /\ tv'.drops = tv.drops
          BY <4>1, <4>2 DEF Flip, TypeOK, TV, Power
        <4> QED
          BY <2>1, <2>2, <3>1, <3>2, <4>3 DEF Ledger, Succeeded
      <3>5. CASE TVDropKey
        <4>1. tv.drops < MaxDrops /\ tv' = [tv EXCEPT !.drops = tv.drops + 1]
          BY <3>3, <3>5 DEF TVDropKey
        <4>2. tv'.drops = tv.drops + 1 /\ tv'.power = tv.power
          BY <4>1 DEF TypeOK, TV
        <4>3. tv'.drops <= MaxDrops
          <5>1. tv.drops \in Nat /\ MaxDrops \in Nat
            BY <1>0
          <5>2. tv.drops < MaxDrops /\ tv'.drops = tv.drops + 1
            BY <4>1, <4>2
          <5> QED
            BY <5>1, <5>2
        <4>4. tv.power = "off" => Len(written) = tv'.drops + Len(pending')
          BY <1>0, <2>2, <3>2, <4>2 DEF Ledger
        <4> QED
          BY <2>1, <2>2, <3>1, <3>2, <4>2, <4>3, <4>4 DEF Ledger, Succeeded
      <3> QED
        BY <1>12, <3>4, <3>5
    <2>3. CASE cmd.name # "on"
      <3>1. tv'.drops <= MaxDrops
        <4>1. CASE TVKey
          <5>1. tv'.drops = tv.drops
            BY <4>1 DEF TVKey, TypeOK, TV
          <5> QED
            BY <5>1 DEF Ledger
        <4>2. CASE TVDropKey
          <5>1. tv'.drops = tv.drops \/ (tv.drops < MaxDrops /\ tv'.drops = tv.drops + 1)
            BY <4>2 DEF TVDropKey, TypeOK, TV
          <5> QED
            BY <1>0, <5>1 DEF Ledger
        <4> QED
          BY <1>12, <4>1, <4>2
      <3> QED
        BY <2>1, <2>3, <3>1 DEF Ledger
    <2> QED
      BY <2>2, <2>3
  <1>13. ~TVOutside /\ ~TVSleep
    <2>1. tv.outside \in Nat /\ MaxOutside = 0
      BY <1>0, TVNumbers DEF TypeOK
    <2>2. ~(tv.outside < MaxOutside)
      BY <2>1
    <2> QED
      BY <1>0, <2>2 DEF TVOutside, TVSleep
  <1>14. CASE Tick
    <2>1. /\ UNCHANGED <<cmd, pc, pending, written, tries, out, attempt>> /\ pending = <<>>
      BY <1>0, <1>14 DEF Tick, retry
    <2>2. tv'.drops = tv.drops /\ tv'.power = tv.power
      BY <1>14 DEF Tick, TypeOK, TV
    <2> QED
      BY <2>1, <2>2 DEF Ledger, Succeeded
  <1>15. CASE UNCHANGED vars
    BY <1>15 DEF vars, client, local, retry, history, Ledger, Succeeded
  <1> QED
    BY <1>1, <1>2, <1>3, <1>4, <1>5, <1>6, <1>7, <1>8, <1>9, <1>10, <1>11, <1>12, <1>13,
       <1>14, <1>15 DEF Next, ClientStep, TVStep, Terminated

\* set_power: a TV that stays reachable, that nobody else uses and that ignores
\* fewer presses than on has attempts is on when on reports success, whatever
\* else it sends (as long as it is no error), for every choice of the delays.
THEOREM OnPersists ==
    ASSUME \A m \in Chat : ~Undecodable(m) /\ Branch(m) # "remote_error"
    PROVE  Spec => []PersistentOn
  <1> DEFINE Inv == PowerInv /\ (Polite => Steady /\ Ledger)
  <1>1. Inv => PersistentOn
    <2> SUFFICES ASSUME PowerInv, Polite, Steady, Ledger, MaxDrops < POWER_ON_ATTEMPTS,
                        Succeeded, cmd.name = "on", tv.power # "on"
                 PROVE  FALSE
      BY DEF PersistentOn, Polite
    <2>1. TypeOK /\ Truth
      BY DEF PowerInv, ClientInv
    <2>2. attempt.observed # "on"
      BY <2>1 DEF Truth, Polite, IsPower, Want
    <2>3. Len(written) >= POWER_ON_ATTEMPTS
      BY <2>2 DEF Ledger
    <2>4. pending = <<>> /\ tv.power = "off"
      BY <2>1 DEF Ledger, Succeeded, TypeOK, TV, Power
    <2>5. Len(written) = tv.drops /\ tv.drops <= MaxDrops
      <3>1. Len(pending) = 0 /\ tv.drops \in Nat
        BY <2>1, <2>4, TVNumbers DEF TypeOK
      <3>2. Len(written) = tv.drops + Len(pending) /\ tv.drops <= MaxDrops
        BY <2>4 DEF Ledger
      <3> QED
        BY <3>1, <3>2
    <2>6. tv.drops \in Nat /\ MaxDrops \in Nat
      BY <2>1, TVNumbers, EnvAssumption DEF TypeOK
    <2> QED
      BY <2>3, <2>5, <2>6, Bounds
  <1>2. Init => (Polite => Steady /\ Ledger)
    <2> SUFFICES ASSUME Init PROVE Steady /\ Ledger
      OBVIOUS
    <2>1. /\ pc = "open" /\ link = "down" /\ inbox = <<>> /\ tries = 0 /\ written = <<>>
          /\ pending = <<>> /\ tv.greeted = FALSE /\ tv.drops = 0
      BY DEF Init
    <2>2. Len(inbox) = 0 /\ Len(written) = 0 /\ Len(pending) = 0
      BY <2>1
    <2>3. MaxDrops >= 0
      BY EnvAssumption
    <2> QED
      BY <2>1, <2>2, <2>3 DEF Steady, Ledger, Succeeded
  <1>3. PowerInv /\ (Polite => Steady /\ Ledger) /\ [Next]_vars
            => (Polite => Steady /\ Ledger)'
    <2>1. Polite' = Polite
      BY DEF Polite, Undisturbed
    <2> QED
      BY <2>1, SteadyStep, LedgerStep DEF PowerInv, ClientInv
  <1> QED
    BY PowerInvariant, <1>1, <1>2, <1>3, PTL DEF Spec
================================================================================
