------------------------ MODULE SessionRefinementProofs ------------------------
(***************************************************************************)
(* Every step of a status, on or off is a step of PowerCommand or leaves   *)
(* it as it is.  The strengthening is PowerInv, and Definite: the guard of *)
(* an abstract press is what it says of a client in its pause, and the     *)
(* honesty of a report what it says of a client that is done.              *)
(***************************************************************************)
EXTENDS SessionRefinement, SessionPowerProofs

\* The commands that PowerCommand speaks of.
PowerOnly == \A c \in Commands : c.name \in {"status", "on", "off"}

NoKeys == cmd.name \in {"status", "on", "off"}

\* What PowerInv does not say of the attempts and of what main prints.
Definite ==
    /\ tries > 0 => attempt.resulting \in Power /\ (attempt.observed = Want \/ changed)
    /\ Succeeded /\ IsPower => tries > 0 /\ out.power \in Power
    /\ Succeeded /\ cmd.name = "status" => ~out.changed

\* Without key and launch among the commands, no run is one.
LEMMA NoKeysEver == PowerOnly /\ TypeOK => NoKeys
  BY DEF PowerOnly, TypeOK, NoKeys

\* The steps that neither press a key nor reach the TV's power.
LEMMA HiddenStep ==
  ASSUME TypeOK, Undisturbed,
         (ClientStep /\ ~InjectOk) \/ Fragment \/ TVStart \/ TVChat \/ TVClose
           \/ TVSleep \/ Tick \/ Terminated
  PROVE  cmd' = cmd /\ tv'.power = tv.power /\ written' = written /\ pending' = pending
  <1>0. tv \in TV
    BY DEF TypeOK
  <1>1. CASE ConnectOk
    BY <1>0, <1>1, ConnectTV DEF ConnectOk, history
  <1>2. CASE TVStart \/ TVChat \/ Tick
    BY <1>0, <1>2, StartTV, ChatTV, TickTV DEF TVStart, TVChat, Tick, history
  <1>3. CASE TVSleep
    BY <1>0, <1>3 DEF TVSleep, TV, history
  <1>4. CASE Terminated \/ Fragment \/ TVClose
    BY <1>4 DEF Terminated, Fragment, TVClose, vars, history
  <1>5. CASE ClientStep /\ ~InjectOk /\ ~ConnectOk
    BY <1>5
       DEF ClientStep, OpenStore, ConnectFail, HandshakeRead, HandshakeReadError,
           InjectFail, Settled, AwaitRead, AwaitReadError, Retry, WakeSent, WakeFail,
           PollOk, PollFail, PollAgain, history, PastDeadline
  <1> QED
    BY <1>1, <1>2, <1>3, <1>4, <1>5

\* Once the command is done nothing changes what it printed.
LEMMA ReportStays ==
  ASSUME Next, pc = "done"
  PROVE  ReportView' = ReportView /\ pc' = "done"
  <1>1. cmd' = cmd /\ pc' = pc /\ out' = out /\ attempt' = attempt
    BY DEF Next, ClientStep, OpenStore, ConnectOk, ConnectFail, HandshakeRead,
           HandshakeReadError, InjectFail, InjectOk, Settled, AwaitRead, AwaitReadError,
           Retry, WakeSent, WakeFail, PollOk, PollFail, PollAgain, TVStep, Fragment,
           TVStart, TVChat, TVClose, TVKey, TVDropKey, TVOutside, TVSleep, TVWake, Tick,
           Waiting, Terminated, vars, client, retry, PastDeadline
  <1> QED
    BY <1>1 DEF ReportView, Seen, Want

\* A failing attempt keeps Definite, whether its error is swallowed or not.
LEMMA FailDefinite ==
  ASSUME TypeOK, Definite, Phase, pc # "done", cmd' = cmd,
         NEW kind \in ErrorKind, Fail(kind)
  PROVE  Definite'
  <1>1. UNCHANGED <<tries, changed, attempt>> /\ tries \in Nat
    BY DEF Fail, retry, TypeOK
  <1>2. CASE tries > 0 /\ Finish(attempt.resulting, changed)
    <2>1. IsPower
      BY <1>1, <1>2 DEF Phase
    <2>2. out'.power = attempt.resulting
      BY <1>2 DEF Finish
    <2> QED
      BY <1>1, <1>2, <2>1, <2>2 DEF Definite, IsPower, Want
  <1>3. CASE ~(tries > 0 /\ Finish(attempt.resulting, changed))
    <2>1. ~Succeeded'
      BY <1>3 DEF Fail, Succeeded, ErrorKind, NoOutput
    <2> QED
      BY <1>1, <2>1 DEF Definite, Want
  <1> QED
    BY <1>2, <1>3

\* So does an attempt that returns: what it did not see it has pressed for.
LEMMA EndAttemptDefinite ==
  ASSUME TypeOK, IsPower, cmd' = cmd,
         NEW ch \in BOOLEAN, NEW seen \in PowerView, seen = Want \/ ch,
         EndAttempt(ch, seen)
  PROVE  Definite'
  <1>1. tries \in Nat /\ tries' > 0 /\ (changed' <=> changed \/ ch)
    BY DEF EndAttempt, TypeOK, Pressed, Again
  <1>2. Want \in Power
    BY DEF Want, Power
  <1>3. attempt'.resulting \in Power /\ attempt'.observed = seen
    BY <1>2 DEF EndAttempt, PowerView, Pressed, Again
  <1>4. Succeeded' => out'.power \in Power
    BY <1>2 DEF EndAttempt, PowerView, Succeeded, Finish, Pressed, Again
  <1> QED
    BY <1>1, <1>3, <1>4 DEF Definite, IsPower, Want

\* Definite is inductive, next to the type invariant and Phase.
LEMMA DefiniteStep ==
  ASSUME TypeOK, Phase, Definite, Next
  PROVE  Definite'
  <1> DEFINE Printed == <<cmd, tries, changed, attempt>>
  <1>0. hs \in HandshakeState /\ tries \in Nat
    BY DEF TypeOK
  <1>1. CASE UNCHANGED Printed /\ UNCHANGED <<pc, out>>
    BY <1>1 DEF Definite, Succeeded, IsPower, Want
  <1>2. CASE UNCHANGED Printed /\ ~Succeeded'
    BY <1>2 DEF Definite, Want
  <1>3. CASE OpenStore \/ ConnectFail
    <2>1. pc # "done" /\ cmd' = cmd
      BY <1>3 DEF OpenStore, ConnectFail
    <2>2. CASE \E kind \in ErrorKind : Fail(kind)
      BY <2>1, <2>2, FailDefinite
    <2>3. CASE ~\E kind \in ErrorKind : Fail(kind)
      BY <1>2, <1>3, <2>3 DEF OpenStore, ConnectFail, ErrorKind, Succeeded, retry
    <2> QED
      BY <2>2, <2>3
  <1>4. CASE HandshakeReadError \/ InjectFail
    <2>1. pc # "done" /\ cmd' = cmd /\ \E kind \in ErrorKind : Fail(kind)
      BY <1>4 DEF HandshakeReadError, InjectFail, ErrorKind, map_session_read_error
    <2> QED
      BY <2>1, FailDefinite
  <1>5. CASE HandshakeRead
    <2> DEFINE r == Handle(hs, Head(inbox))
    <2>1. inbox \in Seq(RemoteMessage) /\ inbox # <<>> /\ pc = "handshake" /\ cmd' = cmd
      BY <1>5 DEF HandshakeRead, TypeOK
    <2>2. r.hs.power \in PowerView
      <3>1. Head(inbox) \in RemoteMessage
        BY <2>1, InboxType
      <3> QED
        BY <1>0, <3>1, HandleType DEF HandshakeState
    <2>3. CASE Fail("protocol_error")
      BY <2>1, <2>3, FailDefinite DEF ErrorKind
    <2>4. CASE Ready(r.hs.power) /\ r.hs.power # "unknown"
      <3>1. CASE cmd.name = "status" /\ Finish(r.hs.power, FALSE) /\ UNCHANGED retry
        BY <1>0, <2>1, <3>1 DEF Definite, Finish, retry, Phase, IsPower, Want
      <3>2. CASE IsPower /\ EndAttempt(FALSE, r.hs.power)
                   /\ ~needs_power_key(r.hs.power, Want)
        BY <2>1, <2>2, <3>2, EndAttemptDefinite DEF needs_power_key
      <3>3. CASE pc' = "pause" /\ UNCHANGED retry
        BY <1>2, <2>1, <3>3 DEF Succeeded, retry
      <3> QED
        BY <2>4, <3>1, <3>2, <3>3 DEF Ready
    <2>5. CASE UNCHANGED <<pc, out, retry>>
      BY <1>1, <2>1, <2>5 DEF retry
    <2> QED
      BY <1>5, <2>3, <2>4, <2>5 DEF HandshakeRead
  <1>6. CASE AwaitRead
    <2> DEFINE r == Handle(hs, Head(inbox))
    <2>1. inbox \in Seq(RemoteMessage) /\ inbox # <<>> /\ pc = "await" /\ cmd' = cmd
      BY <1>6 DEF AwaitRead, TypeOK, PastDeadline
    <2>2. r.hs.power \in PowerView
      <3>1. Head(inbox) \in RemoteMessage
        BY <2>1, InboxType
      <3> QED
        BY <1>0, <3>1, HandleType DEF HandshakeState
    <2>3. CASE EndAttempt(TRUE, r.hs.power)
      BY <2>1, <2>2, <2>3, EndAttemptDefinite DEF Phase
    <2>4. CASE UNCHANGED <<pc, out, retry>>
      BY <1>1, <2>1, <2>4 DEF retry
    <2> QED
      BY <1>6, <2>3, <2>4 DEF AwaitRead, PastDeadline
  <1>7. CASE AwaitReadError
    BY <1>0, <1>7, EndAttemptDefinite DEF AwaitReadError, Phase, HandshakeState
  <1>8. CASE Settled
    <2>1. UNCHANGED Printed /\ ~IsPower /\ cmd.name # "status"
      BY <1>8 DEF Settled, Phase, SendsKeys, IsPower, retry
    <2> QED
      BY <2>1 DEF Definite, IsPower, Want
  <1>9. CASE ConnectOk \/ InjectOk \/ Retry \/ WakeSent \/ WakeFail \/ PollOk
               \/ PollFail \/ PollAgain
    <2>1. UNCHANGED Printed /\ ~Succeeded'
      BY <1>9 DEF ConnectOk, InjectOk, StartAwait, NextKeyOrSettle, Retry, WakeSent,
                  WakeFail, PollOk, PollFail, PollAgain, Succeeded, retry, NoOutput, Phase, PastDeadline
    <2> QED
      BY <1>2, <2>1
  <1>10. CASE TVStep \/ Tick \/ Terminated
    <2>1. UNCHANGED Printed /\ UNCHANGED <<pc, out>>
      BY <1>10 DEF TVStep, Fragment, TVStart, TVChat, TVClose, TVKey, TVDropKey,
                   TVOutside, TVSleep, TVWake, Tick, Terminated, vars, client, retry
    <2> QED
      BY <1>1, <2>1
  <1> QED
    BY <1>3, <1>4, <1>5, <1>6, <1>7, <1>8, <1>9, <1>10 DEF Next, ClientStep

\* What main prints, against what was pressed and what the TV is.
Honest ==
  \/ Len(written) = 0 /\ ReportView = Promise!Failure
  \/ \E p \in Power, seen \in BOOLEAN :
         /\ seen => p = tv.power /\ (cmd.name \in Power => p = cmd.name)
         /\ ~seen => Len(written) > 0
         /\ ReportView = Promise!Success(p, Len(written) > 0, seen)

ReadyToReport == PowerInv /\ Definite /\ Undisturbed /\ NoKeys /\ pc = "done"

\* What main prints is a report the abstract command may make.
LEMMA HonestReport == ReadyToReport => Honest
  <1> SUFFICES ASSUME PowerInv, Definite, Undisturbed, NoKeys, pc = "done"
               PROVE  Honest
    BY DEF ReadyToReport
  <1> DEFINE presses == Len(written)
  <1> USE DEF NoKeys
  <1>0. TypeOK
    BY DEF PowerInv, ClientInv
  <1>1. written \in Seq(Inject) /\ presses \in Nat /\ (presses > 0 <=> written # <<>>)
    <2>1. written \in Seq(Inject)
      BY <1>0 DEF TypeOK
    <2> QED
      BY <2>1, EmptySeq, LenProperties
  <1>2. CASE out.kind # "ok"
    <2>1. written = <<>>
      BY <1>2 DEF PowerInv, ClientInv, Books, Presses, IsPower
    <2>2. ReportView = Promise!Failure
      BY <1>2 DEF ReportView, Promise!Failure
    <2> QED
      BY <1>1, <2>1, <2>2 DEF Honest
  <1>3. CASE out.kind = "ok"
    <2>1. ReportView = Promise!Success(out.power, out.changed, Seen)
      BY <1>3 DEF ReportView, Promise!Success
    <2>2. CASE cmd.name = "status"
      <3>1. written = <<>> /\ ~out.changed /\ out.power = tv.power
        BY <1>3, <2>2 DEF PowerInv, ClientInv, Books, Presses, Truth, Succeeded, Definite
      <3>2. Seen /\ tv.power \in Power /\ cmd.name \notin Power
        BY <1>0, <2>2 DEF Seen, TypeOK, TV, Power
      <3>3. out.changed = (presses > 0)
        BY <1>0, <1>1, <3>1 DEF TypeOK, Output
      <3> QED
        BY <2>1, <3>1, <3>2, <3>3 DEF Honest
    <2>3. CASE IsPower
      <3>1. tries > 0 /\ out.power \in Power /\ (attempt.observed = Want \/ changed)
        BY <1>3, <2>3 DEF Definite, Succeeded
      <3>2. out.changed = changed /\ (changed <=> written # <<>>)
        BY <1>3, <2>3 DEF PowerInv, ClientInv, Books, Presses
      <3>3. out.changed = (presses > 0)
        BY <1>0, <1>1, <3>2 DEF TypeOK, Output
      <3>4. Seen <=> attempt.observed = Want
        BY <2>3 DEF Seen, IsPower
      <3>5. Seen => out.power = Want /\ tv.power = Want
        BY <1>3, <2>3, <3>4 DEF PowerInv, Truth, Succeeded
      <3>6. cmd.name = Want
        BY <2>3 DEF IsPower, Want
      <3>7. ~Seen => presses > 0
        BY <1>1, <3>1, <3>2, <3>4
      <3>8. Seen \in BOOLEAN
        BY DEF Seen
      <3> QED
        BY <2>1, <3>1, <3>3, <3>5, <3>6, <3>7, <3>8 DEF Honest
    <2> QED
      BY <2>2, <2>3 DEF IsPower
  <1> QED
    BY <1>2, <1>3

\* A step of the command, of the TV or of the clock is a step of the abstract
\* command or a stutter.
LEMMA StepSimulation ==
  ASSUME PowerInv, Definite, PowerInv', Definite', NoKeys, NoKeys', Undisturbed, Next
  PROVE  [Promise!Next]_(Promise!vars)
  <1> DEFINE Fixed == cmd' = cmd /\ Len(written)' = Len(written)
                      /\ (pending # <<>>)' = (pending # <<>>)
  <1>0. TypeOK /\ tv \in TV /\ tv.power \in Power /\ written \in Seq(Inject)
        /\ pending \in Seq(Inject) /\ Len(written) \in Nat
    BY LenProperties DEF PowerInv, ClientInv, TypeOK, TV
  <1>4. CASE TVKey \/ TVDropKey
    <2>1. pending # <<>> /\ pending' = Tail(pending)
          /\ UNCHANGED <<cmd, pc, out, attempt, written>>
      BY <1>4 DEF TVKey, TVDropKey, client, retry, history
    <2>2. ReportView' = ReportView
      BY <2>1 DEF ReportView, Seen, Want
    <2>3. IsPower /\ Len(pending) = 1
      BY <2>1 DEF NoKeys, IsPower, PowerInv, Truth
    <2>4. pending' = <<>>
      BY <1>0, <2>1, <2>3
    <2>5. tv'.power \in {tv.power, Promise!Flip(tv.power)}
      BY <1>0, <1>4 DEF TVKey, TVDropKey, Flip, Promise!Flip, TV
    <2>6. Promise!Act
      BY <2>1, <2>2, <2>4, <2>5 DEF Promise!Act
    <2> QED
      BY <2>6 DEF Promise!Next
  <1>1. CASE pc = "done" /\ ~TVKey /\ ~TVDropKey
    <2>1. UNCHANGED <<cmd, written, pending>> /\ tv'.power = tv.power
      <3>1. ~ClientStep
        BY <1>1 DEF ClientStep, OpenStore, ConnectOk, ConnectFail, HandshakeRead,
           HandshakeReadError, InjectFail, InjectOk, Settled, AwaitRead, AwaitReadError,
           Retry, WakeSent, WakeFail, PollOk, PollFail, PollAgain, PastDeadline
      <3>2. ~TVOutside /\ ~TVWake
        BY <1>1 DEF TVOutside, TVWake
      <3> QED
        BY <1>0, <1>1, <3>1, <3>2, HiddenStep DEF Next, TVStep
    <2> QED
      BY <1>1, <2>1, ReportStays DEF Promise!vars
  <1>2. CASE pc # "done" /\ pc' = "done"
    <2>1. ~InjectOk /\ ~TVKey /\ ~TVDropKey /\ ~TVOutside /\ ~TVWake
      BY <1>2 DEF InjectOk, StartAwait, NextKeyOrSettle, TVKey, TVDropKey, TVOutside,
                  TVWake, client
    <2>2. UNCHANGED <<cmd, written, pending>> /\ tv'.power = tv.power
      BY <1>0, <2>1, HiddenStep DEF Next, TVStep
    <2>3. ReportView = Promise!NoReport
      BY <1>2 DEF ReportView, Promise!NoReport
    <2>4. Honest'
      <3>1. ReadyToReport' => Honest'
        BY HonestReport, PTL
      <3>2. pc' = "done" /\ Undisturbed'
        BY <1>2 DEF Undisturbed
      <3>3. ReadyToReport'
        BY <3>2 DEF ReadyToReport
      <3> QED
        BY <3>1, <3>3
    <2>5. \/ Len(written) = 0 /\ ReportView' = Promise!Failure
          \/ \E p \in Power, seen \in BOOLEAN :
                /\ seen => p = tv.power /\ (cmd.name \in Power => p = cmd.name)
                /\ ~seen => Len(written) > 0
                /\ ReportView' = Promise!Success(p, Len(written) > 0, seen)
      <3> USE <2>2, <2>4
      <3>1. Len(written)' = Len(written) /\ cmd' = cmd /\ tv'.power = tv.power
        OBVIOUS
      <3> QED
        BY <3>1 DEF Honest
    <2>6. Promise!Report
      BY <2>2, <2>3, <2>5 DEF Promise!Report, Promise!Power, Power
    <2> QED
      BY <2>6 DEF Promise!Next
  <1>3. CASE pc # "done" /\ pc' # "done"
    <2>1. ReportView = Promise!NoReport /\ ReportView' = Promise!NoReport
      BY <1>3 DEF ReportView, Promise!NoReport
    <2>2. CASE InjectOk
      <3>1. pc = "pause" /\ cmd.name \in {"on", "off"} /\ IsPower /\ cmd.name = Want
        BY <2>2 DEF InjectOk, NoKeys, PowerInv, ClientInv, Books, Phase, IsPower, Want
      <3>2. tv.power # cmd.name
        BY <3>1 DEF PowerInv, Truth
      <3>3. pending = <<>>
        BY <3>1 DEF PowerInv, Pipeline, Undisturbed, SendsKeys, IsPower
      <3>4. UNCHANGED <<cmd, tv>> /\ written' = Append(written, NextInject)
        BY <2>2 DEF InjectOk
      <3>5. Len(written)' = Len(written) + 1
        <4>1. NextInject \in Inject
          BY <3>1 DEF NextInject, Inject
        <4> QED
          BY <1>0, <3>4, <4>1, AppendProperties
      <3>6. Len(written) < IF cmd.name = "on" THEN POWER_ON_ATTEMPTS ELSE 1
        <4>1. Len(written) <= tries /\ tries \in Nat /\ POWER_ON_ATTEMPTS \in Nat \ {0}
          BY <3>1, Bounds DEF PowerInv, ClientInv, TypeOK, Books, Presses
        <4>2. IF cmd.name = "on" THEN tries < POWER_ON_ATTEMPTS ELSE tries = 0
          BY <3>1, <4>1 DEF PowerInv, ClientInv, Books, Phase
        <4> QED
          BY <1>0, <4>1, <4>2
      <3>7. (pending # <<>>)' \in BOOLEAN
        OBVIOUS
      <3>8. Promise!Press
        BY <2>1, <3>1, <3>2, <3>3, <3>4, <3>5, <3>6, <3>7
           DEF Promise!Press, Promise!Power, Promise!Budget
      <3> QED
        BY <3>8 DEF Promise!Next
    <2>3. CASE TVWake
      <3>1. cmd.name = "on" /\ tries = 0 /\ pc \in {"poll", "pollpause"}
        BY <2>3 DEF TVWake, PowerInv, ClientInv, Books, Phase
      <3>2. Len(written) <= tries
        BY <3>1 DEF PowerInv, ClientInv, Books, Presses, IsPower
      <3>3. Len(written) = 0
        BY <1>0, <3>1, <3>2
      <3>4. UNCHANGED <<cmd, written, pending>> /\ tv'.power \in {tv.power, "on"}
        BY <1>0, <2>3 DEF TVWake, history, TV
      <3>5. Promise!Wake
        BY <2>1, <3>1, <3>3, <3>4 DEF Promise!Wake
      <3> QED
        BY <3>5 DEF Promise!Next
    <2>4. CASE ~InjectOk /\ ~TVKey /\ ~TVDropKey /\ ~TVWake
      <3>1. ~TVOutside
        BY <1>0 DEF TVOutside, Undisturbed, TV
      <3>2. UNCHANGED <<cmd, written, pending>> /\ tv'.power = tv.power
        BY <1>0, <2>4, <3>1, HiddenStep DEF Next, TVStep
      <3> QED
        BY <2>1, <3>2 DEF Promise!vars
    <2>5. CASE TVKey \/ TVDropKey
      BY <1>4, <2>5
    <2> QED
      BY <2>2, <2>3, <2>4, <2>5
  <1> QED
    BY <1>1, <1>2, <1>3, <1>4

\* The initial states map to initial states.
LEMMA InitSimulation == Init /\ NoKeys => Promise!Init /\ Definite
  <1> SUFFICES ASSUME Init, NoKeys
               PROVE  Promise!Init /\ Definite
    OBVIOUS
  <1>1. pc = "open" /\ written = <<>> /\ pending = <<>> /\ tries = 0 /\ tv.power \in Power
    BY DEF Init
  <1>2. ReportView = Promise!NoReport /\ Len(written) = 0 /\ ~(pending # <<>>)
    BY <1>1 DEF ReportView, Promise!NoReport
  <1>3. Promise!Init
    BY <1>1, <1>2 DEF Promise!Init, Promise!Power, Power, NoKeys
  <1> QED
    BY <1>1, <1>3 DEF Definite, Succeeded

\* status, on and off implement PowerCommand, for every network, TV and set of
\* durations, as long as nobody else uses the TV and it acts on a key in time.
THEOREM CommandsKeepTheirPromise ==
  ASSUME PowerOnly, Undisturbed
  PROVE  Spec => KeepsPromise
  <1> DEFINE IInv == PowerInv /\ Definite
  <1>1. TypeOK => NoKeys
    BY NoKeysEver
  <1>2. Init => Promise!Init /\ Definite
    <2>1. Init => NoKeys
      BY DEF Init, NoKeys, PowerOnly
    <2> QED
      BY <2>1, InitSimulation
  <1>3. PowerInv /\ Definite /\ [Next]_vars => Definite'
    <2> SUFFICES ASSUME PowerInv, Definite, [Next]_vars
                 PROVE  Definite'
      OBVIOUS
    <2>1. CASE Next
      BY <2>1, DefiniteStep DEF PowerInv, ClientInv, Books
    <2>2. CASE UNCHANGED vars
      BY <2>2 DEF vars, client, retry, Definite, Succeeded, IsPower, Want
    <2> QED
      BY <2>1, <2>2
  <1>4. PowerInv /\ Definite /\ PowerInv' /\ Definite' /\ [Next]_vars
          => [Promise!Next]_(Promise!vars)
    <2> SUFFICES ASSUME PowerInv, Definite, PowerInv', Definite', [Next]_vars
                 PROVE  [Promise!Next]_(Promise!vars)
      OBVIOUS
    <2>1. NoKeys /\ NoKeys'
      <3>1. TypeOK' => NoKeys'
        BY <1>1, PTL
      <3> QED
        BY <1>1, <3>1 DEF PowerInv, ClientInv
    <2>2. CASE Next
      BY <2>1, <2>2, StepSimulation
    <2>3. CASE UNCHANGED vars
      BY <2>3 DEF vars, client, retry, history, ReportView, Seen, Want, Promise!vars
    <2> QED
      BY <2>2, <2>3
  <1> QED
    BY PowerInvariant, <1>2, <1>3, <1>4, PTL DEF Spec, KeepsPromise, Promise!Spec
==============================================================================
