---------------------------- MODULE DiscoveryProofs ----------------------------
(***************************************************************************)
(* Theorems about Discovery: for any names, addresses and ports, any       *)
(* timeout, and any number of answers.                                     *)
(***************************************************************************)
EXTENDS Discovery, SequenceTheorems, TLAPS

\* What waits in the channel has come this very second, as the loop takes events
\* before it lets time pass; when the list is complete, whatever waits or still
\* comes is too late.
Waiting ==
    /\ pc = "done" <=> result # "none"
    /\ pc = "recv" => until = deadline
    /\ pc # "done" => now <= deadline /\ \A i \in (taken + 1)..Len(events) : events[i].at = now
    /\ result = "ok" =>
           /\ now >= deadline \/ ~alive
           /\ \A i \in (taken + 1)..Len(events) : events[i].at >= deadline

\* What was received is listed.
Listed ==
    \A i \in 1..taken :
        events[i].event.kind = "resolved" /\ events[i].event.addresses # {}
            => \E endpoint \in DOMAIN devices : Tells(i, endpoint)

DiscoveryInv == TypeOK /\ Waiting /\ Listed /\ LatestName

----------------------------------------------------------------------------
LEMMA InitInv == Init => DiscoveryInv
  <1> SUFFICES ASSUME Init PROVE DiscoveryInv
    OBVIOUS
  <1>1. /\ now = 0 /\ events = <<>> /\ alive = TRUE /\ timeout \in 0..MaxTimeout
        /\ pc = "start" /\ taken = 0 /\ until = 0 /\ devices = <<>> /\ result = "none"
    BY DEF Init
  <1>2. Len(<<>>) = 0 /\ DOMAIN <<>> = {} /\ <<>> \in Seq([at : Nat, event : Event])
    OBVIOUS
  <1>3. TypeOK
    <2>1. DOMAIN devices = {}
      BY <1>1, <1>2
    <2> QED
      BY <1>1, <1>2, <2>1, DiscoveryAssumption DEF TypeOK
  <1>4. Waiting
    BY <1>1, <1>2, DiscoveryAssumption DEF Waiting, deadline
  <1>5. Listed /\ LatestName
    BY <1>1, <1>2 DEF Listed, LatestName
  <1> QED
    BY <1>3, <1>4, <1>5 DEF DiscoveryInv

\* The parts of the type invariant that the steps use.
LEMMA Facts ==
  ASSUME TypeOK
  PROVE  /\ now \in Nat /\ timeout \in Nat /\ Len(events) \in Nat /\ taken \in Nat
         /\ taken <= Len(events) /\ MaxTime \in Nat /\ until \in Nat
         /\ \A i \in 1..Len(events) :
               events[i] \in [at : Nat, event : Event] /\ events[i].at \in Nat
  <1>1. events \in Seq([at : Nat, event : Event]) /\ taken \in 0..Len(events)
    BY DEF TypeOK
  <1>2. Len(events) \in Nat /\ \A i \in 1..Len(events) : events[i] \in [at : Nat, event : Event]
    BY <1>1, LenProperties, ElementOfSeq
  <1>3. \A i \in 1..Len(events) : events[i].at \in Nat
    BY <1>2
  <1>4. now \in Nat /\ timeout \in Nat /\ MaxTime \in Nat /\ until \in Nat
    BY DiscoveryAssumption DEF TypeOK
  <1> QED
    BY <1>1, <1>2, <1>3, <1>4

\* The daemon queues another event.
LEMMA ArriveStep ==
  ASSUME DiscoveryInv, Arrive
  PROVE  DiscoveryInv'
  <1> DEFINE n == Len(events)
  <1>1. TypeOK /\ Waiting /\ Listed /\ LatestName
    BY DEF DiscoveryInv
  <1>2. PICK event \in Event : events' = Append(events, [at |-> now, event |-> event])
    BY DEF Arrive
  <1>3. alive /\ UNCHANGED <<now, alive, timeout, pc, taken, until, devices, result>>
    BY DEF Arrive
  <1>4. events \in Seq([at : Nat, event : Event]) /\ [at |-> now, event |-> event] \in [at : Nat, event : Event]
    BY <1>1, Facts DEF TypeOK
  <1>5. /\ Len(events') = n + 1 /\ events'[n + 1].at = now
        /\ events' \in Seq([at : Nat, event : Event])
        /\ \A i \in 1..n : events'[i] = events[i]
    BY <1>2, <1>4, AppendProperties
  <1>6. n \in Nat /\ taken \in Nat /\ taken <= n /\ now \in Nat /\ timeout \in Nat
    BY <1>1, Facts
  <1>7. TypeOK'
    <2>1. taken \in 0..Len(events')
      BY <1>5, <1>6
    <2> QED
      BY <1>1, <1>3, <1>5, <2>1, Zenon DEF TypeOK
  <1>8. Waiting'
    <2>1. \A i \in (taken + 1)..(n + 1) : i = n + 1 \/ (i \in (taken + 1)..n /\ i \in 1..n)
      BY <1>6
    <2>2. ASSUME pc # "done", NEW i \in (taken + 1)..(n + 1) PROVE events'[i].at = now
      BY <1>1, <1>5, <2>1, <2>2 DEF Waiting
    <2>3. ASSUME result = "ok", NEW i \in (taken + 1)..(n + 1) PROVE events'[i].at >= deadline
      <3>1. now >= deadline
        BY <1>1, <1>3, <2>3 DEF Waiting
      <3> QED
        BY <1>1, <1>5, <2>1, <2>3, <3>1 DEF Waiting
    <2> QED
      BY <1>1, <1>3, <1>5, <2>2, <2>3 DEF Waiting, deadline
  <1>9. \A i \in 1..taken : events'[i] = events[i]
    BY <1>5, <1>6
  <1>10. Listed'
    <2> SUFFICES ASSUME NEW i \in 1..taken, events[i].event.kind = "resolved",
                        events[i].event.addresses # {}
                 PROVE  \E endpoint \in DOMAIN devices : Tells(i, endpoint)'
      BY <1>3, <1>9, Zenon DEF Listed
    <2>1. PICK endpoint \in DOMAIN devices : Tells(i, endpoint)
      BY <1>1, Zenon DEF Listed
    <2>2. Tells(i, endpoint)'
      BY <1>9, <2>1, Zenon DEF Tells
    <2> QED
      BY <2>2
  <1>11. LatestName'
    <2> SUFFICES ASSUME NEW endpoint \in DOMAIN devices
                 PROVE  \E i \in 1..taken :
                          /\ Tells(i, endpoint)' /\ devices[endpoint] = events'[i].event.name
                          /\ \A j \in (i + 1)..taken : ~TellsOnly(j, endpoint)'
      BY <1>3, Zenon DEF LatestName
    <2>1. PICK i \in 1..taken :
             /\ Tells(i, endpoint) /\ devices[endpoint] = events[i].event.name
             /\ \A j \in (i + 1)..taken : ~TellsOnly(j, endpoint)
      BY <1>1, Zenon DEF LatestName
    <2>2. Tells(i, endpoint)' /\ devices[endpoint] = events'[i].event.name
      BY <1>9, <2>1, Zenon DEF Tells
    <2>3. ASSUME NEW j \in (i + 1)..taken PROVE ~TellsOnly(j, endpoint)'
      <3>1. j \in 1..taken
        BY <1>6
      <3>2. ~TellsOnly(j, endpoint)
        BY <2>1
      <3> QED
        BY <1>9, <3>1, <3>2, Zenon DEF TellsOnly, Tells
    <2> QED
      BY <2>2, <2>3
  <1> QED
    BY <1>7, <1>8, <1>10, <1>11 DEF DiscoveryInv

\* The address that is listed is one that may be.
LEMMA PreferredIsTold ==
  ASSUME NEW i, events[i].event \in Event, events[i].event.kind = "resolved",
         NEW address \in Preferred(events[i].event.addresses)
  PROVE  /\ <<address, events[i].event.port>> \in Endpoint
         /\ Tells(i, <<address, events[i].event.port>>)
         /\ events[i].event.name \in Name
  <1> DEFINE event == events[i].event
  <1>1. event \in [kind : {"resolved"}, name : Name, addresses : SUBSET Address, port : Port]
    BY DEF Event
  <1>2. address \in event.addresses /\ address \in Address
        /\ (address \in V6 => event.addresses \cap V4 = {})
    BY <1>1, DiscoveryAssumption DEF Preferred
  <1> QED
    BY <1>1, <1>2 DEF Endpoint, Tells

\* The loop takes an event.
LEMMA ReceiveStep ==
  ASSUME DiscoveryInv, Receive
  PROVE  DiscoveryInv'
  <1> DEFINE k     == taken + 1
             event == events[k].event
             endpoint(a) == <<a, event.port>>
  <1>1. TypeOK /\ Waiting /\ Listed /\ LatestName
    BY DEF DiscoveryInv
  <1>2. /\ pc = "recv" /\ taken < Len(events) /\ taken' = k /\ Handle(event)
        /\ UNCHANGED <<now, events, alive, timeout, until>>
    BY DEF Receive
  <1>3. /\ taken \in Nat /\ Len(events) \in Nat /\ k \in 1..Len(events) /\ k \in Nat
        /\ now \in Nat /\ timeout \in Nat
    BY <1>1, <1>2, Facts
  <1>4. event \in Event
    BY <1>1, <1>3, Facts
  <1>5. pc' = "loop" /\ result' = result /\ result = "none"
    BY <1>1, <1>2 DEF Handle, Waiting
  <1>6. \/ /\ devices' = devices
           /\ event.kind = "resolved" => event.addresses = {}
        \/ /\ event.kind = "resolved"
           /\ \E a \in Preferred(event.addresses) : Insert(endpoint(a), event.name)
    BY <1>2 DEF Handle
  <1>7. \A i \in 1..k : i \in 1..taken \/ i = k
    BY <1>3
  <1>8. Waiting'
    <2>1. \A i \in (k + 1)..Len(events) : i \in (taken + 1)..Len(events)
      BY <1>3
    <2>2. now <= deadline /\ \A i \in (k + 1)..Len(events) : events[i].at = now
      BY <1>1, <1>2, <2>1 DEF Waiting
    <2> QED
      BY <1>2, <1>5, <2>2 DEF Waiting, deadline
  <1>9. CASE devices' = devices /\ (event.kind = "resolved" => event.addresses = {})
    <2>1. \A e : ~Tells(k, e)
      BY <1>9 DEF Tells
    <2>2. TypeOK'
      <3>1. taken' \in 0..Len(events')
        BY <1>2, <1>3
      <3> QED
        BY <1>1, <1>2, <1>5, <1>9, <3>1 DEF TypeOK
    <2>3. Listed'
      BY <1>1, <1>2, <1>7, <1>9, Zenon DEF Listed, Tells
    <2>4. LatestName'
      <3> SUFFICES ASSUME NEW e \in DOMAIN devices'
                   PROVE  \E i \in 1..k :
                            /\ Tells(i, e) /\ devices'[e] = events[i].event.name
                            /\ \A j \in (i + 1)..k : ~TellsOnly(j, e)
        BY <1>2, ZenonT(90) DEF LatestName, TellsOnly, Tells
      <3>1. PICK i \in 1..taken :
               /\ Tells(i, e) /\ devices[e] = events[i].event.name
               /\ \A j \in (i + 1)..taken : ~TellsOnly(j, e)
        BY <1>1, <1>9, Zenon DEF LatestName
      <3>2. i \in 1..k /\ \A j \in (i + 1)..k : j \in (i + 1)..taken \/ j = k
        BY <1>3
      <3>3. ~TellsOnly(k, e)
        BY <2>1 DEF TellsOnly
      <3> QED
        BY <1>9, <3>1, <3>2, <3>3
    <2> QED
      BY <1>8, <2>2, <2>3, <2>4 DEF DiscoveryInv
  <1>10. ASSUME event.kind = "resolved",
                NEW a \in Preferred(event.addresses), Insert(endpoint(a), event.name)
         PROVE  DiscoveryInv'
    <2> DEFINE new == endpoint(a)
    <2>1. new \in Endpoint /\ Tells(k, new) /\ event.name \in Name
      BY <1>4, <1>10, PreferredIsTold
    <2> HIDE DEF endpoint
    <2>2. /\ DOMAIN devices' = DOMAIN devices \cup {new}
          /\ devices'[new] = event.name
          /\ \A e \in DOMAIN devices : e # new => devices'[e] = devices[e]
      BY <1>10 DEF Insert
    <2>3. TypeOK'
      <3>1. taken' \in 0..Len(events')
        BY <1>2, <1>3
      <3>2. DOMAIN devices' \subseteq Endpoint /\ \A e \in DOMAIN devices' : devices'[e] \in Name
        BY <1>1, <2>1, <2>2 DEF TypeOK
      <3> QED
        BY <1>1, <1>2, <1>5, <3>1, <3>2 DEF TypeOK
    <2>4. Listed'
      <3> SUFFICES ASSUME NEW i \in 1..k, events[i].event.kind = "resolved",
                          events[i].event.addresses # {}
                   PROVE  \E e \in DOMAIN devices' : Tells(i, e)
        BY <1>2, Zenon DEF Listed, Tells
      <3>1. CASE i = k
        BY <2>1, <2>2, <3>1
      <3>2. CASE i \in 1..taken
        BY <1>1, <2>2, <3>2 DEF Listed
      <3> QED
        BY <1>7, <3>1, <3>2
    <2>5. LatestName'
      <3> SUFFICES ASSUME NEW e \in DOMAIN devices'
                   PROVE  \E i \in 1..k :
                            /\ Tells(i, e) /\ devices'[e] = events[i].event.name
                            /\ \A j \in (i + 1)..k : ~TellsOnly(j, e)
        BY <1>2, ZenonT(90) DEF LatestName, TellsOnly, Tells
      <3>1. CASE e = new
        <4>1. k \in 1..k /\ \A j \in (k + 1)..k : FALSE
          BY <1>3
        <4> QED
          BY <2>1, <2>2, <3>1, <4>1
      <3>2. CASE e # new
        <4>1. e \in DOMAIN devices /\ devices'[e] = devices[e]
          BY <2>2, <3>2
        <4>2. PICK i \in 1..taken :
                 /\ Tells(i, e) /\ devices[e] = events[i].event.name
                 /\ \A j \in (i + 1)..taken : ~TellsOnly(j, e)
          BY <1>1, <4>1, Zenon DEF LatestName
        <4>3. i \in 1..k /\ \A j \in (i + 1)..k : j \in (i + 1)..taken \/ j = k
          BY <1>3
        <4>4. ~TellsOnly(k, e)
          BY <2>1, <3>2 DEF TellsOnly
        <4> QED
          BY <4>1, <4>2, <4>3, <4>4
      <3> QED
        BY <3>1, <3>2
    <2> QED
      BY <1>8, <2>3, <2>4, <2>5 DEF DiscoveryInv
  <1> QED
    BY <1>6, <1>9, <1>10

\* Every other step leaves the list and what it was made of alone.
LEMMA OtherStep ==
  ASSUME DiscoveryInv, DaemonStops \/ Tick \/ Start \/ Loop \/ ReceiveFails \/ UNCHANGED vars
  PROVE  DiscoveryInv'
  <1>1. TypeOK /\ Waiting /\ Listed /\ LatestName
    BY DEF DiscoveryInv
  <1>2. UNCHANGED <<events, timeout, taken, devices>>
    BY Zenon DEF DaemonStops, Tick, Start, Loop, ReceiveFails, vars
  <1>3. /\ now \in Nat /\ timeout \in Nat /\ Len(events) \in Nat /\ taken \in Nat
        /\ MaxTime \in Nat /\ until \in Nat /\ taken <= Len(events)
    BY <1>1, Facts
  <1>4. Listed' /\ LatestName'
    <2>1. events' = events /\ taken' = taken /\ devices' = devices
      BY <1>2
    <2>2. Listed'
      BY <1>1, <2>1, Zenon DEF Listed, Tells
    <2>3. LatestName'
      BY <1>1, <2>1 DEF LatestName, TellsOnly, Tells
    <2> QED
      BY <2>2, <2>3
  <1>5. /\ pc = "done" <=> result # "none"
        /\ pc = "recv" => until = timeout
        /\ pc # "done" => now <= timeout
        /\ pc # "done" => \A i \in (taken + 1)..Len(events) : events[i].at = now
        /\ result = "ok" => (now >= timeout \/ ~alive)
        /\ result = "ok" => \A i \in (taken + 1)..Len(events) : events[i].at >= timeout
    BY <1>1 DEF Waiting, deadline
  <1>6. /\ now \in 0..MaxTime /\ alive \in BOOLEAN
        /\ pc \in {"start", "loop", "recv", "done"}
        /\ result \in {"none", "ok", "protocol_error"}
    BY <1>1 DEF TypeOK
  <1>7. ASSUME /\ now' \in 0..MaxTime /\ alive' \in BOOLEAN /\ until' \in Nat
               /\ pc' \in {"start", "loop", "recv", "done"}
               /\ result' \in {"none", "ok", "protocol_error"},
               Waiting'
        PROVE  DiscoveryInv'
    <2>1. TypeOK'
      BY <1>1, <1>2, <1>7 DEF TypeOK
    <2> QED
      BY <1>4, <1>7, <2>1 DEF DiscoveryInv
  <1>8. CASE DaemonStops
    <2>1. ~alive' /\ UNCHANGED <<now, pc, until, result>> /\ alive' \in BOOLEAN
      BY <1>8 DEF DaemonStops
    <2>2. Waiting'
      BY <1>2, <1>5, <2>1 DEF Waiting, deadline
    <2> QED
      BY <1>3, <1>6, <1>7, <2>1, <2>2
  <1>9. CASE Tick
    <2>1. /\ now < MaxTime /\ now' = now + 1 /\ UNCHANGED <<alive, pc, until, result>>
          /\ (pc = "recv" /\ taken = Len(events) /\ now < until) \/ pc = "done"
      BY <1>9 DEF Tick
    <2>2. now' \in 0..MaxTime
      BY <1>3, <2>1
    <2>3. pc # "done" => now' <= timeout /\ \A i \in (taken + 1)..Len(events) : FALSE
      BY <1>3, <1>5, <2>1
    <2>4. now >= timeout => now' >= timeout
      BY <1>3, <2>1
    <2>5. Waiting'
      BY <1>2, <1>5, <2>1, <2>3, <2>4 DEF Waiting, deadline
    <2> QED
      BY <1>3, <1>6, <1>7, <2>1, <2>2, <2>5
  <1>10. CASE Start
    <2>1. /\ pc = "start" /\ UNCHANGED <<now, alive, until>>
          /\ (pc' = "loop" /\ result' = result) \/ (pc' = "done" /\ result' = "protocol_error")
      BY <1>10 DEF Start, Return
    <2>2. Waiting'
      BY <1>2, <1>5, <2>1 DEF Waiting, deadline
    <2> QED
      BY <1>3, <1>6, <1>7, <2>1, <2>2
  <1>11. CASE Loop
    <2>1. /\ pc = "loop" /\ UNCHANGED <<now, alive>>
          /\ \/ now < timeout /\ pc' = "recv" /\ until' = now + (timeout - now) /\ result' = result
             \/ now >= timeout /\ pc' = "done" /\ result' = "ok" /\ until' = until
      BY <1>11 DEF Loop, Return, deadline
    <2>2. CASE pc' = "recv"
      <3>1. until' = timeout /\ result' = result
        BY <1>3, <2>1, <2>2
      <3>2. Waiting'
        BY <1>2, <1>5, <2>1, <2>2, <3>1 DEF Waiting, deadline
      <3> QED
        BY <1>3, <1>6, <1>7, <2>1, <2>2, <3>1, <3>2
    <2>3. CASE pc' = "done"
      <3>1. now >= timeout /\ result' = "ok" /\ until' = until
        BY <2>1, <2>3
      <3>2. \A i \in (taken + 1)..Len(events) : events[i].at >= timeout
        BY <1>5, <2>1, <3>1
      <3>3. Waiting'
        BY <1>2, <2>1, <2>3, <3>1, <3>2 DEF Waiting, deadline
      <3> QED
        BY <1>3, <1>6, <1>7, <2>1, <2>3, <3>1, <3>3
    <2> QED
      BY <2>1, <2>2, <2>3
  <1>12. CASE ReceiveFails
    <2>1. /\ pc = "recv" /\ pc' = "done" /\ result' = "ok" /\ UNCHANGED <<now, alive, until>>
          /\ now >= until \/ (~alive /\ taken = Len(events))
      BY <1>12 DEF ReceiveFails, Return
    <2>2. now >= timeout \/ ~alive
      BY <1>5, <2>1
    <2>3. \A i \in (taken + 1)..Len(events) : events[i].at >= timeout
      <3>1. CASE now >= timeout
        BY <1>5, <2>1, <3>1
      <3>2. CASE taken = Len(events)
        BY <1>3, <3>2
      <3> QED
        BY <1>5, <2>1, <3>1, <3>2
    <2>4. Waiting'
      BY <1>2, <2>1, <2>2, <2>3 DEF Waiting, deadline
    <2> QED
      BY <1>3, <1>6, <1>7, <2>1, <2>4
  <1>13. CASE UNCHANGED vars
    <2>1. UNCHANGED <<now, alive, pc, until, result>>
      BY <1>13 DEF vars
    <2>2. Waiting'
      BY <1>2, <1>5, <2>1 DEF Waiting, deadline
    <2> QED
      BY <1>3, <1>6, <1>7, <2>1, <2>2
  <1> QED
    BY <1>8, <1>9, <1>10, <1>11, <1>12, <1>13

LEMMA Invariance == Spec => []DiscoveryInv
  <1>1. DiscoveryInv /\ [Next]_vars => DiscoveryInv'
    BY ArriveStep, ReceiveStep, OtherStep DEF Next
  <1> QED
    BY InitInv, <1>1, PTL DEF Spec

\* The types hold whatever the LAN answers.
THEOREM DiscoveryTypes == Spec => []TypeOK
  <1>1. DiscoveryInv => TypeOK
    BY DEF DiscoveryInv
  <1> QED
    BY Invariance, <1>1, PTL

\* The browse loop never waits past its deadline, however many events arrive.
THEOREM BrowseEndsInTime == Spec => []InTime
  <1>1. DiscoveryInv => InTime
    BY DEF DiscoveryInv, Waiting, InTime
  <1> QED
    BY Invariance, <1>1, PTL

\* Every service resolved before the deadline is in the list of discover, also
\* behind events that list nothing and when the daemon stops.
THEOREM EveryAnswerIsListed == Spec => []EveryAnswer
  <1>1. ASSUME DiscoveryInv PROVE EveryAnswer
    <2> SUFFICES ASSUME result = "ok", NEW i \in 1..Len(events), events[i].at < deadline,
                        events[i].event.kind = "resolved", events[i].event.addresses # {}
                 PROVE  \E endpoint \in DOMAIN devices : Tells(i, endpoint)
      BY DEF EveryAnswer
    <2>1. TypeOK /\ Waiting /\ Listed
      BY <1>1 DEF DiscoveryInv
    <2>2. events[i].at \in Nat /\ timeout \in Nat /\ taken \in Nat /\ Len(events) \in Nat
      BY <2>1, Facts
    <2>3. ASSUME i \notin 1..taken PROVE FALSE
      <3>1. i \in (taken + 1)..Len(events)
        BY <2>2, <2>3
      <3>2. events[i].at >= deadline
        BY <2>1, <3>1 DEF Waiting
      <3> QED
        BY <2>2, <3>2 DEF deadline
    <2> QED
      BY <2>1, <2>3 DEF Listed
  <1> QED
    BY Invariance, <1>1, PTL

\* The list never shows an older name of an endpoint than its last sure one.
THEOREM ListIsUpToDate == Spec => []LatestName
  <1>1. DiscoveryInv => LatestName
    BY DEF DiscoveryInv
  <1> QED
    BY Invariance, <1>1, PTL
================================================================================
