------------------------------- MODULE Discovery -------------------------------
(***************************************************************************)
(* discover of src/discover.rs: the browse loop that collects the answers  *)
(* of the LAN until its deadline.  The mDNS daemon is a thread of the      *)
(* library that queues events for the loop and may stop at any time.       *)
(***************************************************************************)
EXTENDS Integers, Sequences

CONSTANTS
    Name,           \* service names
    V4, V6,         \* addresses
    Port

CONSTANTS           \* bounds
    MaxTimeout,     \* --timeout, in seconds
    MaxEvents,      \* events that the daemon queues
    MaxTime         \* seconds that pass

ASSUME DiscoveryAssumption ==
    /\ V4 \cap V6 = {}
    /\ MaxTimeout \in Nat /\ MaxEvents \in Nat /\ MaxTime \in Nat /\ MaxTimeout <= MaxTime

VARIABLES
    now,            \* the clock
    events,         \* everything the daemon has queued: [at, event]
    alive,          \* does the daemon still hold its end of the channel?
    timeout,        \* the argument
    pc,             \* "start", "loop", "recv", "done"
    taken,          \* how many events the loop has received
    until,          \* when the recv_timeout under way gives up
    devices,        \* the map: from <<address, port>> to the device's name
    result          \* "none", "ok", "protocol_error"

vars == <<now, events, alive, timeout, pc, taken, until, devices, result>>

Address  == V4 \cup V6
Endpoint == Address \X Port

Event ==
    [kind : {"resolved"}, name : Name, addresses : SUBSET Address, port : Port]
        \cup {[kind |-> "other"]}

\* browse was called when the clock stood at zero.
deadline == timeout

----------------------------------------------------------------------------
(* The world.                                                               *)

\* The daemon queues an event: a service that it found, resolved, or lost.  A
\* service is resolved again whenever it is learnt anew.
Arrive ==
    /\ alive /\ Len(events) < MaxEvents
    /\ \E event \in Event : events' = Append(events, [at |-> now, event |-> event])
    /\ UNCHANGED <<now, alive, timeout, pc, taken, until, devices, result>>

\* The daemon stops; the channel keeps what is in it.
DaemonStops ==
    /\ alive /\ alive' = FALSE
    /\ UNCHANGED <<now, events, timeout, pc, taken, until, devices, result>>

\* A second passes, which is long to a loop that has something to do.
Tick ==
    /\ now < MaxTime
    /\ \/ pc = "recv" /\ taken = Len(events) /\ alive /\ now < until
       \/ pc = "done"
    /\ now' = now + 1
    /\ UNCHANGED <<events, alive, timeout, pc, taken, until, devices, result>>

----------------------------------------------------------------------------
(* discover.                                                                *)

Return(r) == pc' = "done" /\ result' = r

\* ServiceDaemon::new and browse, either of which may fail.
Start ==
    /\ pc = "start"
    /\ \/ pc' = "loop" /\ UNCHANGED result
       \/ Return("protocol_error")
    /\ UNCHANGED <<now, events, alive, timeout, taken, until, devices>>

Loop_FullTimeout ==     \* mutant: every receive waits the whole timeout
    /\ pc = "loop"
    /\ \/ now < deadline /\ pc' = "recv" /\ until' = now + timeout /\ UNCHANGED result
       \/ now >= deadline /\ Return("ok") /\ UNCHANGED until
    /\ UNCHANGED <<now, events, alive, timeout, taken, devices>>

Loop_Blocks ==          \* mutant: a receive without a timeout
    /\ pc = "loop"
    /\ \/ now < deadline /\ pc' = "recv" /\ until' = MaxTime + 1 /\ UNCHANGED result
       \/ now >= deadline /\ Return("ok") /\ UNCHANGED until
    /\ UNCHANGED <<now, events, alive, timeout, taken, devices>>

\* The head of the loop: what remains of the timeout is the time to wait; with
\* nothing left the list is complete.
Loop ==
    /\ pc = "loop"
    /\ \/ now < deadline /\ pc' = "recv" /\ until' = now + (deadline - now) /\ UNCHANGED result
       \/ now >= deadline /\ Return("ok") /\ UNCHANGED until
    /\ UNCHANGED <<now, events, alive, timeout, taken, devices>>

\* The address listed: an IPv4 address where there is one, and any address
\* otherwise; the set has no order.
Preferred(addresses) == IF addresses \cap V4 # {} THEN addresses \cap V4 ELSE addresses

Insert_ByHost(endpoint, name) ==        \* mutant: the key is the host alone
    devices' = [e \in DOMAIN devices \cup {endpoint[1]} |->
                   IF e = endpoint[1] THEN name ELSE devices[e]]

Insert_KeepsFirst(endpoint, name) ==    \* mutant: entry().or_insert()
    devices' = [e \in DOMAIN devices \cup {endpoint} |->
                   IF e \in DOMAIN devices THEN devices[e] ELSE name]

\* BTreeMap::insert.
Insert(endpoint, name) ==
    devices' = [e \in DOMAIN devices \cup {endpoint} |->
                   IF e = endpoint THEN name ELSE devices[e]]

Handle_EndsOnUnaddressed(event) ==      \* mutant: break for continue
    \/ event.kind = "other" /\ pc' = "loop" /\ UNCHANGED <<devices, result>>
    \/ /\ event.kind = "resolved" /\ event.addresses = {}
       /\ Return("ok") /\ UNCHANGED devices
    \/ /\ event.kind = "resolved" /\ pc' = "loop" /\ UNCHANGED result
       /\ \E address \in Preferred(event.addresses) : Insert(<<address, event.port>>, event.name)

\* An event: only a service that is resolved to an address is listed.
Handle(event) ==
    \/ event.kind = "other" /\ pc' = "loop" /\ UNCHANGED <<devices, result>>
    \/ /\ event.kind = "resolved" /\ event.addresses = {}
       /\ pc' = "loop" /\ UNCHANGED <<devices, result>>
    \/ /\ event.kind = "resolved" /\ pc' = "loop" /\ UNCHANGED result
       /\ \E address \in Preferred(event.addresses) : Insert(<<address, event.port>>, event.name)

Receive ==
    /\ pc = "recv" /\ taken < Len(events)
    /\ taken' = taken + 1
    /\ Handle(events[taken + 1].event)
    /\ UNCHANGED <<now, events, alive, timeout, until>>

\* recv_timeout fails: its time is up, or the channel is empty and closed.
ReceiveFails ==
    /\ pc = "recv"
    /\ now >= until \/ (~alive /\ taken = Len(events))
    /\ Return("ok")
    /\ UNCHANGED <<now, events, alive, timeout, taken, until, devices>>

----------------------------------------------------------------------------
Init ==
    /\ now = 0 /\ events = <<>> /\ alive = TRUE
    /\ timeout \in 0..MaxTimeout
    /\ pc = "start" /\ taken = 0 /\ until = 0 /\ devices = <<>> /\ result = "none"

Next == Arrive \/ DaemonStops \/ Tick \/ Start \/ Loop \/ Receive \/ ReceiveFails

\* Only the program and the clock are sure to go on.
Fairness == WF_vars(Start \/ Loop \/ Receive \/ ReceiveFails) /\ WF_vars(Tick)

Spec == Init /\ [][Next]_vars /\ Fairness

----------------------------------------------------------------------------
(* Properties.                                                              *)

TypeOK ==
    /\ now \in 0..MaxTime /\ events \in Seq([at : Nat, event : Event])
    /\ alive \in BOOLEAN /\ timeout \in 0..MaxTimeout
    /\ pc \in {"start", "loop", "recv", "done"}
    /\ taken \in 0..Len(events) /\ until \in Nat
    /\ DOMAIN devices \subseteq Endpoint /\ \A e \in DOMAIN devices : devices[e] \in Name
    /\ result \in {"none", "ok", "protocol_error"}

\* However many answers keep coming, the browse is over when its timeout is: no
\* event starts the wait anew.
InTime == pc # "done" => now <= deadline

\* May the event at i be listed as the endpoint?  IPv4 goes before IPv6.
Tells(i, endpoint) ==
    LET event == events[i].event
    IN  /\ event.kind = "resolved" /\ endpoint[2] = event.port
        /\ endpoint[1] \in event.addresses
        /\ endpoint[1] \in V6 => event.addresses \cap V4 = {}

\* Must it, because no other address would do?
TellsOnly(i, endpoint) ==
    Tells(i, endpoint) /\ \A e \in Endpoint : Tells(i, e) => e = endpoint

\* The list has every device that answered in time, under an address it gave:
\* an event that adds nothing does not end the browse, and what is queued when
\* the daemon stops still counts.
EveryAnswer ==
    result = "ok" =>
        \A i \in 1..Len(events) :
            events[i].at < deadline /\ events[i].event.kind = "resolved"
                /\ events[i].event.addresses # {}
            => \E endpoint \in DOMAIN devices : Tells(i, endpoint)

\* An endpoint is listed once, under the name of an event that may have listed
\* it, and never under an older name than one that must have.
LatestName ==
    \A endpoint \in DOMAIN devices :
        \E i \in 1..taken :
            /\ Tells(i, endpoint) /\ devices[endpoint] = events[i].event.name
            /\ \A j \in (i + 1)..taken : ~TellsOnly(j, endpoint)

\* discover ends, also if nothing answers and if the daemon stops.
Termination == <>(pc = "done")
================================================================================
