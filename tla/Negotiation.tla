----------------------------- MODULE Negotiation -----------------------------
(***************************************************************************)
(* The features of one connection: what the TV and the client agree on     *)
(* while configure, set_active, ping, start and error messages come in any *)
(* order, any number of times, several fields in one message included; and *)
(* what the TV is told of it by replies that may fail to be written.       *)
(***************************************************************************)
EXTENDS Handshake

CONSTANT Incoming           \* the messages the TV may send

ASSUME IncomingAssumption == Incoming \subseteq RemoteMessage

VARIABLES
    phase,      \* whose loop reads: read_power's ("handshake"), none between the
                \* two ("ready"), press_power_once's ("await"), none any more ("over")
    hs,         \* the client's SessionHandshake
    want,       \* the state that the key asked for; "unknown" before it
    offered,    \* history: the feature masks of the configures handled
    told        \* history: the mask of the last reply written that carries one, in
                \* a set; {} before that

vars == <<phase, hs, want, offered, told>>

TypeOK ==
    /\ phase \in {"handshake", "ready", "await", "over"}
    /\ hs \in HandshakeState
    /\ want \in PowerView
    /\ offered \subseteq SUBSET Feature
    /\ told \subseteq SUBSET Feature

Init ==
    /\ phase = "handshake" /\ hs = NewHandshake /\ want = "unknown"
    /\ offered = {} /\ told = {}

\* The masks configured so far, m included.
Offered(m) == IF Branch(m) = "remote_configure" THEN offered \cup {m.code1} ELSE offered

\* What the TV has been told once this reply is written.
Told(reply) ==
    IF reply.kind \in {"remote_configure", "remote_set_active"} THEN {reply.active} ELSE told

HandshakeRead_KeepOn(m) ==      \* mutant: a failed write is ignored here, too
    /\ phase = "handshake"
    /\ LET r == Handle(hs, m)
       IN  /\ hs' = r.hs
           /\ \/ r.err /\ phase' = "over" /\ UNCHANGED told
              \/ /\ ~r.err /\ told' \in {told, Told(r.reply)}
                 /\ phase' = IF r.hs.power = "unknown" THEN "handshake" ELSE "ready"
    /\ offered' = Offered(m)
    /\ UNCHANGED want

\* One turn of read_power's loop: an error, or a reply that cannot be written,
\* ends the session.
HandshakeRead(m) ==
    /\ phase = "handshake"
    /\ LET r == Handle(hs, m)
       IN  /\ hs' = r.hs
           /\ \/ /\ r.err \/ r.reply # NoReply
                 /\ phase' = "over" /\ UNCHANGED told
              \/ /\ ~r.err /\ told' = Told(r.reply)
                 /\ phase' = IF r.hs.power = "unknown" THEN "handshake" ELSE "ready"
    /\ offered' = Offered(m)
    /\ UNCHANGED want

\* press_power_once presses the key because the TV is in the other state, and
\* forgets that state before it waits for a new one.
Forget ==
    /\ phase = "ready"
    /\ phase' = "await"
    /\ hs' = [hs EXCEPT !.power = "unknown"]
    /\ want' = IF hs.power = "on" THEN "off" ELSE "on"
    /\ UNCHANGED <<offered, told>>

\* One turn of its loop: errors of handle are ignored, and so is a reply that
\* cannot be written.
AwaitRead(m) ==
    /\ phase = "await"
    /\ LET r == Handle(hs, m)
       IN  /\ hs' = r.hs
           /\ told' \in {told, Told(r.reply)}
           /\ phase' = IF r.hs.power = want THEN "over" ELSE "await"
    /\ offered' = Offered(m)
    /\ UNCHANGED want

\* A read fails, the deadline has passed, or the command has no more use for the
\* connection.
End ==
    /\ phase # "over" /\ phase' = "over"
    /\ UNCHANGED <<hs, want, offered, told>>

Next == Forget \/ End \/ \E m \in Incoming : HandshakeRead(m) \/ AwaitRead(m)

Spec == Init /\ [][Next]_vars

----------------------------------------------------------------------------
\* handle: however often the TV configures the session, the active features are
\* the client's own without any that one of the TV's statements left out.  A
\* configure without a mask (0) states nothing.
ActiveIsAgreed ==
    hs.active_features = {f \in FEATURES : \A o \in offered : o # {} => f \in o}

\* read_power: while its session lives, and when it hands it over to inject keys,
\* a TV that has configured it has been told the mask in force, or the session
\* would have ended with the reply that failed.  The loop after the key goes on
\* without: then the TV may be left with an older mask, but with none that lacks
\* an active feature.
AgreedIsTold ==
    /\ phase \in {"handshake", "ready"} =>
           /\ offered # {} => told # {}
           /\ told \subseteq {hs.active_features}
    /\ \A mask \in told : hs.active_features \subseteq mask
==============================================================================
