-------------------------- MODULE NegotiationProofs --------------------------
(***************************************************************************)
(* Feature negotiation, for every sequence of messages.                    *)
(***************************************************************************)
EXTENDS Negotiation, TLAPS

\* The fields of the result of handle.
LEMMA HandleResult ==
    ASSUME NEW h \in HandshakeState, NEW m \in RemoteMessage
    PROVE  LET r == Handle(h, m)
               b == Branch(m)
           IN  /\ r.hs.active_features = IF b = "remote_configure"
                                         THEN Negotiate(h.active_features, m.code1)
                                         ELSE h.active_features
               /\ r.hs.power = IF b = "remote_start" THEN m.started ELSE h.power
               /\ r.hs \in HandshakeState
               /\ IF b \in {"remote_configure", "remote_set_active"}
                  THEN r.reply.kind = b /\ r.reply.active = r.hs.active_features
                  ELSE r.reply.kind \notin {"remote_configure", "remote_set_active"}
  <1> DEFINE b == Branch(m)
             active == IF b = "remote_configure" THEN Negotiate(h.active_features, m.code1)
                       ELSE h.active_features
             power == IF b = "remote_start" THEN m.started ELSE h.power
  <1>1. Handle(h, m).hs = [power |-> power, active_features |-> active]
    BY DEF Handle
  <1>2. active \subseteq Feature /\ power \in PowerView
    BY DEF Negotiate, HandshakeState, RemoteMessage, PowerView
  <1>3. Handle(h, m).reply =
           IF b \in {"remote_configure", "remote_set_active"} THEN Reply(b, active, 0)
           ELSE IF b = "remote_ping_request" THEN Reply("remote_ping_response", {}, m.val1)
           ELSE NoReply
    BY DEF Handle
  <1> HIDE DEF b, active, power
  <1>4. Handle(h, m).hs \in HandshakeState
    BY <1>1, <1>2 DEF HandshakeState
  <1>5. IF b \in {"remote_configure", "remote_set_active"}
        THEN Handle(h, m).reply.kind = b /\ Handle(h, m).reply.active = active
        ELSE Handle(h, m).reply.kind \notin {"remote_configure", "remote_set_active"}
    BY <1>3 DEF Reply, NoReply
  <1>6. Handle(h, m).hs.active_features = active /\ Handle(h, m).hs.power = power
    BY <1>1
  <1> QED
    BY <1>4, <1>5, <1>6 DEF b, active, power

\* What handle makes of the active features and of the mask that the TV knows.
LEMMA HandleMasks ==
    ASSUME TypeOK, ActiveIsAgreed, NEW m \in Incoming
    PROVE  LET r == Handle(hs, m)
           IN  /\ r.hs \in HandshakeState /\ Offered(m) \subseteq SUBSET Feature
               /\ r.hs.active_features \subseteq hs.active_features
               /\ r.hs.active_features =
                      {f \in FEATURES : \A o \in Offered(m) : o # {} => f \in o}
               /\ IF Branch(m) \in {"remote_configure", "remote_set_active"}
                  THEN Told(r.reply) = {r.hs.active_features}
                  ELSE /\ Told(r.reply) = told /\ Offered(m) = offered
                       /\ r.hs.active_features = hs.active_features
               /\ r.reply = NoReply =>
                      Branch(m) \notin {"remote_configure", "remote_set_active"}
  <1> DEFINE r == Handle(hs, m)
  <1>1. m \in RemoteMessage /\ hs \in HandshakeState
    BY IncomingAssumption DEF TypeOK
  <1>2. m.code1 \subseteq Feature
    BY <1>1 DEF RemoteMessage
  <1>3. /\ r.hs \in HandshakeState
        /\ r.hs.active_features = IF Branch(m) = "remote_configure"
                                  THEN Negotiate(hs.active_features, m.code1)
                                  ELSE hs.active_features
        /\ IF Branch(m) \in {"remote_configure", "remote_set_active"}
           THEN r.reply.kind = Branch(m) /\ r.reply.active = r.hs.active_features
           ELSE r.reply.kind \notin {"remote_configure", "remote_set_active"}
    BY <1>1, HandleResult
  <1> HIDE DEF r
  <1>4. Offered(m) = IF Branch(m) = "remote_configure" THEN offered \cup {m.code1} ELSE offered
    BY DEF Offered
  <1>5. r.hs.active_features = {f \in FEATURES : \A o \in Offered(m) : o # {} => f \in o}
    BY <1>3, <1>4 DEF ActiveIsAgreed, Negotiate
  <1>6. IF Branch(m) \in {"remote_configure", "remote_set_active"}
        THEN Told(r.reply) = {r.hs.active_features}
        ELSE /\ Told(r.reply) = told /\ Offered(m) = offered
             /\ r.hs.active_features = hs.active_features
    BY <1>3, <1>4 DEF Told
  <1>7. r.hs.active_features \subseteq hs.active_features
    BY <1>3 DEF Negotiate
  <1>8. r.reply = NoReply => Branch(m) \notin {"remote_configure", "remote_set_active"}
    BY <1>3 DEF NoReply, Reply
  <1>9. Offered(m) \subseteq SUBSET Feature
    BY <1>2, <1>4 DEF TypeOK
  <1> QED
    BY <1>3, <1>5, <1>6, <1>7, <1>8, <1>9 DEF r

NegotiationInv == TypeOK /\ ActiveIsAgreed /\ AgreedIsTold

\* A turn of read_power's loop: the TV is told of a change, or the session ends.
LEMMA HandshakeReadStep ==
    ASSUME NegotiationInv, NEW m \in Incoming, HandshakeRead(m)
    PROVE  NegotiationInv'
  <1> DEFINE r == Handle(hs, m)
  <1>1. TypeOK /\ ActiveIsAgreed /\ AgreedIsTold
    BY DEF NegotiationInv
  <1>2. /\ phase = "handshake" /\ hs' = r.hs /\ offered' = Offered(m) /\ want' = want
        /\ \/ phase' = "over" /\ told' = told
           \/ phase' \in {"handshake", "ready"} /\ told' = Told(r.reply)
    BY DEF HandshakeRead
  <1>3. /\ r.hs \in HandshakeState /\ Offered(m) \subseteq SUBSET Feature
        /\ r.hs.active_features \subseteq hs.active_features
        /\ r.hs.active_features = {f \in FEATURES : \A o \in Offered(m) : o # {} => f \in o}
        /\ IF Branch(m) \in {"remote_configure", "remote_set_active"}
           THEN Told(r.reply) = {r.hs.active_features}
           ELSE /\ Told(r.reply) = told /\ Offered(m) = offered
                /\ r.hs.active_features = hs.active_features
    BY <1>1, HandleMasks
  <1> HIDE DEF r
  <1>4. TypeOK'
    BY <1>1, <1>2, <1>3 DEF TypeOK, HandshakeState
  <1>5. ActiveIsAgreed'
    BY <1>2, <1>3 DEF ActiveIsAgreed
  <1>6. AgreedIsTold'
    <2>1. CASE phase' = "over" /\ told' = told
      BY <1>1, <1>2, <1>3, <2>1 DEF AgreedIsTold
    <2>2. CASE told' = Told(r.reply)
      <3>1. CASE Branch(m) \in {"remote_configure", "remote_set_active"}
        <4>1. told' = {hs'.active_features}
          BY <1>2, <1>3, <2>2, <3>1
        <4> QED
          BY <4>1 DEF AgreedIsTold
      <3>2. CASE Branch(m) \notin {"remote_configure", "remote_set_active"}
        <4>1. told' = told /\ offered' = offered
              /\ hs'.active_features = hs.active_features
          BY <1>2, <1>3, <2>2, <3>2
        <4>2. /\ offered # {} => told # {}
              /\ told \subseteq {hs.active_features}
          BY <1>1, <1>2 DEF AgreedIsTold
        <4> QED
          BY <4>1, <4>2 DEF AgreedIsTold
      <3> QED
        BY <3>1, <3>2
    <2> QED
      BY <1>2, <2>1, <2>2
  <1> QED
    BY <1>4, <1>5, <1>6 DEF NegotiationInv

\* A turn of press_power_once's loop: the features may shrink behind the TV's back.
LEMMA AwaitReadStep ==
    ASSUME NegotiationInv, NEW m \in Incoming, AwaitRead(m)
    PROVE  NegotiationInv'
  <1> DEFINE r == Handle(hs, m)
  <1>1. TypeOK /\ ActiveIsAgreed /\ AgreedIsTold
    BY DEF NegotiationInv
  <1>2. /\ hs' = r.hs /\ offered' = Offered(m) /\ want' = want
        /\ told' = told \/ told' = Told(r.reply)
        /\ phase' \in {"await", "over"}
    BY DEF AwaitRead
  <1>3. /\ r.hs \in HandshakeState /\ Offered(m) \subseteq SUBSET Feature
        /\ r.hs.active_features \subseteq hs.active_features
        /\ r.hs.active_features = {f \in FEATURES : \A o \in Offered(m) : o # {} => f \in o}
        /\ Told(r.reply) \in {told, {r.hs.active_features}}
    BY <1>1, HandleMasks
  <1> HIDE DEF r
  <1>4. TypeOK'
    BY <1>1, <1>2, <1>3 DEF TypeOK, HandshakeState
  <1>5. ActiveIsAgreed'
    BY <1>2, <1>3 DEF ActiveIsAgreed
  <1>6. AgreedIsTold'
    BY <1>1, <1>2, <1>3 DEF AgreedIsTold
  <1> QED
    BY <1>4, <1>5, <1>6 DEF NegotiationInv

LEMMA NegotiationInvariant == Spec => []NegotiationInv
  <1>1. Init => NegotiationInv
    BY DEF Init, NegotiationInv, TypeOK, ActiveIsAgreed, AgreedIsTold, NewHandshake,
           HandshakeState, PowerView, FEATURES, Feature
  <1>2. NegotiationInv /\ [Next]_vars => NegotiationInv'
    <2>1. NegotiationInv /\ Forget => NegotiationInv'
      BY DEF Forget, NegotiationInv, TypeOK, ActiveIsAgreed, AgreedIsTold,
             HandshakeState, PowerView, Power
    <2>2. NegotiationInv /\ (End \/ UNCHANGED vars) => NegotiationInv'
      BY DEF End, vars, NegotiationInv, TypeOK, ActiveIsAgreed, AgreedIsTold
    <2> QED
      BY <2>1, <2>2, HandshakeReadStep, AwaitReadStep DEF Next
  <1> QED
    BY <1>1, <1>2, PTL DEF Spec

\* Whatever the TV configures and in which order, the active features are those
\* of the client that no statement of the TV left out.
THEOREM FeaturesAreAgreed == Spec => []ActiveIsAgreed
  <1>1. NegotiationInv => ActiveIsAgreed
    BY DEF NegotiationInv
  <1> QED
    BY NegotiationInvariant, <1>1, PTL

\* Whichever replies cannot be written: a session that read_power goes on with,
\* or hands over, is one whose TV has been told the mask in force; and after the
\* key, no TV has been told a mask without one of the active features.
THEOREM FeaturesAreTold == Spec => []AgreedIsTold
  <1>1. NegotiationInv => AgreedIsTold
    BY DEF NegotiationInv
  <1> QED
    BY NegotiationInvariant, <1>1, PTL
==============================================================================
