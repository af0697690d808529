---------------------------- MODULE PairingProofs ----------------------------
(***************************************************************************)
(* What runs of `atv pair` that do not overlap leave in the credential     *)
(* directory, for any number of runs, crashes and failures; and what       *)
(* paired:true means, for runs that overlap as well.                       *)
(***************************************************************************)
EXTENDS PairingRefinement, SequenceTheorems, TLAPS

Active(p) == pc[p] \notin Resting

Loaded == {"connect", "exchange", "code", "ack"}

\* The part of TypeOK that the store is about.
StoreTyped ==
    /\ cert \in File /\ key \in File
    /\ pc \in [Proc -> PC] /\ mine \in [Proc -> File]
    /\ DOMAIN result = Proc

\* A run is alone; a key comes after its certificate; and each phase of a run
\* knows what is on disk.
OneAtATime == \A p, q \in Proc : Active(p) /\ Active(q) => p = q

KeyFollowsCert == key # "absent" => cert \in Proc /\ key \in {"empty", cert}

OnDisk(p) ==
    /\ pc[p] = "create" => key = "absent"
    /\ pc[p] = "cert_write" => cert = "empty" /\ key = "absent"
    /\ pc[p] = "key_open" => cert = p /\ key = "absent"
    /\ pc[p] = "key_write" => cert = p /\ key = "empty"
    /\ pc[p] = "load" => key # "absent"
    /\ pc[p] = "load_key" => key # "absent" /\ mine[p] = cert
    /\ pc[p] \in Loaded => mine[p] \in Proc /\ cert = mine[p] /\ key = mine[p]
    /\ result[p] = "paired" =>
           pc[p] = "done" /\ mine[p] \in Proc /\ cert = mine[p] /\ key = mine[p]

StoreInv ==
    /\ StoreTyped
    /\ OneAtATime
    /\ KeyFollowsCert
    /\ \A p \in Proc : OnDisk(p)

----------------------------------------------------------------------------
\* A step of p after the store is loaded: the files stay, and only the answer to
\* the secret makes a run paired.
LateStep(p) ==
    /\ UNCHANGED <<cert, key, mine>>
    /\ Active(p)
    /\ \/ \E l \in Loaded : pc[p] \in Loaded /\ pc' = [pc EXCEPT ![p] = l] /\ UNCHANGED result
       \/ pc' = [pc EXCEPT ![p] = "crashed"] /\ UNCHANGED result
       \/ \E r : /\ r = "paired" => pc[p] = "ack"
                 /\ pc' = [pc EXCEPT ![p] = "done"] /\ result' = [result EXCEPT ![p] = r]

LEMMA LateSteps ==
    ASSUME StoreInv, NEW p \in Proc,
           \/ Connect(p) \/ ConnectFail(p) \/ Exchange(p) \/ ExchangeError(p)
           \/ SendSecret(p) \/ RejectCode(p) \/ SendSecretFail(p)
           \/ ReadAck(p) \/ ReadAckError(p) \/ Crash(p) \/ StoreFail(p)
    PROVE  LateStep(p)
  <1> USE DEF LateStep, Active, Resting, Loaded, Goto, Return, store
  <1>1. CASE Connect(p) \/ SendSecret(p)
    BY <1>1 DEF Connect, SendSecret
  <1>2. CASE Exchange(p)
    BY <1>2 DEF Exchange, HandleError
  <1>3. CASE ReadAck(p)
    BY <1>3 DEF ReadAck
  <1>4. CASE Crash(p)
    BY <1>4 DEF Crash
  <1>5. CASE StoreFail(p)
    BY <1>5 DEF StoreFail
  <1>6. CASE ConnectFail(p) \/ ExchangeError(p) \/ RejectCode(p) \/ SendSecretFail(p)
             \/ ReadAckError(p)
    BY <1>6 DEF ConnectFail, ExchangeError, RejectCode, SendSecretFail, ReadAckError
  <1> QED
    BY <1>1, <1>2, <1>3, <1>4, <1>5, <1>6

\* A run that is loaded or later never touches the files again.
LEMMA LateInv ==
    ASSUME StoreInv, NEW p \in Proc, LateStep(p)
    PROVE  StoreInv'
  <1>1. StoreTyped'
    BY DEF StoreInv, StoreTyped, LateStep, Loaded, PC, Resting
  <1>2. OneAtATime'
    BY DEF StoreInv, StoreTyped, OneAtATime, LateStep, Active, Resting
  <1>3. KeyFollowsCert'
    BY DEF StoreInv, KeyFollowsCert, LateStep
  <1>4. ASSUME NEW q \in Proc PROVE OnDisk(q)'
    <2>1. OnDisk(q) /\ OnDisk(p)
      BY DEF StoreInv
    <2>2. CASE q # p
      <3>1. pc'[q] = pc[q] /\ result'[q] = result[q] /\ mine' = mine /\ cert' = cert /\ key' = key
        BY <2>2 DEF LateStep, StoreInv, StoreTyped
      <3> QED
        BY <2>1, <3>1 DEF OnDisk
    <2>3. CASE q = p
      BY <2>1, <2>3 DEF LateStep, StoreInv, StoreTyped, OnDisk, Loaded, Active, Resting
    <2> QED
      BY <2>2, <2>3
  <1> QED
    BY <1>1, <1>2, <1>3, <1>4 DEF StoreInv

\* A step of ensure_identity or from_credential_dir, while no other run is active.
LEMMA StoreStepInv ==
    ASSUME StoreInv, ~Concurrent, NEW p \in Proc, StoreStep(p)
    PROVE  StoreInv'
  <1> USE StoreAssumption
  <1>1. \A q \in Proc : q # p => pc[q] \in Resting
    BY DEF StoreStep, EnsureIdentity, CreateCert, WriteCert, CreateKey, WriteKey, LoadCert,
           LoadKey, StoreFail, StoreInv, OneAtATime, Active, Resting
  <1>2. CASE StoreFail(p)
    BY <1>2, LateSteps, LateInv
  <1>3. CASE ~StoreFail(p)
    <2>1. /\ StoreTyped' /\ KeyFollowsCert' /\ OnDisk(p)'
          /\ \A q \in Proc : q # p => pc'[q] = pc[q] /\ mine'[q] = mine[q] /\ result'[q] = result[q]
          /\ \A q \in Proc : q # p /\ result[q] = "paired" => cert' = cert /\ key' = key
      <3> USE DEF StoreInv, StoreTyped, KeyFollowsCert, OnDisk, File, PC, Resting, Loaded,
                  Goto, Return, store
      <3>1. CASE EnsureIdentity(p)
        BY <3>1 DEF EnsureIdentity
      <3>2. CASE CreateCert(p)
        BY <3>2 DEF CreateCert
      <3>3. CASE WriteCert(p)
        BY <3>3 DEF WriteCert
      <3>4. CASE CreateKey(p)
        BY <3>4 DEF CreateKey
      <3>5. CASE WriteKey(p)
        BY <3>5 DEF WriteKey
      <3>6. CASE LoadCert(p)
        BY <3>6 DEF LoadCert
      <3>7. CASE LoadKey(p)
        BY <3>7 DEF LoadKey, LoadError
      <3> QED
        BY <1>3, <3>1, <3>2, <3>3, <3>4, <3>5, <3>6, <3>7 DEF StoreStep
    <2>2. \A q \in Proc : q # p => OnDisk(q)'
      BY <1>1, <2>1 DEF StoreInv, OnDisk, Resting, Loaded
    <2>3. OneAtATime'
      BY <1>1, <2>1 DEF OneAtATime, Active
    <2> QED
      BY <2>1, <2>2, <2>3 DEF StoreInv
  <1> QED
    BY <1>2, <1>3

SequentialInv == ~Concurrent => StoreInv

LEMMA StoreInvariant == Spec => []SequentialInv
  <1>1. Init => StoreInv
    BY StoreAssumption DEF Init, StoreInit, StoreInv, StoreTyped, OneAtATime, KeyFollowsCert,
                           OnDisk, File, PC, Resting, Active, Loaded
  <1>2. SequentialInv /\ [Next]_vars => SequentialInv'
    <2> SUFFICES ASSUME ~Concurrent, StoreInv, [Next]_vars PROVE StoreInv'
      BY DEF SequentialInv
    <2>1. ASSUME NEW p \in Proc, StoreStep(p) PROVE StoreInv'
      BY <2>1, StoreStepInv
    <2>2. ASSUME NEW p \in Proc,
                 \/ Connect(p) \/ ConnectFail(p) \/ Exchange(p) \/ ExchangeError(p)
                 \/ SendSecret(p) \/ RejectCode(p) \/ SendSecretFail(p)
                 \/ ReadAck(p) \/ ReadAckError(p) \/ Crash(p)
          PROVE  StoreInv'
      BY <2>2, LateSteps, LateInv
    <2>3. ASSUME UNCHANGED <<cert, key, pc, mine, result>> PROVE StoreInv'
      BY <2>3 DEF StoreInv, StoreTyped, OneAtATime, KeyFollowsCert, OnDisk, Active
    <2>4. ASSUME NEW p \in Proc, TVStep(p) PROVE StoreInv'
      BY <2>3, <2>4 DEF TVStep, TVAnswer, TVRefuse, TVRepeat, TVClose, store
    <2> QED
      BY <2>1, <2>2, <2>3, <2>4 DEF Next, PairStep, vars
  <1>3. Init => SequentialInv
    BY <1>1 DEF SequentialInv
  <1> QED
    BY <1>2, <1>3, PTL DEF Spec

----------------------------------------------------------------------------
\* Runs that do not overlap never leave the halves of two identities, whatever
\* crashes and fails in between.
THEOREM StoreHoldsOneIdentity == Spec => []OneIdentity
  <1>1. SequentialInv => OneIdentity
    BY StoreAssumption DEF SequentialInv, StoreInv, KeyFollowsCert, OneIdentity
  <1> QED
    BY StoreInvariant, <1>1, PTL

\* A store that no command can use and no pair repairs has an empty key.
THEOREM UnusableStoreIsTorn == Spec => []UnusableIsTorn
  <1>1. SequentialInv => UnusableIsTorn
    BY StoreAssumption DEF SequentialInv, StoreInv, KeyFollowsCert, UnusableIsTorn, LoadError
  <1> QED
    BY StoreInvariant, <1>1, PTL

\* The identity of a run that paired is the one on disk, for ever after.
THEOREM PairedIdentityStays == Spec => []PairedStaysUsable
  <1>1. SequentialInv => PairedStaysUsable
    BY DEF SequentialInv, StoreInv, OnDisk, PairedStaysUsable, FirstPairWins
  <1> QED
    BY StoreInvariant, <1>1, PTL
----------------------------------------------------------------------------
\* Every variable keeps its type: in particular pair prints paired:true or one of
\* the error kinds that it has.
THEOREM PairingTypes == Spec => []TypeOK
  <1>1. Init => TypeOK
    BY EmptySeq DEF Init, StoreInit, TypeOK, File, PC, Resting
  <1>2. TypeOK /\ [Next]_vars => TypeOK'
    <2> SUFFICES ASSUME TypeOK, [Next]_vars PROVE TypeOK'
      OBVIOUS
    <2> USE DEF TypeOK
    <2>1. ASSUME NEW p \in Proc, StoreStep(p), UNCHANGED <<wire, trusted>> PROVE TypeOK'
      <3>1. cert' \in File /\ key' \in File
        BY <2>1 DEF File, StoreStep, EnsureIdentity, CreateCert, WriteCert, CreateKey, WriteKey,
                    LoadCert, LoadKey, StoreFail, store
      <3>2. mine' \in [Proc -> File]
        BY <2>1 DEF StoreStep, EnsureIdentity, CreateCert, WriteCert, CreateKey, WriteKey,
                    LoadCert, LoadKey, StoreFail
      <3>3. \/ \E l \in PC : Goto(p, l)
            \/ \E e \in {"not_paired", "config_io"} : Return(p, e)
        BY <2>1 DEF PC, Resting, StoreStep, EnsureIdentity, CreateCert, WriteCert, CreateKey,
                    WriteKey, LoadCert, LoadKey, LoadError, StoreFail
      <3>4. pc' \in [Proc -> PC]
        BY <3>3 DEF Goto, Return, PC, Resting
      <3>5. result' \in [Proc -> {"none", "paired", "unreachable", "not_paired",
                                  "pairing_failed", "protocol_error", "config_io"}]
        BY <3>3 DEF Goto, Return
      <3> QED
        BY <2>1, <3>1, <3>2, <3>4, <3>5 DEF wire
    <2>2. ASSUME NEW p \in Proc,
                 \/ ConnectFail(p) \/ ExchangeError(p) \/ RejectCode(p) \/ SendSecretFail(p)
                 \/ ReadAckError(p) \/ Crash(p)
          PROVE  TypeOK'
      BY <2>2 DEF ConnectFail, ExchangeError, RejectCode, SendSecretFail, ReadAckError, Crash,
                  Goto, Return, PC, Resting, wire, store
    <2>3. ASSUME NEW p \in Proc, Connect(p) PROVE TypeOK'
      <3>1. <<"pairing_request">> \in Seq(Request)
        BY DEF Request
      <3> QED
        BY <2>3, <3>1 DEF Connect, Goto, PC, store
    <2>4. ASSUME NEW p \in Proc, NEW m \in Request, Write(p, m)
          PROVE  toTV' \in [Proc -> Seq(Request)]
      BY <2>4, AppendProperties DEF Write
    <2>5. ASSUME NEW p \in Proc, Read(p), inbox[p] # <<>>
          PROVE  /\ inbox' \in [Proc -> Seq(OuterMessage)]
                 /\ Head(inbox[p]) \in OuterMessage
      BY <2>5, HeadTailProperties DEF Read
    <2>6. ASSUME NEW p \in Proc, Exchange(p) PROVE TypeOK'
      <3>1. inbox[p] # <<>> /\ inbox' \in [Proc -> Seq(OuterMessage)]
        BY <2>5, <2>6 DEF Exchange
      <3> DEFINE msg == Head(inbox[p])
      <3>2. /\ HandleError(msg) \in {"none", "pairing_failed", "protocol_error"}
            /\ HandleReply(msg) # "none" => HandleReply(msg) \in Request
        BY DEF HandleError, HandleReply, Request
      <3> HIDE DEF msg
      <3>3. toTV' \in [Proc -> Seq(Request)]
        BY <2>4, <2>6, <3>2 DEF Exchange, msg
      <3>4. pc' \in [Proc -> PC]
        BY <2>6 DEF Exchange, Goto, Return, PC, Resting
      <3>5. result' \in [Proc -> {"none", "paired", "unreachable", "not_paired",
                                  "pairing_failed", "protocol_error", "config_io"}]
        BY <2>6, <3>2 DEF Exchange, Goto, Return, msg
      <3> QED
        BY <2>6, <3>1, <3>3, <3>4, <3>5 DEF Exchange, store
    <2>7. ASSUME NEW p \in Proc, SendSecret(p) PROVE TypeOK'
      <3>1. toTV' \in [Proc -> Seq(Request)]
        BY <2>4, <2>7 DEF SendSecret, Request
      <3> QED
        BY <2>7, <3>1 DEF SendSecret, Goto, PC, store
    <2>8. ASSUME NEW p \in Proc, ReadAck(p) PROVE TypeOK'
      <3>1. inbox' \in [Proc -> Seq(OuterMessage)]
        BY <2>5, <2>8 DEF ReadAck
      <3> QED
        BY <2>8, <3>1 DEF ReadAck, HandleError, Return, PC, Resting, store
    <2>9. ASSUME NEW p \in Proc, TVStep(p) PROVE TypeOK'
      <3>1. ASSUME NEW m \in OuterMessage
            PROVE  [inbox EXCEPT ![p] = Append(@, m)] \in [Proc -> Seq(OuterMessage)]
        BY AppendProperties
      <3>2. CASE TVAnswer(p)
        <4>1. toTV' \in [Proc -> Seq(Request)]
          BY <3>2, HeadTailProperties DEF TVAnswer
        <4>2. inbox' \in [Proc -> Seq(OuterMessage)]
          BY <3>1, <3>2 DEF TVAnswer, OuterMessage
        <4>3. trusted' \subseteq File
          BY <3>2 DEF TVAnswer
        <4> QED
          BY <3>2, <4>1, <4>2, <4>3 DEF TVAnswer, store
      <3>3. CASE TVRefuse(p)
        <4>1. inbox' \in [Proc -> Seq(OuterMessage)]
          BY <3>1, <3>3 DEF TVRefuse, OuterMessage
        <4> QED
          BY <3>3, <4>1 DEF TVRefuse, store
      <3>4. CASE TVClose(p)
        BY <3>4 DEF TVClose, store
      <3>5. CASE TVRepeat(p)
        <4>1. inbox' \in [Proc -> Seq(OuterMessage)]
          BY <3>1, <3>5 DEF TVRepeat, OuterMessage
        <4>2. toTV' \in [Proc -> Seq(Request)]
          <5>1. toTV' = toTV \/ (toTV[p] # <<>> /\ toTV' = [toTV EXCEPT ![p] = Tail(@)])
            BY <3>5 DEF TVRepeat
          <5>2. toTV[p] # <<>> => Tail(toTV[p]) \in Seq(Request)
            BY HeadTailProperties
          <5> QED
            BY <5>1, <5>2
        <4> QED
          BY <3>5, <4>1, <4>2 DEF TVRepeat, store
      <3> QED
        BY <2>9, <3>2, <3>3, <3>4, <3>5 DEF TVStep
    <2>10. CASE UNCHANGED vars
      BY <2>10 DEF vars, wire
    <2> QED
      BY <2>1, <2>2, <2>3, <2>6, <2>7, <2>8, <2>9, <2>10 DEF Next, PairStep
  <1> QED
    BY <1>1, <1>2, PTL DEF Spec

----------------------------------------------------------------------------
(* The exchange with the TV, for runs that may overlap.                     *)

Before == {"idle", "create", "cert_write", "key_open", "key_write", "load", "load_key",
           "connect"}

Bad == {"fault", "other"}
Good == {"pairing_request_ack", "options", "configuration_ack"}
Secrets == {"right_secret", "wrong_secret"}

\* At most one message of the exchange is on the wire, so nothing that the TV said
\* before the secret is left to be taken for the answer to it.
OnWire(p) ==
    /\ pc[p] \in Before => toTV[p] = <<>> /\ inbox[p] = <<>> /\ p \notin open
    /\ pc[p] = "exchange" =>
           /\ \A i \in 1..Len(toTV[p]) : toTV[p][i] \notin Secrets
           /\ \A i \in 1..Len(inbox[p]) :
                  inbox[p][i] \in Bad \/ (i = 1 /\ inbox[p][i] \in Good /\ toTV[p] = <<>>)
           /\ p \in open => Len(toTV[p]) + Len(inbox[p]) <= 1
    /\ pc[p] = "code" =>
           /\ toTV[p] = <<>>
           /\ \A i \in 1..Len(inbox[p]) : inbox[p][i] \in Bad
    /\ pc[p] = "ack" =>
           /\ \A i \in 1..Len(toTV[p]) : toTV[p][i] \in Secrets
           /\ \A i \in 1..Len(inbox[p]) :
                  \/ inbox[p][i] \in Bad
                  \/ inbox[p][i] = "secret_ack" /\ mine[p] \in trusted
    /\ result[p] = "paired" => pc[p] = "done" /\ mine[p] \in trusted

WireTyped ==
    /\ toTV \in [Proc -> Seq(Request)] /\ inbox \in [Proc -> Seq(OuterMessage)]
    /\ pc \in [Proc -> PC]
    /\ DOMAIN mine = Proc /\ DOMAIN result = Proc

WireInv == WireTyped /\ \A p \in Proc \ Insistent : OnWire(p)

\* The elements of a sequence after a read and after a write.
LEMMA ReadOne ==
    ASSUME NEW S, NEW s \in Seq(S), s # <<>>
    PROVE  /\ Tail(s) \in Seq(S) /\ Len(s) \in Nat \ {0} /\ Len(Tail(s)) = Len(s) - 1
           /\ Head(s) = s[1] /\ Head(s) \in S
           /\ \A i \in 1..Len(Tail(s)) : i + 1 \in 1..Len(s) /\ i + 1 # 1 /\ Tail(s)[i] = s[i + 1]
  <1>1. Len(s) \in Nat \ {0} /\ Tail(s) \in Seq(S) /\ Len(Tail(s)) = Len(s) - 1
    BY EmptySeq, HeadTailProperties
  <1>2. \A i \in 1..Len(Tail(s)) : Tail(s)[i] = s[i + 1]
    BY HeadTailProperties
  <1>3. Head(s) = s[1] /\ Head(s) \in S
    BY HeadTailProperties
  <1> QED
    BY <1>1, <1>2, <1>3

LEMMA WriteOne ==
    ASSUME NEW S, NEW s \in Seq(S), NEW e \in S
    PROVE  /\ Append(s, e) \in Seq(S) /\ Len(s) \in Nat /\ Len(Append(s, e)) = Len(s) + 1
           /\ \A i \in 1..Len(Append(s, e)) :
                  \/ i \in 1..Len(s) /\ Append(s, e)[i] = s[i]
                  \/ i = Len(s) + 1 /\ Append(s, e)[i] = e
  BY LenProperties, AppendProperties

\* A message from one side, when there is at most one, is the only one.
LEMMA OnlyOne ==
    ASSUME NEW k \in Nat \ {0}, NEW m \in Nat, k + m <= 1 \/ m + k <= 1
    PROVE  k = 1 /\ m = 0
  OBVIOUS

\* A step of one run and its connection leaves the others as they are; the TV
\* forgets no certificate.
LEMMA OtherWires ==
    ASSUME WireInv, NEW p \in Proc, NEW q \in Proc \ Insistent, q # p,
           toTV'[q] = toTV[q], inbox'[q] = inbox[q], pc'[q] = pc[q], mine'[q] = mine[q],
           result'[q] = result[q], q \in open' <=> q \in open, trusted \subseteq trusted'
    PROVE  OnWire(q)'
  <1>1. OnWire(q)
    BY DEF WireInv
  <1>2. pc'[q] \in Before => toTV'[q] = <<>> /\ inbox'[q] = <<>> /\ q \notin open'
    BY <1>1 DEF OnWire
  <1>3. pc'[q] = "exchange" =>
           /\ \A i \in 1..Len(toTV'[q]) : toTV'[q][i] \notin Secrets
           /\ \A i \in 1..Len(inbox'[q]) :
                  inbox'[q][i] \in Bad \/ (i = 1 /\ inbox'[q][i] \in Good /\ toTV'[q] = <<>>)
           /\ q \in open' => Len(toTV'[q]) + Len(inbox'[q]) <= 1
    BY <1>1 DEF OnWire
  <1>4. pc'[q] = "code" => toTV'[q] = <<>> /\ \A i \in 1..Len(inbox'[q]) : inbox'[q][i] \in Bad
    BY <1>1 DEF OnWire
  <1>5. pc'[q] = "ack" =>
           /\ \A i \in 1..Len(toTV'[q]) : toTV'[q][i] \in Secrets
           /\ \A i \in 1..Len(inbox'[q]) :
                  \/ inbox'[q][i] \in Bad
                  \/ inbox'[q][i] = "secret_ack" /\ mine'[q] \in trusted'
    BY <1>1 DEF OnWire
  <1>6. result'[q] = "paired" => pc'[q] = "done" /\ mine'[q] \in trusted'
    BY <1>1 DEF OnWire
  <1> QED
    BY <1>2, <1>3, <1>4, <1>5, <1>6 DEF OnWire

LEMMA ClientWire ==
    ASSUME WireInv, NEW p \in Proc \ Insistent, PairStep(p) \/ Crash(p)
    PROVE  WireInv'
  <1> USE DEF Goto, Return, Resting
  <1>0. /\ OnWire(p) /\ WireTyped
        /\ toTV[p] \in Seq(Request) /\ inbox[p] \in Seq(OuterMessage)
    BY DEF WireInv, WireTyped
  <1>1. CASE StoreStep(p) /\ UNCHANGED <<wire, trusted>>
    <2>1. /\ pc[p] \in Before /\ pc[p] # "connect"
          /\ UNCHANGED <<toTV, inbox, open, trusted>>
          /\ DOMAIN mine' = Proc /\ DOMAIN result' = Proc
          /\ \A q \in Proc : q # p => mine'[q] = mine[q] /\ result'[q] = result[q]
          /\ \/ result' = result
             \/ result'[p] # "paired"
          /\ \E l \in Before \cup {"done"} : pc' = [pc EXCEPT ![p] = l]
      BY <1>1 DEF StoreStep, EnsureIdentity, CreateCert, WriteCert, CreateKey, WriteKey, LoadCert,
                  LoadKey, LoadError, StoreFail, Before, wire, WireInv, WireTyped
    <2>2. WireTyped'
      BY <1>0, <2>1 DEF WireTyped, Before, PC
    <2>3. OnWire(p)'
      BY <1>0, <2>1 DEF OnWire, WireTyped, Before
    <2> QED
      BY <1>0, <2>1, <2>2, <2>3, OtherWires DEF WireInv, WireTyped
  <1>2. CASE Connect(p)
    <2> DEFINE s == <<"pairing_request">>
    <2>1. s \in Seq(Request) /\ Len(s) = 1 /\ s[1] = "pairing_request"
      BY DEF Request
    <2>2. /\ pc[p] = "connect" /\ inbox' = inbox /\ toTV' = [toTV EXCEPT ![p] = s]
          /\ pc' = [pc EXCEPT ![p] = "exchange"] /\ open' = open \cup {p}
          /\ UNCHANGED <<mine, result, trusted>>
      BY <1>2 DEF Connect
    <2> HIDE DEF s
    <2>3. WireTyped'
      BY <1>0, <2>1, <2>2 DEF WireTyped, PC
    <2>4. OnWire(p)'
      <3>1. Len(inbox[p]) = 0
        BY <1>0, <2>2, EmptySeq DEF OnWire, Before
      <3>2. toTV'[p] = s /\ inbox'[p] = inbox[p] /\ pc'[p] = "exchange" /\ result'[p] # "paired"
        BY <1>0, <2>2 DEF OnWire, WireTyped
      <3>3. \A i \in 1..Len(inbox'[p]) : FALSE
        BY <3>1, <3>2
      <3>4. \A i \in 1..Len(toTV'[p]) : toTV'[p][i] \notin Secrets
        <4>1. \A i \in 1..1 : s[i] \notin Secrets
          BY <2>1 DEF Secrets
        <4> QED
          BY <2>1, <3>2, <4>1, Zenon
      <3>5. Len(toTV'[p]) + Len(inbox'[p]) <= 1
        <4>1. Len(toTV'[p]) = 1 /\ Len(inbox'[p]) = 0
          BY <2>1, <3>1, <3>2, Zenon
        <4> QED
          BY <4>1
      <3> QED
        BY <3>2, <3>3, <3>4, <3>5 DEF OnWire, Before
    <2> QED
      BY <1>0, <2>2, <2>3, <2>4, OtherWires DEF WireInv, WireTyped
  <1>3. CASE Exchange(p)
    <2> DEFINE msg == Head(inbox[p])
               b == Tail(inbox[p])
               reply == HandleReply(msg)
    <2>1. /\ pc[p] = "exchange" /\ inbox[p] # <<>> /\ inbox' = [inbox EXCEPT ![p] = b]
          /\ UNCHANGED <<mine, open, trusted>>
      BY <1>3 DEF Exchange, Read
    <2>2. /\ b \in Seq(OuterMessage) /\ inbox'[p] = b
          /\ \A i \in 1..Len(b) : b[i] \in Bad
          /\ p \in open => Len(b) = 0
          /\ msg \in Bad \/ (msg \in Good /\ toTV[p] = <<>>)
      <3>1. /\ \A i \in 1..Len(inbox[p]) :
                   inbox[p][i] \in Bad \/ (i = 1 /\ inbox[p][i] \in Good /\ toTV[p] = <<>>)
            /\ p \in open => Len(toTV[p]) + Len(inbox[p]) <= 1
        BY <1>0, <2>1 DEF OnWire
      <3>2. /\ b \in Seq(OuterMessage) /\ Len(inbox[p]) \in Nat \ {0} /\ Len(b) = Len(inbox[p]) - 1
            /\ msg = inbox[p][1] /\ Len(toTV[p]) \in Nat
            /\ \A i \in 1..Len(b) : i + 1 \in 1..Len(inbox[p]) /\ i + 1 # 1 /\ b[i] = inbox[p][i + 1]
        BY <1>0, <2>1, ReadOne, LenProperties
      <3> HIDE DEF b, msg
      <3>3. inbox'[p] = b
        BY <1>0, <2>1 DEF WireTyped
      <3>4. \A i \in 1..Len(b) : b[i] \in Bad
        BY <3>1, <3>2
      <3>5. p \in open => Len(b) = 0
        <4>1. p \in open => Len(inbox[p]) = 1
          BY <3>1, <3>2, OnlyOne, Zenon
        <4> QED
          BY <3>2, <4>1
      <3>6. msg \in Bad \/ (msg \in Good /\ toTV[p] = <<>>)
        BY <3>1, <3>2
      <3> QED
        BY <3>2, <3>3, <3>4, <3>5, <3>6
    <2>3. reply # "none" => reply \in Request \ Secrets
      BY DEF HandleReply, Request, Secrets
    <2>4. \/ pc' = [pc EXCEPT ![p] = "done"] /\ toTV' = toTV /\ DOMAIN result' = Proc
             /\ result'[p] # "paired" /\ \A q \in Proc : q # p => result'[q] = result[q]
          \/ /\ msg \in Good /\ toTV[p] = <<>> /\ result' = result
             /\ \/ /\ reply # "none" /\ pc' = [pc EXCEPT ![p] = "exchange"]
                   /\ toTV' = IF p \in open THEN [toTV EXCEPT ![p] = Append(@, reply)] ELSE toTV
                \/ pc' = [pc EXCEPT ![p] = "code"] /\ toTV' = toTV
      <3>1. CASE HandleError(msg) # "none" /\ Return(p, HandleError(msg)) /\ UNCHANGED toTV
        BY <1>0, <3>1 DEF HandleError, WireTyped
      <3>2. CASE reply # "none" /\ p \notin open /\ Return(p, "protocol_error") /\ UNCHANGED toTV
        BY <1>0, <3>2 DEF WireTyped
      <3>3. CASE reply # "none" /\ Goto(p, "exchange") /\ Write(p, reply)
        BY <2>2, <3>3 DEF Write, HandleReply, Bad
      <3>4. CASE /\ HandleError(msg) = "none" /\ reply = "none" /\ UNCHANGED toTV
                 /\ Goto(p, IF msg = "configuration_ack" THEN "code" ELSE "exchange")
        <4>1. msg \in Good /\ toTV[p] = <<>> /\ msg = "configuration_ack"
          BY <2>2, <3>4 DEF HandleError, HandleReply, Good, Bad
        <4> QED
          BY <3>4, <4>1
      <3> QED
        BY <1>3, <3>1, <3>2, <3>3, <3>4 DEF Exchange
    <2> HIDE DEF b, msg, reply
    <2>5. CASE pc'[p] = "done"
      <3>1. WireTyped' /\ OnWire(p)'
        BY <1>0, <2>1, <2>2, <2>4, <2>5, ZenonT(60) DEF WireTyped, OnWire, PC, Before
      <3> QED
        BY <1>0, <2>1, <2>4, <2>5, <3>1, OtherWires DEF WireInv, WireTyped
    <2>6. CASE pc'[p] = "code"
      <3>1. WireTyped' /\ OnWire(p)'
        BY <1>0, <2>1, <2>2, <2>4, <2>6, ZenonT(60) DEF WireTyped, OnWire, PC, Before
      <3> QED
        BY <1>0, <2>1, <2>4, <2>6, <3>1, OtherWires DEF WireInv, WireTyped
    <2>7. CASE pc'[p] = "exchange"
      <3>1. /\ reply \in Request \ Secrets /\ toTV[p] = <<>> /\ result' = result
            /\ pc' = [pc EXCEPT ![p] = "exchange"]
            /\ toTV' = IF p \in open THEN [toTV EXCEPT ![p] = Append(@, reply)] ELSE toTV
        BY <1>0, <2>3, <2>4, <2>7 DEF WireTyped
      <3> DEFINE w == Append(<<>>, reply)
      <3>2. w \in Seq(Request) /\ Len(w) = 1 /\ w[1] = reply
        BY <3>1
      <3>3. toTV'[p] = (IF p \in open THEN w ELSE <<>>) /\ pc'[p] = "exchange"
            /\ result'[p] # "paired" /\ \A q \in Proc : q # p => toTV'[q] = toTV[q]
        BY <1>0, <2>1, <3>1 DEF WireTyped, OnWire
      <3>4. WireTyped'
        BY <1>0, <2>1, <2>2, <3>1, <3>2 DEF WireTyped, PC
      <3> HIDE DEF w
      <3>5. OnWire(p)'
        <4>1. inbox'[p] = b /\ open' = open
          BY <2>1, <2>2
        <4>2. \A i \in 1..Len(toTV'[p]) : toTV'[p][i] \notin Secrets
          BY <3>1, <3>2, <3>3
        <4>3. \A i \in 1..Len(inbox'[p]) : inbox'[p][i] \in Bad
          BY <2>2, <4>1
        <4>4. p \in open' => Len(toTV'[p]) + Len(inbox'[p]) <= 1
          <5> SUFFICES ASSUME p \in open' PROVE Len(toTV'[p]) + Len(inbox'[p]) <= 1
            OBVIOUS
          <5>1. Len(toTV'[p]) = 1 /\ Len(inbox'[p]) = 0
            BY <2>2, <3>2, <3>3, <4>1, Zenon
          <5> QED
            BY <5>1
        <4> QED
          BY <3>3, <4>2, <4>3, <4>4 DEF OnWire, Before
      <3> QED
        BY <1>0, <2>1, <3>1, <3>3, <3>4, <3>5, OtherWires DEF WireInv, WireTyped
    <2> QED
      BY <1>0, <2>4, <2>5, <2>6, <2>7 DEF WireTyped
  <1>4. CASE SendSecret(p)
    <2>1. PICK m \in Secrets : Write(p, m)
      BY <1>4 DEF SendSecret, Secrets
    <2>2. /\ pc[p] = "code" /\ pc' = [pc EXCEPT ![p] = "ack"]
          /\ UNCHANGED <<mine, result, open, inbox, trusted>>
      BY <1>4 DEF SendSecret
    <2>3. toTV[p] = <<>> /\ m \in Request
      BY <1>0, <2>2 DEF OnWire, Secrets, Request
    <2> DEFINE w == Append(<<>>, m)
    <2>4. w \in Seq(Request) /\ Len(w) = 1 /\ w[1] = m
      BY <2>3
    <2>5. /\ toTV' = IF p \in open THEN [toTV EXCEPT ![p] = Append(@, m)] ELSE toTV
          /\ toTV'[p] = (IF p \in open THEN w ELSE <<>>)
          /\ \A q \in Proc : q # p => toTV'[q] = toTV[q]
      BY <1>0, <2>1, <2>3 DEF Write, WireTyped
    <2>6. WireTyped'
      BY <1>0, <2>2, <2>3, <2>4, <2>5 DEF WireTyped, PC
    <2> HIDE DEF w
    <2>7. OnWire(p)'
      <3>1. pc'[p] = "ack" /\ inbox'[p] = inbox[p] /\ result'[p] = result[p]
        BY <1>0, <2>2 DEF WireTyped
      <3>2. \A i \in 1..Len(inbox[p]) : inbox[p][i] \in Bad
        BY <1>0, <2>2 DEF OnWire
      <3>3. result[p] # "paired"
        BY <1>0, <2>2 DEF OnWire
      <3>4. \A i \in 1..Len(toTV'[p]) : toTV'[p][i] \in Secrets
        <4>1. CASE p \in open
          BY <2>4, <2>5, <4>1
        <4>2. CASE p \notin open
          BY <2>5, <4>2
        <4> QED
          BY <4>1, <4>2
      <3> QED
        BY <3>1, <3>2, <3>3, <3>4 DEF OnWire, Before
    <2> QED
      BY <1>0, <2>2, <2>5, <2>6, <2>7, OtherWires DEF WireInv, WireTyped
  <1>5. CASE ReadAck(p)
    <2>1. /\ pc[p] = "ack" /\ inbox[p] # <<>> /\ inbox' = [inbox EXCEPT ![p] = Tail(@)]
          /\ pc' = [pc EXCEPT ![p] = "done"] /\ UNCHANGED <<mine, open, toTV, trusted>>
          /\ DOMAIN result' = Proc /\ \A q \in Proc : q # p => result'[q] = result[q]
      BY <1>0, <1>5 DEF ReadAck, Read, WireTyped
    <2>2. Tail(inbox[p]) \in Seq(OuterMessage)
          /\ (Head(inbox[p]) \in Bad \/ mine[p] \in trusted)
      <3>1. 1 \in 1..Len(inbox[p]) /\ Head(inbox[p]) = inbox[p][1]
        BY <1>0, <2>1, ReadOne
      <3> QED
        BY <1>0, <2>1, <3>1, ReadOne DEF OnWire
    <2>3. result'[p] = "paired" => Head(inbox[p]) \notin Bad
      BY <1>0, <1>5 DEF ReadAck, HandleError, Bad, WireTyped
    <2>4. WireTyped' /\ OnWire(p)'
      BY <1>0, <2>1, <2>2, <2>3 DEF WireTyped, OnWire, PC, Before
    <2> QED
      BY <1>0, <2>1, <2>4, OtherWires DEF WireInv, WireTyped
  <1>6. CASE ConnectFail(p) \/ ExchangeError(p) \/ RejectCode(p) \/ SendSecretFail(p)
             \/ ReadAckError(p) \/ Crash(p)
    <2>1. /\ UNCHANGED <<mine, toTV, inbox, open, trusted>>
          /\ pc' = [pc EXCEPT ![p] = "done"] \/ pc' = [pc EXCEPT ![p] = "crashed"]
          /\ DOMAIN result' = Proc /\ \A q \in Proc : q # p => result'[q] = result[q]
          /\ result'[p] = "paired" => pc[p] = "done"
      BY <1>0, <1>6 DEF ConnectFail, ExchangeError, RejectCode, SendSecretFail, ReadAckError, Crash,
                        wire, WireTyped, OnWire
    <2>2. pc[p] # "done"
      BY <1>6 DEF ConnectFail, ExchangeError, RejectCode, SendSecretFail, ReadAckError, Crash
    <2>3. WireTyped' /\ OnWire(p)'
      BY <1>0, <2>1, <2>2, ZenonT(60) DEF WireTyped, OnWire, PC, Before
    <2> QED
      BY <1>0, <2>1, <2>3, OtherWires DEF WireInv, WireTyped
  <1> QED
    BY <1>1, <1>2, <1>3, <1>4, <1>5, <1>6 DEF PairStep

LEMMA TVWire ==
    ASSUME WireInv, NEW p \in Proc \ Insistent, TVStep(p)
    PROVE  WireInv'
  <1>0. /\ OnWire(p) /\ WireTyped
        /\ toTV[p] \in Seq(Request) /\ inbox[p] \in Seq(OuterMessage)
    BY DEF WireInv, WireTyped
  <1>1. CASE TVAnswer(p)
    <2> DEFINE m == Head(toTV[p])
               answer == IF m = "pairing_request" THEN "pairing_request_ack"
                         ELSE IF m = "options" THEN "options"
                         ELSE IF m = "configuration" THEN "configuration_ack"
                         ELSE IF m = "right_secret" THEN "secret_ack" ELSE "fault"
    <2>1. /\ p \in open /\ toTV[p] # <<>> /\ UNCHANGED <<pc, mine, result, open>>
          /\ inbox' = [inbox EXCEPT ![p] = Append(@, answer)]
          /\ toTV' = [toTV EXCEPT ![p] = Tail(@)]
          /\ trusted' = IF m = "right_secret" THEN trusted \cup {mine[p]} ELSE trusted
      BY <1>1 DEF TVAnswer
    <2>2. /\ m \in Request /\ m = toTV[p][1] /\ 1 \in 1..Len(toTV[p])
          /\ Tail(toTV[p]) \in Seq(Request)
          /\ \A i \in 1..Len(Tail(toTV[p])) :
                 i + 1 \in 1..Len(toTV[p]) /\ Tail(toTV[p])[i] = toTV[p][i + 1]
      BY <1>0, <2>1, ReadOne
    <2>3. /\ answer \in OuterMessage
          /\ m \notin Secrets => answer \in Good
          /\ m = "right_secret" => answer = "secret_ack"
          /\ m = "wrong_secret" => answer = "fault"
      BY <2>2 DEF OuterMessage, Secrets, Good, Request
    <2> HIDE DEF m, answer
    <2>4. /\ Append(inbox[p], answer) \in Seq(OuterMessage)
          /\ \A i \in 1..Len(Append(inbox[p], answer)) :
                 \/ i \in 1..Len(inbox[p]) /\ Append(inbox[p], answer)[i] = inbox[p][i]
                 \/ i = Len(inbox[p]) + 1 /\ Append(inbox[p], answer)[i] = answer
          /\ Len(Append(inbox[p], answer)) = Len(inbox[p]) + 1
      BY <1>0, <2>3, WriteOne
    <2>5. WireTyped'
      BY <1>0, <2>1, <2>2, <2>4 DEF WireTyped
    <2>6. inbox'[p] = Append(inbox[p], answer) /\ toTV'[p] = Tail(toTV[p])
      BY <1>0, <2>1 DEF WireTyped
    <2>7. OnWire(p)'
      <3>1. CASE pc[p] = "exchange"
        <4>1. Len(inbox[p]) = 0 /\ Len(toTV[p]) = 1 /\ m \notin Secrets
          <5>1. Len(toTV[p]) \in Nat \ {0} /\ Len(inbox[p]) \in Nat
            BY <1>0, <2>1, ReadOne, LenProperties
          <5>2. Len(toTV[p]) + Len(inbox[p]) <= 1 /\ \A i \in 1..Len(toTV[p]) : toTV[p][i] \notin Secrets
            BY <1>0, <2>1, <3>1 DEF OnWire
          <5>3. Len(inbox[p]) = 0 /\ Len(toTV[p]) = 1
            BY <5>1, <5>2, OnlyOne, Zenon
          <5> QED
            BY <2>2, <5>2, <5>3, Zenon
        <4>2. Len(Tail(toTV[p])) = 0
          BY <1>0, <2>1, <4>1, ReadOne
        <4>3. Tail(toTV[p]) = <<>>
          BY <2>2, <4>2, EmptySeq
        <4>4. /\ \A i \in 1..Len(inbox'[p]) : i = 1 /\ inbox'[p][i] \in Good
              /\ Len(inbox'[p]) = 1
          BY <2>3, <2>4, <2>6, <4>1
        <4>5. toTV'[p] = <<>> /\ Len(toTV'[p]) = 0
          BY <2>6, <4>2, <4>3
        <4>6. result'[p] # "paired" /\ pc'[p] = "exchange"
          BY <1>0, <2>1, <3>1 DEF OnWire
        <4>7. Len(toTV'[p]) + Len(inbox'[p]) <= 1 /\ \A i \in 1..Len(toTV'[p]) : FALSE
          BY <4>4, <4>5
        <4> QED
          BY <4>4, <4>5, <4>6, <4>7 DEF OnWire, Before
      <3>2. CASE pc[p] = "ack"
        <4>1. m \in Secrets
          BY <1>0, <2>2, <3>2 DEF OnWire
        <4>2. answer \in Bad \/ (answer = "secret_ack" /\ mine[p] \in trusted')
          BY <2>1, <2>3, <4>1 DEF Secrets, Bad
        <4>3. \A i \in 1..Len(toTV'[p]) : toTV'[p][i] \in Secrets
          BY <1>0, <2>2, <2>6, <3>2 DEF OnWire
        <4>4. \A i \in 1..Len(inbox'[p]) :
                 inbox'[p][i] \in Bad \/ (inbox'[p][i] = "secret_ack" /\ mine[p] \in trusted')
          BY <1>0, <2>1, <2>4, <2>6, <3>2, <4>2 DEF OnWire
        <4> QED
          BY <1>0, <2>1, <3>2, <4>3, <4>4 DEF OnWire, Before
      <3>3. CASE pc[p] \notin {"exchange", "ack"}
        BY <1>0, <2>1, <3>3 DEF OnWire
      <3> QED
        BY <3>1, <3>2, <3>3
    <2> QED
      BY <1>0, <2>1, <2>5, <2>7, OtherWires DEF WireInv, WireTyped
  <1>2. CASE TVRefuse(p)
    <2>1. PICK e \in Bad : inbox' = [inbox EXCEPT ![p] = Append(@, e)]
      BY <1>2 DEF TVRefuse, Bad
    <2>2. /\ p \in open /\ open' = open \ {p} /\ UNCHANGED <<pc, mine, result, toTV, trusted>>
      BY <1>2 DEF TVRefuse
    <2>3. e \in OuterMessage
      BY DEF Bad, OuterMessage
    <2>4. /\ Append(inbox[p], e) \in Seq(OuterMessage) /\ inbox'[p] = Append(inbox[p], e)
          /\ \A i \in 1..Len(Append(inbox[p], e)) :
                 \/ i \in 1..Len(inbox[p]) /\ Append(inbox[p], e)[i] = inbox[p][i]
                 \/ i = Len(inbox[p]) + 1 /\ Append(inbox[p], e)[i] = e
      BY <1>0, <2>1, <2>3, WriteOne DEF WireTyped
    <2>5. WireTyped'
      BY <1>0, <2>1, <2>2, <2>4 DEF WireTyped
    <2>6. OnWire(p)'
      BY <1>0, <2>2, <2>4 DEF OnWire
    <2> QED
      BY <1>0, <2>1, <2>2, <2>5, <2>6, OtherWires DEF WireInv, WireTyped
  <1>3. CASE TVClose(p)
    <2>1. open' = open \ {p} /\ UNCHANGED <<pc, mine, result, toTV, inbox, trusted>>
      BY <1>3 DEF TVClose
    <2>2. WireTyped'
      BY <1>0, <2>1 DEF WireTyped
    <2>3. OnWire(p)'
      BY <1>0, <2>1 DEF OnWire
    <2>4. \A q \in Proc \ Insistent : q # p => OnWire(q)'
      BY <2>1, OtherWires
    <2> QED
      BY <2>2, <2>3, <2>4 DEF WireInv
  <1>4. ~TVRepeat(p)
    BY DEF TVRepeat
  <1> QED
    BY <1>1, <1>2, <1>3, <1>4 DEF TVStep

\* On the other connections anything may happen.
LEMMA InsistentWire ==
    ASSUME WireInv, TypeOK, TypeOK', NEW p \in Insistent, PairStep(p) \/ Crash(p) \/ TVStep(p)
    PROVE  WireInv'
  <1>1. p \in Proc
    BY FaultsAssumption
  <1>2. WireTyped'
    BY DEF TypeOK, WireTyped
  <1>3. ASSUME NEW q \in Proc \ Insistent PROVE OnWire(q)'
    <2>1. q # p
      OBVIOUS
    <2>2. /\ toTV'[q] = toTV[q] /\ inbox'[q] = inbox[q] /\ pc'[q] = pc[q] /\ mine'[q] = mine[q]
          /\ result'[q] = result[q] /\ (q \in open' <=> q \in open) /\ trusted \subseteq trusted'
      <3> USE <2>1 DEF Goto, Return, TypeOK
      <3>1. CASE StoreStep(p) /\ UNCHANGED <<wire, trusted>>
        BY <3>1 DEF StoreStep, EnsureIdentity, CreateCert, WriteCert, CreateKey, WriteKey,
                    LoadCert, LoadKey, StoreFail, wire
      <3>2. CASE Connect(p) \/ ConnectFail(p) \/ ExchangeError(p)
        BY <3>2 DEF Connect, ConnectFail, ExchangeError, wire
      <3>3. CASE Exchange(p)
        BY <3>3 DEF Exchange, Read, Write
      <3>4. CASE SendSecret(p) \/ RejectCode(p) \/ SendSecretFail(p)
        BY <3>4 DEF SendSecret, RejectCode, SendSecretFail, Write, wire
      <3>5. CASE ReadAck(p) \/ ReadAckError(p) \/ Crash(p)
        BY <3>5 DEF ReadAck, ReadAckError, Crash, Read, wire
      <3>6. CASE TVStep(p)
        BY <3>6 DEF TVStep, TVAnswer, TVRefuse, TVRepeat, TVClose
      <3> QED
        BY <3>1, <3>2, <3>3, <3>4, <3>5, <3>6 DEF PairStep
    <2> QED
      BY <1>1, <2>1, <2>2, OtherWires
  <1> QED
    BY <1>2, <1>3 DEF WireInv

LEMMA WireInvariant == Spec => []WireInv
  <1>1. Init => WireInv
    BY EmptySeq DEF Init, StoreInit, WireInv, WireTyped, OnWire, PC, Resting, Before
  <1>2. WireInv /\ TypeOK /\ TypeOK' /\ [Next]_vars => WireInv'
    <2>1. ASSUME WireInv, UNCHANGED vars PROVE WireInv'
      BY <2>1 DEF vars, wire, WireInv, WireTyped, OnWire
    <2> QED
      BY <2>1, ClientWire, TVWire, InsistentWire DEF Next
  <1> QED
    BY <1>1, <1>2, PairingTypes, PTL DEF Spec

\* paired:true is only printed when the TV has accepted the certificate of that
\* run, however many runs overlap, crash and are refused, and whatever the TV
\* repeats to the others.
THEOREM PairedMeansTrusted == Spec => []PairedIsTrusted
  <1>1. WireInv => PairedIsTrusted
    BY DEF WireInv, OnWire, PairedIsTrusted
  <1> QED
    BY <1>1, WireInvariant, PTL

----------------------------------------------------------------------------
(* Runs that do not overlap keep the promise of Enrollment.                 *)

Usable == cert \in Proc /\ key = cert

\* What is on its way to the TV is said on behalf of the stored identity; and a
\* run reports once.
Offered ==
    /\ \A p \in Proc : toTV[p] # <<>> => Usable /\ mine[p] = cert
    /\ \A p \in Proc : Active(p) \/ pc[p] = "idle" => result[p] = "none"

\* What one step of a run or of its connection does to the files, in the terms of
\* the abstract specification: nothing, or the last write of a new identity.
LEMMA StoreSteps ==
    ASSUME StoreInv, ~Concurrent, NEW p \in Proc, StoreStep(p)
    PROVE  /\ Usable => cert' = cert /\ key' = key
           /\ Usable' => Usable \/ (WriteKey(p) /\ cert' \in Proc)
           /\ mine' = mine \/ mine' = [mine EXCEPT ![p] = cert]
           /\ pc[p] # "crashed" /\ pc[p] # "done"
           /\ \/ result' = result /\ pc' # pc /\ \E l \in PC : pc' = [pc EXCEPT ![p] = l]
              \/ /\ pc' = [pc EXCEPT ![p] = "done"] /\ cert' = cert /\ key' = key
                 /\ \E e \in {"not_paired", "config_io"} : result' = [result EXCEPT ![p] = e]
  <1>1. /\ OnDisk(p) /\ KeyFollowsCert /\ StoreTyped
    BY DEF StoreInv
  <1> USE StoreAssumption DEF Usable, Goto, Return, Resting, store
  <1>2. CASE EnsureIdentity(p)
    BY <1>1, <1>2 DEF EnsureIdentity, StoreTyped, PC
  <1>3. CASE CreateCert(p)
    BY <1>1, <1>3 DEF CreateCert, StoreTyped, PC, OnDisk
  <1>4. CASE WriteCert(p)
    BY <1>1, <1>4 DEF WriteCert, StoreTyped, PC, OnDisk
  <1>5. CASE CreateKey(p)
    BY <1>1, <1>5 DEF CreateKey, StoreTyped, PC, OnDisk
  <1>6. CASE WriteKey(p)
    BY <1>1, <1>6 DEF WriteKey, StoreTyped, PC, OnDisk
  <1>7. CASE LoadCert(p)
    BY <1>1, <1>7 DEF LoadCert, StoreTyped, PC
  <1>8. CASE LoadKey(p)
    BY <1>1, <1>8 DEF LoadKey, LoadError, StoreTyped, PC
  <1>9. CASE StoreFail(p)
    BY <1>1, <1>9 DEF StoreFail
  <1> QED
    BY <1>2, <1>3, <1>4, <1>5, <1>6, <1>7, <1>8, <1>9 DEF StoreStep

Errors == {"unreachable", "not_paired", "pairing_failed", "protocol_error", "config_io"}

\* After the store: a run or its TV goes on, the run fails, it has paired, or the TV
\* accepts the certificate that the run presented.
LEMMA ExchangeSteps ==
    ASSUME TypeOK, NEW p \in Proc,
           \/ Connect(p) \/ ConnectFail(p) \/ Exchange(p) \/ ExchangeError(p)
           \/ SendSecret(p) \/ RejectCode(p) \/ SendSecretFail(p)
           \/ ReadAck(p) \/ ReadAckError(p) \/ Crash(p) \/ TVStep(p)
    PROVE  /\ UNCHANGED <<cert, key, mine>>
           /\ \A q \in Proc : toTV'[q] # <<>> => toTV[q] # <<>> \/ pc[q] \in Loaded
           /\ \/ /\ UNCHANGED <<result, trusted>>
                 /\ \/ pc' = pc
                    \/ Active(p) /\ \E l \in PC : pc' = [pc EXCEPT ![p] = l]
              \/ /\ Active(p) /\ pc' = [pc EXCEPT ![p] = "done"] /\ trusted' = trusted
                 /\ \E e \in Errors : result' = [result EXCEPT ![p] = e]
              \/ /\ pc[p] = "ack" /\ pc' = [pc EXCEPT ![p] = "done"] /\ trusted' = trusted
                 /\ result' = [result EXCEPT ![p] = "paired"]
              \/ /\ toTV[p] # <<>> /\ UNCHANGED <<pc, result>>
                 /\ trusted' = trusted \cup {mine[p]}
  <1> USE DEF Goto, Return, Resting, store, wire, Active, Errors, PC
  <1>1. CASE Connect(p)
    BY <1>1 DEF Connect, TypeOK, Loaded
  <1>2. CASE Exchange(p)
    BY <1>2 DEF Exchange, Write, HandleError, TypeOK, Loaded
  <1>3. CASE SendSecret(p)
    BY <1>3 DEF SendSecret, Write, TypeOK, Loaded
  <1>4. CASE ConnectFail(p) \/ ExchangeError(p) \/ RejectCode(p) \/ SendSecretFail(p)
             \/ ReadAckError(p) \/ Crash(p)
    BY <1>4 DEF ConnectFail, ExchangeError, RejectCode, SendSecretFail, ReadAckError, Crash
  <1>5. CASE ReadAck(p)
    BY <1>5 DEF ReadAck, HandleError
  <1>6. CASE TVAnswer(p)
    BY <1>6 DEF TVAnswer, TypeOK
  <1>7. CASE TVRefuse(p) \/ TVRepeat(p) \/ TVClose(p)
    BY <1>7 DEF TVRefuse, TVRepeat, TVClose, TypeOK
  <1> QED
    BY <1>1, <1>2, <1>3, <1>4, <1>5, <1>6, <1>7 DEF TVStep

LEMMA OfferedStep ==
    ASSUME StoreInv, Offered, TypeOK, ~Concurrent, [Next]_vars
    PROVE  Offered'
  <1>1. ASSUME NEW p \in Proc, StoreStep(p), UNCHANGED <<wire, trusted>> PROVE Offered'
    <2>1. toTV' = toTV
      BY <1>1 DEF wire
    <2>2. ASSUME NEW q \in Proc, toTV[q] # <<>> PROVE Usable' /\ mine'[q] = cert'
      <3>1. Usable /\ mine[q] = cert
        BY <2>2 DEF Offered
      <3>2. cert' = cert /\ key' = key
        BY <1>1, <3>1, StoreSteps
      <3>3. mine'[q] = cert
        BY <1>1, <3>1, StoreSteps DEF TypeOK
      <3> QED
        BY <3>1, <3>2, <3>3 DEF Usable
    <2>3. ASSUME NEW q \in Proc, Active(q)' \/ pc'[q] = "idle" PROVE result'[q] = "none"
      BY <1>1, <2>3, StoreSteps DEF Offered, Active, Resting, TypeOK
    <2> QED
      BY <2>1, <2>2, <2>3 DEF Offered
  <1>2. ASSUME NEW p \in Proc,
               \/ Connect(p) \/ ConnectFail(p) \/ Exchange(p) \/ ExchangeError(p)
               \/ SendSecret(p) \/ RejectCode(p) \/ SendSecretFail(p)
               \/ ReadAck(p) \/ ReadAckError(p) \/ Crash(p) \/ TVStep(p)
        PROVE  Offered'
    <2>1. ASSUME NEW q \in Proc, toTV'[q] # <<>> PROVE Usable' /\ mine'[q] = cert'
      <3>1. toTV[q] # <<>> \/ pc[q] \in Loaded
        BY <1>2, <2>1, ExchangeSteps
      <3>2. Usable /\ mine[q] = cert
        BY <3>1 DEF Offered, StoreInv, OnDisk, Usable
      <3> QED
        BY <1>2, <3>2, ExchangeSteps DEF Usable
    <2>2. ASSUME NEW q \in Proc, Active(q)' \/ pc'[q] = "idle" PROVE result'[q] = "none"
      BY <1>2, <2>2, ExchangeSteps, ZenonT(60) DEF Offered, Active, Resting, TypeOK
    <2> QED
      BY <2>1, <2>2 DEF Offered
  <1>3. CASE UNCHANGED vars
    BY <1>3 DEF Offered, Usable, Active, vars, wire
  <1> QED
    BY <1>1, <1>2, <1>3 DEF Next, PairStep

LEMMA StoredIs ==
    ASSUME cert \in File, key \in File
    PROVE  StoredIdentity = IF Usable THEN cert ELSE "absent"
  BY StoreAssumption DEF StoredIdentity, LoadError, Usable, File

\* The report of one run changes when its result does.
LEMMA Reports ==
    ASSUME TypeOK, NEW p \in Proc, NEW e \in Errors \cup {"paired"},
           result' = [result EXCEPT ![p] = e]
    PROVE  [q \in Proc |-> ReportOf(q)]' =
               [[q \in Proc |-> ReportOf(q)] EXCEPT
                   ![p] = IF e = "paired" THEN "paired" ELSE "failed"]
  BY DEF TypeOK, ReportOf, Errors

\* The steps of runs that do not overlap are steps of the abstract specification:
\* the last write of a new identity generates it, the answer to the right secret
\* accepts it, and a run that ends succeeds or fails.
LEMMA EnrollStep ==
    ASSUME StoreInv, Offered, TypeOK, TypeOK', WireInv', ~Concurrent, [Next]_vars
    PROVE  Promise!Next \/ UNCHANGED Promise!vars
  <1> DEFINE report == [q \in Proc |-> ReportOf(q)]
  <1> USE StoreAssumption
  <1>0. /\ StoredIdentity = IF Usable THEN cert ELSE "absent"
        /\ StoredIdentity' = IF Usable' THEN cert' ELSE "absent"
    <2>1. cert \in File /\ key \in File /\ cert' \in File /\ key' \in File
      BY DEF TypeOK
    <2>2. StoredIdentity' = IF Usable' THEN cert' ELSE "absent"
      BY <2>1 DEF StoredIdentity, LoadError, Usable, File
    <2> QED
      BY <2>1, <2>2, StoredIs
  <1>1. result' = result => report' = report
    BY DEF ReportOf
  <1>2. ASSUME cert' = cert, key' = key PROVE StoredIdentity' = StoredIdentity
    BY <1>2 DEF StoredIdentity
  <1>3. ASSUME NEW p \in Proc, NEW e \in Errors, result' = [result EXCEPT ![p] = e],
               cert' = cert, key' = key, trusted' = trusted, Active(p) \/ pc[p] = "idle"
        PROVE  Promise!Next
    <2>1. report' = [report EXCEPT ![p] = "failed"]
      BY <1>3, Reports DEF Errors
    <2>2. report[p] = "none"
      BY <1>3 DEF Offered, ReportOf
    <2> QED
      BY <1>2, <1>3, <2>1, <2>2 DEF Promise!Next, Promise!Fail
  <1>4. ASSUME NEW p \in Proc, StoreStep(p), UNCHANGED <<wire, trusted>>
        PROVE  Promise!Next \/ UNCHANGED Promise!vars
    <2>1. CASE result' # result
      BY <1>3, <1>4, <2>1, StoreSteps DEF Active, Resting, Errors, StoreInv, StoreTyped
    <2>2. CASE result' = result /\ (Usable' => Usable)
      <3>1. StoredIdentity' = StoredIdentity
        BY <1>0, <1>4, <2>2, StoreSteps DEF Usable
      <3> QED
        BY <1>1, <1>4, <2>2, <3>1 DEF Promise!vars
    <2>3. CASE result' = result /\ Usable' /\ ~Usable
      <3>1. cert' \in Proc
        BY <1>4, <2>3, StoreSteps
      <3> QED
        BY <1>0, <1>1, <1>4, <2>3, <3>1 DEF Promise!Next, Promise!Generate
    <2> QED
      BY <2>1, <2>2, <2>3
  <1>5. ASSUME NEW p \in Proc,
               \/ Connect(p) \/ ConnectFail(p) \/ Exchange(p) \/ ExchangeError(p)
               \/ SendSecret(p) \/ RejectCode(p) \/ SendSecretFail(p)
               \/ ReadAck(p) \/ ReadAckError(p) \/ Crash(p) \/ TVStep(p)
        PROVE  Promise!Next \/ UNCHANGED Promise!vars
    <2>1. UNCHANGED <<cert, key, mine>>
      BY <1>5, ExchangeSteps
    <2>2. CASE UNCHANGED <<result, trusted>>
      BY <1>1, <1>2, <2>1, <2>2 DEF Promise!vars
    <2>3. CASE /\ Active(p) /\ trusted' = trusted
               /\ \E e \in Errors : result' = [result EXCEPT ![p] = e]
      BY <1>3, <2>1, <2>3
    <2>4. CASE /\ pc[p] = "ack" /\ pc' = [pc EXCEPT ![p] = "done"] /\ trusted' = trusted
               /\ result' = [result EXCEPT ![p] = "paired"]
      <3>1. report' = [report EXCEPT ![p] = "paired"]
        BY <2>4, Reports
      <3>2. report[p] = "none"
        BY <2>4 DEF Offered, ReportOf, Active, Resting
      <3>3. cert \in Proc /\ StoredIdentity = cert /\ mine[p] = cert
        BY <1>0, <2>4 DEF StoreInv, OnDisk, Loaded, Usable
      <3>4. p \in Insistent \/ cert \in trusted
        <4>1. result'[p] = "paired"
          BY <2>4 DEF TypeOK
        <4>2. p \in Insistent \/ mine'[p] \in trusted'
          BY <4>1 DEF WireInv, OnWire
        <4> QED
          BY <2>1, <2>4, <3>3, <4>2
      <3>5. StoredIdentity # "absent" /\ (p \in Insistent \/ StoredIdentity \in trusted)
        BY <3>3, <3>4
      <3>6. StoredIdentity' = StoredIdentity
        BY <1>2, <2>1
      <3> QED
        BY <2>4, <3>1, <3>2, <3>5, <3>6 DEF Promise!Next, Promise!Succeed
    <2>5. CASE /\ toTV[p] # <<>> /\ UNCHANGED <<pc, result>>
               /\ trusted' = trusted \cup {mine[p]}
      <3>1. Usable /\ mine[p] = cert
        BY <2>5 DEF Offered
      <3>2. StoredIdentity = cert /\ StoredIdentity # "absent"
        BY <1>0, <3>1 DEF Usable
      <3> QED
        BY <1>1, <1>2, <2>1, <2>5, <3>1, <3>2 DEF Promise!Next, Promise!Accept
    <2> QED
      BY <1>5, <2>2, <2>3, <2>4, <2>5, ExchangeSteps
  <1>6. CASE UNCHANGED vars
    <2>1. UNCHANGED <<cert, key, result, trusted>>
      BY <1>6 DEF vars
    <2> QED
      BY <1>1, <1>2, <2>1 DEF Promise!vars
  <1> QED
    BY <1>4, <1>5, <1>6 DEF Next, PairStep

\* What a user may rely on however runs crash and fail, as long as they do not
\* overlap: one identity, never replaced once it is usable; the TV accepts no
\* other; and paired:true means that it has.
THEOREM RunsKeepTheIdentity ==
    ASSUME ~Concurrent
    PROVE  Spec => KeepsIdentity
  <1>1. Init => Promise!Init
    <2> SUFFICES ASSUME Init PROVE Promise!Init
      OBVIOUS
    <2>1. StoredIdentity = "absent"
      BY DEF Init, StoreInit, StoredIdentity, LoadError
    <2>2. [p \in Proc |-> ReportOf(p)] = [p \in Proc |-> "none"]
      BY DEF Init, StoreInit, ReportOf
    <2> QED
      BY <2>1, <2>2 DEF Init, Promise!Init
  <1>2. Init => Offered
    BY DEF Init, StoreInit, Offered
  <1>3. SequentialInv => StoreInv
    BY DEF SequentialInv
  <1>4. StoreInv /\ Offered /\ TypeOK /\ [Next]_vars => Offered'
    BY OfferedStep
  <1>5. /\ StoreInv /\ Offered /\ TypeOK /\ TypeOK' /\ WireInv' /\ [Next]_vars
        => [Promise!Next]_(Promise!vars)
    BY EnrollStep
  <1> QED
    BY <1>1, <1>2, <1>3, <1>4, <1>5, StoreInvariant, WireInvariant, PairingTypes, PTL
       DEF Spec, KeepsIdentity, Promise!Spec
==============================================================================
