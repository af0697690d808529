------------------------------- MODULE Pairing -------------------------------
(***************************************************************************)
(* Invocations of `atv pair` (src/pairing.rs) on one credential directory, *)
(* one after the other or at once, each with a connection of its own to    *)
(* the TV and a user who reads the code off the screen.  The TV is         *)
(* modelled from the exchange that the code drives.  The digest is taken   *)
(* to be free of collisions; the checksum byte of a code is not.           *)
(***************************************************************************)
EXTENDS CredentialStore, Sequences

CONSTANTS
    Faults,             \* may connections fail, and the TV refuse or close?
    Insistent,          \* the connections on which the TV may say a thing twice
    MaxWaiting          \* bound: messages under way when it does

ASSUME FaultsAssumption ==
    Faults \in BOOLEAN /\ Insistent \subseteq Proc /\ MaxWaiting \in Nat

VARIABLES
    open,               \* the connections the TV has not closed
    toTV,               \* messages on their way to the TV, per connection
    inbox,              \* messages on their way to the client
    trusted             \* the certificates the TV accepts

wire == <<open, toTV, inbox>>
vars == <<cert, key, pc, mine, result, wire, trusted>>

PC == Resting \cup {"create", "cert_write", "key_open", "key_write", "load", "load_key",
                    "connect", "exchange", "code", "ack"}

\* A message by its status and the field that handle finds: "fault" has a
\* status other than OK, "other" has none of the fields it looks at.
OuterMessage == {"pairing_request_ack", "options", "configuration_ack", "secret_ack",
                 "fault", "other"}

\* What the client writes; a secret is right or not for the code on the screen.
Request == {"pairing_request", "options", "configuration", "right_secret", "wrong_secret"}

TypeOK ==
    /\ cert \in File /\ key \in File
    /\ pc \in [Proc -> PC]
    /\ mine \in [Proc -> File]
    /\ result \in [Proc -> {"none", "paired", "unreachable", "not_paired",
                            "pairing_failed", "protocol_error", "config_io"}]
    /\ open \subseteq Proc
    /\ toTV \in [Proc -> Seq(Request)]
    /\ inbox \in [Proc -> Seq(OuterMessage)]
    /\ trusted \subseteq File

Init ==
    /\ StoreInit
    /\ open = {} /\ trusted = {}
    /\ toTV = [p \in Proc |-> <<>>] /\ inbox = [p \in Proc |-> <<>>]

----------------------------------------------------------------------------
(* PairingFlow.                                                             *)

\* Mutant: a status other than OK is reported as a rejected certificate.
HandleError_Auth(msg) ==
    IF msg = "fault" THEN "auth_rejected"
    ELSE IF msg = "other" THEN "protocol_error" ELSE "none"

\* PairingFlow::handle: the error, or else the reply ("none": no reply).
HandleError(msg) ==
    IF msg = "fault" THEN "pairing_failed"
    ELSE IF msg = "other" THEN "protocol_error" ELSE "none"

HandleReply(msg) ==
    IF msg = "pairing_request_ack" THEN "options"
    ELSE IF msg = "options" THEN "configuration" ELSE "none"

----------------------------------------------------------------------------
(* pair, after the store.                                                   *)

\* A write to a connection the TV has closed is lost.
Write(p, m) == toTV' = IF p \in open THEN [toTV EXCEPT ![p] = Append(@, m)] ELSE toTV

Read(p) == inbox' = [inbox EXCEPT ![p] = Tail(@)]

\* connect and the initial message.
Connect(p) ==
    /\ pc[p] = "connect"
    /\ Goto(p, "exchange")
    /\ open' = open \cup {p}
    /\ toTV' = [toTV EXCEPT ![p] = <<"pairing_request">>]
    /\ UNCHANGED <<store, mine, inbox, trusted>>

ConnectFail(p) ==
    /\ pc[p] = "connect" /\ Faults
    /\ Return(p, "unreachable")
    /\ UNCHANGED <<store, mine, wire, trusted>>

\* One turn of the loop until the TV shows the code.
Exchange(p) ==
    /\ pc[p] = "exchange" /\ inbox[p] # <<>>
    /\ LET msg == Head(inbox[p])
       IN  \/ /\ HandleError(msg) # "none"
              /\ Return(p, HandleError(msg)) /\ UNCHANGED toTV
           \/ /\ HandleReply(msg) # "none"
              /\ Goto(p, "exchange") /\ Write(p, HandleReply(msg))
           \/ /\ HandleReply(msg) # "none" /\ p \notin open
              /\ Return(p, "protocol_error") /\ UNCHANGED toTV
           \/ /\ HandleError(msg) = "none" /\ HandleReply(msg) = "none"
              /\ Goto(p, IF msg = "configuration_ack" THEN "code" ELSE "exchange")
              /\ UNCHANGED toTV
    /\ Read(p)
    /\ UNCHANGED <<store, mine, open, trusted>>

\* Mutant: the reads have no timeout.
ExchangeError_NoTimeout(p) ==
    /\ pc[p] = "exchange" /\ inbox[p] = <<>>
    /\ p \notin open
    /\ Return(p, "protocol_error")
    /\ UNCHANGED <<store, mine, wire, trusted>>

\* A read fails: the TV has closed, or says nothing for ten seconds.
ExchangeError(p) ==
    /\ pc[p] = "exchange" /\ inbox[p] = <<>>
    /\ p \notin open \/ Faults
    /\ Return(p, "protocol_error")
    /\ UNCHANGED <<store, mine, wire, trusted>>

\* Mutant: the digest is sent whatever its checksum byte, and nobody waits for
\* the answer.
SendSecret_NoAck(p) ==
    /\ pc[p] = "code"
    /\ \E code \in {"right_secret", "wrong_secret"} : Write(p, code)
    /\ Return(p, "paired")
    /\ UNCHANGED <<store, mine, open, inbox, trusted>>

\* The user types the code, or another one whose first byte happens to fit.
SendSecret(p) ==
    /\ pc[p] = "code"
    /\ \E code \in {"right_secret", "wrong_secret"} : Write(p, code)
    /\ Goto(p, "ack")
    /\ UNCHANGED <<store, mine, open, inbox, trusted>>

\* There is no secret to send: stdin fails, the code is not six hex digits or its
\* checksum byte does not fit (pairing_failed); or a certificate is missing or
\* has no RSA key (protocol_error).
RejectCode(p) ==
    /\ pc[p] = "code"
    /\ \E e \in {"pairing_failed", "protocol_error"} : Return(p, e)
    /\ UNCHANGED <<store, mine, wire, trusted>>

\* Writing the secret fails.
SendSecretFail(p) ==
    /\ pc[p] = "code" /\ p \notin open
    /\ Return(p, "protocol_error")
    /\ UNCHANGED <<store, mine, wire, trusted>>

\* The answer to the secret: any message that handle accepts will do.
ReadAck(p) ==
    /\ pc[p] = "ack" /\ inbox[p] # <<>>
    /\ LET e == HandleError(Head(inbox[p]))
       IN  Return(p, IF e = "none" THEN "paired" ELSE e)
    /\ Read(p)
    /\ UNCHANGED <<store, mine, open, toTV, trusted>>

ReadAckError(p) ==
    /\ pc[p] = "ack" /\ inbox[p] = <<>>
    /\ p \notin open \/ Faults
    /\ Return(p, "pairing_failed")
    /\ UNCHANGED <<store, mine, wire, trusted>>

\* The process is killed, at the prompt or between any two file operations.
Crash(p) ==
    /\ pc[p] \notin Resting
    /\ Goto(p, "crashed")
    /\ UNCHANGED <<store, mine, wire, trusted>>

----------------------------------------------------------------------------
(* The TV (external).                                                       *)

\* It answers each message of the exchange and learns the certificate of the
\* connection on which the right secret arrives.
TVAnswer(p) ==
    /\ p \in open /\ toTV[p] # <<>>
    /\ LET m == Head(toTV[p])
           answer == IF m = "pairing_request" THEN "pairing_request_ack"
                     ELSE IF m = "options" THEN "options"
                     ELSE IF m = "configuration" THEN "configuration_ack"
                     ELSE IF m = "right_secret" THEN "secret_ack" ELSE "fault"
       IN  /\ inbox' = [inbox EXCEPT ![p] = Append(@, answer)]
           /\ trusted' = IF m = "right_secret" THEN trusted \cup {mine[p]} ELSE trusted
    /\ toTV' = [toTV EXCEPT ![p] = Tail(@)]
    /\ UNCHANGED <<store, pc, mine, result, open>>

\* The user declines on the TV, or it does not like what it reads.
TVRefuse(p) ==
    /\ p \in open /\ Faults
    /\ \E m \in {"fault", "other"} : inbox' = [inbox EXCEPT ![p] = Append(@, m)]
    /\ open' = open \ {p}
    /\ UNCHANGED <<store, pc, mine, result, toTV, trusted>>

\* It asks or acknowledges again, on its own or for an answer, whatever the
\* client has said.
TVRepeat(p) ==
    /\ p \in open \cap Insistent
    /\ \/ Len(toTV[p]) + Len(inbox[p]) < MaxWaiting /\ UNCHANGED toTV
       \/ toTV[p] # <<>> /\ toTV' = [toTV EXCEPT ![p] = Tail(@)]
    /\ \E m \in {"pairing_request_ack", "options", "configuration_ack"} :
          inbox' = [inbox EXCEPT ![p] = Append(@, m)]
    /\ UNCHANGED <<store, pc, mine, result, open, trusted>>

TVClose(p) ==
    /\ p \in open
    /\ Faults \/ pc[p] \in Resting
    /\ open' = open \ {p}
    /\ UNCHANGED <<store, pc, mine, result, toTV, inbox, trusted>>

----------------------------------------------------------------------------
PairStep(p) ==
    \/ (StoreStep(p) /\ UNCHANGED <<wire, trusted>>)
    \/ Connect(p) \/ ConnectFail(p) \/ Exchange(p) \/ ExchangeError(p)
    \/ SendSecret(p) \/ RejectCode(p) \/ SendSecretFail(p)
    \/ ReadAck(p) \/ ReadAckError(p)

TVStep(p) == TVAnswer(p) \/ TVRefuse(p) \/ TVRepeat(p) \/ TVClose(p)

Next == \E p \in Proc : PairStep(p) \/ Crash(p) \/ TVStep(p)

Spec == Init /\ [][Next]_vars

Running(p) == pc[p] \notin Resting

\* At the prompt a run waits in read_line for its user, who may never come.
AtPrompt(p) == pc[p] = "code"

\* A program that was started goes on, up to the prompt and after it.  Neither
\* the user nor the TV need ever answer.
Fairness == \A p \in Proc : WF_vars(Running(p) /\ ~AtPrompt(p) /\ PairStep(p))

FairSpec == Spec /\ Fairness

----------------------------------------------------------------------------
(* Properties.                                                              *)

\* pair: paired:true means that the TV has accepted the certificate that this
\* run presented, also when runs overlap.  The first message after the secret
\* counts as its acknowledgement, so this needs a TV that says nothing twice.
PairedIsTrusted == \A p \in Proc \ Insistent : result[p] = "paired" => mine[p] \in trusted

\* README: one client certificate + key, generated at first pair; ensure_identity
\* generates a new identity only if a file is missing.  So the files are those of
\* every run that paired.
FirstPairWins ==
    \A p \in Proc : result[p] = "paired" => cert = mine[p] /\ key = mine[p]

\* pair and ensure_identity: what was paired stays usable.  Later runs, their
\* crashes and their errors leave the files of a paired identity alone.
PairedStaysUsable == ~Concurrent => FirstPairWins

\* The loop of pair has no deadline, and a TV that repeats itself keeps it going.
\* Once it stops, the run comes to an end or to the prompt, where the user may
\* leave it for ever; and past the prompt, to an end.  (A frame that trickles in
\* restarts the socket timeout with every part of it.  It has finitely many, so
\* it only delays a read.)
PairEnds ==
    \A p \in Proc :
        <>[][~TVRepeat(p)]_vars =>
            (Running(p) /\ ~AtPrompt(p) ~> ~Running(p) \/ AtPrompt(p))
==============================================================================
