------------------------------- MODULE Channel -------------------------------
(***************************************************************************)
(* What framing.rs promises those who read messages with it, without       *)
(* bytes: a queue of whole messages that are received in order, until one  *)
(* is refused, the next one takes too long, or the connection has ended    *)
(* and everything that arrived whole is taken.  This is the inbox that     *)
(* Session and Pairing read from.                                          *)
(***************************************************************************)
EXTENDS Naturals, Sequences

CONSTANTS
    Message,        \* what is sent
    Readable        \* what is not refused

VARIABLES
    queue,          \* the messages that are whole and not received
    got,            \* those received, in order
    open,           \* is the other end there?
    ended,          \* "no", or how the reading ended
    garbled         \* has the other end sent anything but messages?

vars == <<queue, got, open, ended, garbled>>

Init ==
    /\ queue = <<>> /\ got = <<>> /\ open = TRUE /\ ended = "no" /\ garbled = FALSE

Send ==
    /\ open /\ \E m \in Message : queue' = Append(queue, m)
    /\ UNCHANGED <<got, open, ended>>

\* The last messages may be lost with the connection, or cut.
Close ==
    /\ open /\ open' = FALSE
    /\ \E n \in 0..Len(queue) : queue' = SubSeq(queue, 1, n)
    /\ UNCHANGED <<got, ended>>

Receive ==
    /\ ended = "no" /\ queue # <<>> /\ Head(queue) \in Readable
    /\ got' = Append(got, Head(queue)) /\ queue' = Tail(queue)
    /\ UNCHANGED <<open, ended>>

\* A message is refused, or the beginning that is left of one.
Refuse ==
    /\ ended = "no" /\ ended' = "refused"
    /\ IF queue = <<>> THEN ~open ELSE Head(queue) \notin Readable
    /\ UNCHANGED <<queue, got, open>>

Timeout == ended = "no" /\ open /\ ended' = "timeout" /\ UNCHANGED <<queue, got, open>>

\* The end is only seen behind the last message.
Eof == ended = "no" /\ ~open /\ queue = <<>> /\ ended' = "eof" /\ UNCHANGED <<queue, got, open>>

\* Nothing is promised of a peer that speaks another language.
Garble == garbled'

Next ==
    \/ (Send \/ Close \/ Receive \/ Refuse \/ Timeout \/ Eof) /\ UNCHANGED garbled
    \/ Garble

Spec == Init /\ [][Next]_vars
==============================================================================
