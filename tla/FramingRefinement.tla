-------------------------- MODULE FramingRefinement --------------------------
(***************************************************************************)
(* Framing implements Channel: the bytes of a message, one at a time, are  *)
(* steps that the channel does not take.                                   *)
(***************************************************************************)
EXTENDS Framing

\* How many messages the stream holds whole: all of them until it is cut.
Whole ==
    CHOOSE k \in 0..Len(sent) :
        /\ bound[k + 1] <= Len(stream)
        /\ \A i \in (k + 2)..(Len(sent) + 1) : bound[i] > Len(stream)

Unread == SubSeq(sent, Len(got) + 1, Whole)

Ended ==
    IF call # "failed" THEN "no" ELSE IF error \in {"timeout", "eof"} THEN error ELSE "refused"

Promise == INSTANCE Channel WITH
    Message <- Bodies,
    Readable <- {body \in Decodable : Len(body) <= MAX_FRAME},
    queue <- Unread,
    open <- live,
    ended <- Ended,
    garbled <- noise > 0

\* write_message and read_message: however a frame is split, delayed or cut, its
\* reader sees whole messages, each one once and in order, and the end of the
\* connection only behind the last of them.
KeepsMessages == Promise!Spec
==============================================================================
