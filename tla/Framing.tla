-------------------------------- MODULE Framing --------------------------------
(***************************************************************************)
(* write_message and read_message of src/framing.rs over one direction of  *)
(* a connection: a message is its encoded body behind a varint of its      *)
(* length, the reader takes the stream apart one byte at a time, and each  *)
(* byte may be late, lost with the connection, or not part of a message    *)
(* at all.  Sequences of groups of seven bits are numbers to the base      *)
(* BASE; the bit 0x80 adds BASE to a group.                                *)
(***************************************************************************)
EXTENDS Integers, Sequences

CONSTANTS
    BASE,           \* 128: the values of one group
    GROUPS,         \* 5: the groups that read_message accepts
    MAX_FRAME,      \* 1 MiB
    Bodies,         \* the bodies that are written
    Decodable       \* the bodies that M::decode accepts

CONSTANTS           \* bounds
    MaxMessages,    \* messages written
    MaxNoise        \* bytes that are no part of a message

ASSUME FramingAssumption ==
    /\ BASE \in Nat \ {0, 1} /\ GROUPS \in Nat \ {0} /\ MAX_FRAME \in Nat
    /\ MAX_FRAME < BASE^GROUPS          \* five groups are enough for 1 MiB
    /\ Bodies \subseteq Seq(0..(2 * BASE - 1))
    /\ \A body \in Bodies : Len(body) < BASE^(2 * GROUPS)     \* a u64: ten groups
    /\ MaxMessages \in Nat /\ MaxNoise \in Nat
ASSUME PowersAssumption ==              \* what the provers do not know of ^
    /\ BASE^0 = 1
    /\ \A j \in 0..(2 * GROUPS) : BASE^j \in Nat /\ BASE^(j + 1) = BASE * BASE^j

VARIABLES
    stream,         \* every byte written to the connection so far
    pos,            \* how many of them the reader has taken
    live,           \* does the writing side still hold the connection?
    call,           \* where read_message is: "idle" (not called), its loop
                    \* over the "length", its read of the "body", "failed"
    shift,          \* the round of the loop
    len,            \* the length read so far
    have,           \* bytes of the body read so far
    error,          \* why the last call failed
    sent,           \* history: the bodies written, in order
    bound,          \* history: where each of them starts, and the last one ends
    noise,          \* history: bytes written that are no part of a message
    got             \* the bodies of the messages returned, in order

reader == <<call, shift, len, have>>
writer == <<stream, live, sent, bound, noise>>
vars   == <<writer, pos, reader, error, got>>

Byte == 0..(2 * BASE - 1)

Error == {"none", "varint_too_long", "frame_exceeds_limit", "undecodable", "timeout", "eof"}

----------------------------------------------------------------------------
(* write_message.                                                           *)

\* What is left of n after j rounds of the loop, len >>= 7 each.
Rest(n, j) == n \div BASE^j

\* The rounds that the loop makes: until nothing is left of the u64.
Rounds(n) ==
    CHOOSE k \in 1..(2 * GROUPS) : Rest(n, k) = 0 /\ \A j \in 1..(k - 1) : Rest(n, j) # 0

\* The bytes pushed: the groups of n, least first, all but the last one marked.
Varint(n) ==
    [j \in 1..Rounds(n) |-> (Rest(n, j - 1) % BASE) + (IF j < Rounds(n) THEN BASE ELSE 0)]

Frame(body) == Varint(Len(body)) \o body

WriteMessage(body) ==
    /\ live /\ Len(sent) < MaxMessages
    /\ stream' = stream \o Frame(body)
    /\ sent' = Append(sent, body)
    /\ bound' = Append(bound, Len(stream) + Len(Frame(body)))
    /\ UNCHANGED <<live, noise, pos, reader, error, got>>

\* The other side is no Remote v2 peer, or not a sane one.
WriteNoise ==
    /\ live /\ noise < MaxNoise
    /\ \E b \in Byte : stream' = Append(stream, b)
    /\ noise' = noise + 1
    /\ UNCHANGED <<live, sent, bound, pos, reader, error, got>>

\* The connection ends; bytes that were on their way are lost.
Close ==
    /\ live /\ live' = FALSE
    /\ \E k \in pos..Len(stream) : stream' = SubSeq(stream, 1, k)
    /\ UNCHANGED <<sent, bound, noise, pos, reader, error, got>>

----------------------------------------------------------------------------
(* read_message, and what its callers do with its errors.                   *)

\* Mutant: a caller reads on after a timeout.
Call_AfterTimeout ==
    /\ call = "idle" \/ error = "timeout"
    /\ call' = "length" /\ shift' = 0 /\ len' = 0 /\ have' = 0 /\ error' = "none"
    /\ UNCHANGED <<writer, pos, got>>

\* A caller calls again after every success, and drops the connection after
\* every error.
Call ==
    /\ call = "idle"
    /\ call' = "length" /\ shift' = 0 /\ len' = 0 /\ have' = 0
    /\ UNCHANGED <<writer, pos, error, got>>

Err(e) == call' = "failed" /\ error' = e

Fits_Any(n) == TRUE             \* mutant: an absurd length is believed
Fits_Strict(n) == n < MAX_FRAME \* mutant: the limit itself is refused

\* The check of the length, before a buffer is made for it.
Fits(n) == n <= MAX_FRAME

\* One round of the loop over the length, and the check behind it.
ReadLength ==
    /\ call = "length" /\ pos < Len(stream)
    /\ pos' = pos + 1
    /\ LET byte  == stream[pos + 1]
           total == len + (byte % BASE) * BASE^shift
       IN  /\ len' = total
           /\ \/ byte < BASE /\ Fits(total) /\ call' = "body" /\ UNCHANGED <<shift, error>>
              \/ byte < BASE /\ ~Fits(total) /\ Err("frame_exceeds_limit") /\ UNCHANGED shift
              \/ byte >= BASE /\ shift = GROUPS - 1 /\ Err("varint_too_long") /\ UNCHANGED shift
              \/ /\ byte >= BASE /\ shift < GROUPS - 1
                 /\ shift' = shift + 1 /\ UNCHANGED <<call, error>>
    /\ UNCHANGED <<writer, have, got>>

\* read_exact takes another byte of the body.
ReadBody ==
    /\ call = "body" /\ have < len /\ pos < Len(stream)
    /\ pos' = pos + 1 /\ have' = have + 1
    /\ UNCHANGED <<writer, call, shift, len, error, got>>

\* The body is complete: M::decode.
Decode ==
    /\ call = "body" /\ have = len
    /\ LET body == SubSeq(stream, pos - len + 1, pos)
       IN  \/ /\ body \in Decodable
              /\ got' = Append(got, body) /\ call' = "idle" /\ UNCHANGED error
           \/ body \notin Decodable /\ Err("undecodable") /\ UNCHANGED got
    /\ UNCHANGED <<writer, pos, shift, len, have>>

\* Mutant: a closed connection is noticed before what it brought is read.
ReadFail_EofEarly ==
    /\ call = "length" \/ (call = "body" /\ have < len)
    /\ \/ live /\ Err("timeout")
       \/ ~live /\ Err("eof")
    /\ UNCHANGED <<writer, pos, shift, len, have, got>>

\* A read of the connection fails, wherever in the frame it is: the next byte is
\* late, or will never come.  What was read of the frame is gone.
ReadFail ==
    /\ call = "length" \/ (call = "body" /\ have < len)
    /\ \/ live /\ Err("timeout")
       \/ ~live /\ pos = Len(stream) /\ Err("eof")
    /\ UNCHANGED <<writer, pos, shift, len, have, got>>

----------------------------------------------------------------------------
Init ==
    /\ stream = <<>> /\ live = TRUE /\ sent = <<>> /\ bound = <<0>> /\ noise = 0
    /\ pos = 0 /\ call = "idle" /\ shift = 0 /\ len = 0 /\ have = 0
    /\ error = "none" /\ got = <<>>

Next ==
    \/ \E body \in Bodies : WriteMessage(body)
    \/ WriteNoise \/ Close
    \/ Call \/ ReadLength \/ ReadBody \/ Decode \/ ReadFail

Spec == Init /\ [][Next]_vars

----------------------------------------------------------------------------
(* Properties.                                                              *)

\* The reader's state stays in bounds whatever bytes arrive: five rounds, and
\* a buffer of at most MAX_FRAME bytes.
TypeOK ==
    /\ stream \in Seq(Byte) /\ pos \in 0..Len(stream) /\ live \in BOOLEAN
    /\ call \in {"idle", "length", "body", "failed"}
    /\ shift \in 0..(GROUPS - 1) /\ len \in Nat
    /\ call \in {"idle", "body"} => len <= MAX_FRAME
    /\ have \in Nat /\ have <= len
    /\ error \in Error
    /\ sent \in Seq(Bodies) /\ noise \in Nat
    /\ bound \in Seq(Nat)
    /\ got \in Seq(Decodable)

\* read_message returns what write_message wrote, in the order it was written,
\* and leaves the stream where the next message starts: no timeout, no partial
\* read and no refused frame ever shifts the stream under a later message.
InOrder ==
    noise = 0 =>
        /\ Len(got) <= Len(sent)
        /\ \A i \in 1..Len(got) : got[i] = sent[i]
        /\ call = "idle" => pos = bound[Len(got) + 1]

\* A frame is only refused for what is wrong with it: one that write_message
\* wrote is accepted up to MAX_FRAME bytes, the limit itself included.
RefusedForCause ==
    noise = 0 /\ error \in {"varint_too_long", "frame_exceeds_limit", "undecodable"} =>
        /\ Len(got) < Len(sent)
        /\ LET body == sent[Len(got) + 1]
           IN  IF error = "undecodable" THEN body \notin Decodable
               ELSE Len(body) > MAX_FRAME /\ (error = "varint_too_long" => Len(body) >= BASE^GROUPS)

==============================================================================
