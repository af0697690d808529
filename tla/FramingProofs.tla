----------------------------- MODULE FramingProofs -----------------------------
(***************************************************************************)
(* Theorems about Framing: for every base, number of groups, frame limit   *)
(* and set of messages, and for any bytes of a peer that is not sane; and  *)
(* that framing implements the abstract Channel.                           *)
(***************************************************************************)
EXTENDS FramingRefinement, SequenceTheorems, WellFoundedInduction, TLAPS

\* The stream of a sane writer is its frames, one behind the other, cut short if
\* it is gone.
StreamInv ==
    /\ Len(bound) = Len(sent) + 1 /\ bound[1] = 0
    /\ \A i \in 1..Len(sent) :
          /\ bound[i + 1] = bound[i] + Len(Frame(sent[i]))
          /\ bound[i + 1] <= bound[Len(sent) + 1]
          /\ \A x \in 1..Len(Frame(sent[i])) :
                bound[i] + x <= Len(stream) => stream[bound[i] + x] = Frame(sent[i])[x]
    /\ Len(stream) <= bound[Len(sent) + 1]
    /\ live => Len(stream) = bound[Len(sent) + 1]

\* How far the reader is in the frame it reads, and what it makes of it.
ReadInv ==
    LET next == Len(got) + 1
        n == Len(sent[next])
    IN  /\ Len(got) <= Len(sent)
        /\ \A i \in 1..Len(got) : got[i] = sent[i]
        /\ call # "failed" => error = "none"
        /\ call = "idle" => pos = bound[next]
        /\ call = "length" =>
               /\ pos = bound[next] + shift /\ have = 0
               /\ shift = 0 => len = 0
               /\ shift > 0 => next <= Len(sent)
               /\ next <= Len(sent) => shift < Rounds(n) /\ n = len + BASE^shift * Rest(n, shift)
        /\ call = "body" =>
               /\ next <= Len(sent)
               /\ len = n /\ pos = bound[next] + Rounds(n) + have

FramingInv == TypeOK /\ (noise = 0 => StreamInv /\ ReadInv /\ RefusedForCause)

----------------------------------------------------------------------------
(***************************************************************************)
(* Arithmetic: the groups of a number.                                     *)
(***************************************************************************)

\* Every set of naturals has a least element.
LEMMA LeastNat ==
  ASSUME NEW T \in SUBSET Nat, T # {}
  PROVE  \E x \in T : \A y \in T : x <= y
  <1> DEFINE R == OpToRel(<, Nat)
  <1>1. IsWellFoundedOn(R, Nat)
    BY NatLessThanWellFounded, Zenon
  <1>2. PICK x \in T : \A y \in T : <<y, x>> \notin R
    <2> HIDE DEF R
    <2> QED
      BY <1>1, WFMin
  <1>3. \A y \in T : ~(y < x)
    BY <1>2 DEF OpToRel
  <1> QED
    BY <1>3

\* The quotient is the only number that fits.
LEMMA QuotientIsUnique ==
  ASSUME NEW n \in Nat, NEW m \in Nat \ {0}, NEW q \in Nat, NEW r \in Nat,
         n = m * q + r, r < m
  PROVE  n \div m = q
  <1> DEFINE d == n \div m
             s == n % m
  <1>1. d \in Nat /\ s \in Nat /\ n = m * d + s /\ s < m
    OBVIOUS
  <1> HIDE DEF d, s
  <1>2. ASSUME q < d PROVE FALSE
    <2>1. m * d >= m * (q + 1)
      <3>1. PICK k \in Nat : d = q + 1 + k
        <4>1. d - (q + 1) \in Nat /\ d = q + 1 + (d - (q + 1))
          BY <1>1, <1>2
        <4> QED
          BY <4>1
      <3>2. m * d = m * (q + 1) + m * k /\ m * k \in Nat
        BY <3>1
      <3> QED
        BY <3>2
    <2>2. m * (q + 1) = m * q + m
      OBVIOUS
    <2> QED
      BY <1>1, <2>1, <2>2
  <1>3. ASSUME d < q PROVE FALSE
    <2>1. m * q >= m * (d + 1)
      <3>1. PICK k \in Nat : q = d + 1 + k
        <4>1. q - (d + 1) \in Nat /\ q = d + 1 + (q - (d + 1))
          BY <1>1, <1>3
        <4> QED
          BY <4>1
      <3>2. m * q = m * (d + 1) + m * k /\ m * k \in Nat /\ m * (d + 1) \in Nat
        BY <1>1, <3>1
      <3> QED
        BY <3>2
    <2>2. m * (d + 1) = m * d + m
      BY <1>1
    <2> QED
      BY <1>1, <2>1, <2>2
  <1>4. d = q
    BY <1>1, <1>2, <1>3
  <1> QED
    BY <1>4 DEF d

\* Division by a product is division by its factors in turn.
LEMMA DivDiv ==
  ASSUME NEW n \in Nat, NEW b \in Nat \ {0}, NEW w \in Nat \ {0}
  PROVE  n \div (b * w) = (n \div w) \div b
  <1> DEFINE q == n \div w
             r == n % w
             p == q \div b
             d == q % b
  <1>1. q \in Nat /\ r \in Nat /\ n = w * q + r /\ r < w
    OBVIOUS
  <1> HIDE DEF q, r
  <1>2. p \in Nat /\ d \in Nat /\ q = b * p + d /\ d < b
    BY <1>1
  <1> HIDE DEF p, d
  <1>3. n = (b * w) * p + (w * d + r)
    <2>1. w * q = w * (b * p) + w * d
      BY <1>1, <1>2
    <2>2. w * (b * p) = (b * w) * p
      BY <1>2
    <2> QED
      BY <1>1, <1>2, <2>1, <2>2
  <1>4. w * d + r < b * w /\ w * d + r \in Nat
    <2>1. PICK k \in Nat : b = d + 1 + k
      <3>1. b - (d + 1) \in Nat /\ b = d + 1 + (b - (d + 1))
        BY <1>2
      <3> QED
        BY <3>1
    <2>2. b * w = w * d + w + k * w /\ k * w \in Nat
      BY <1>2, <2>1
    <2> QED
      BY <1>1, <1>2, <2>2
  <1>5. b * w \in Nat \ {0}
    OBVIOUS
  <1>6. n \div (b * w) = p
    BY <1>2, <1>3, <1>4, <1>5, QuotientIsUnique
  <1> QED
    BY <1>6 DEF p, q

\* The powers of BASE that the code meets.
LEMMA Powers ==
  /\ BASE \in Nat /\ BASE > 1 /\ GROUPS \in Nat /\ GROUPS > 0
  /\ BASE^0 = 1
  /\ \A j \in 0..(2 * GROUPS) :
        BASE^j \in Nat \ {0} /\ BASE^(j + 1) = BASE * BASE^j
  <1>1. BASE \in Nat /\ BASE > 1 /\ GROUPS \in Nat /\ GROUPS > 0
    BY FramingAssumption
  <1>2. BASE^0 = 1 /\ \A j \in 0..(2 * GROUPS) :
           BASE^j \in Nat /\ BASE^(j + 1) = BASE * BASE^j
    BY PowersAssumption
  <1>3. \A j \in 0..(2 * GROUPS) : BASE^j # 0
    <2> DEFINE Zeros == {j \in 0..(2 * GROUPS) : BASE^j = 0}
    <2>1. ASSUME Zeros # {} PROVE FALSE
      <3>1. PICK x \in Zeros : \A y \in Zeros : x <= y
        <4>1. Zeros \in SUBSET Nat
          BY <1>1
        <4> HIDE DEF Zeros
        <4> QED
          BY <2>1, <4>1, LeastNat
      <3>2. x # 0 /\ x - 1 \in 0..(2 * GROUPS) /\ x = (x - 1) + 1 /\ x - 1 \notin Zeros
        BY <1>1, <1>2, <3>1
      <3>3. BASE^x = BASE * BASE^(x - 1)
        BY <1>2, <3>2
      <3>4. BASE^(x - 1) \in Nat /\ BASE^(x - 1) # 0 /\ BASE^x = 0
        BY <1>2, <3>1, <3>2
      <3> DEFINE w == BASE^(x - 1)
                 v == BASE^x
      <3>5. w \in Nat /\ w # 0 /\ v = 0 /\ v = BASE * w
        BY <3>3, <3>4
      <3> HIDE DEF w, v
      <3> QED
        BY <1>1, <3>5
    <2> QED
      BY <2>1
  <1> QED
    BY <1>1, <1>2, <1>3

\* One more round of the loop.
LEMMA RestStep ==
  ASSUME NEW n \in Nat, NEW j \in 0..(2 * GROUPS)
  PROVE  /\ Rest(n, j) \in Nat /\ Rest(n, 0) = n
         /\ Rest(n, j + 1) = Rest(n, j) \div BASE
  <1>1. BASE \in Nat \ {0} /\ BASE^j \in Nat \ {0} /\ BASE^(j + 1) = BASE * BASE^j
    BY Powers
  <1>2. n \div (BASE * BASE^j) = (n \div BASE^j) \div BASE
    BY <1>1, DivDiv
  <1>3. n \div BASE^j \in Nat /\ n \div BASE^0 = n
    BY <1>1, Powers
  <1> QED
    BY <1>1, <1>2, <1>3 DEF Rest

\* The loop of write_message stops when nothing is left, and not before.
LEMMA RoundsProperty ==
  ASSUME NEW n \in Nat, n < BASE^(2 * GROUPS)
  PROVE  /\ Rounds(n) \in 1..(2 * GROUPS)
         /\ Rest(n, Rounds(n)) = 0
         /\ \A j \in 1..(Rounds(n) - 1) : Rest(n, j) # 0
  <1> DEFINE Stops == {k \in 1..(2 * GROUPS) : Rest(n, k) = 0}
  <1>1. Stops # {}
    <2>1. 2 * GROUPS \in 1..(2 * GROUPS) /\ BASE^(2 * GROUPS) \in Nat \ {0}
      BY Powers
    <2>2. n \div BASE^(2 * GROUPS) = 0
      <3> DEFINE w == BASE^(2 * GROUPS)
      <3>1. w \in Nat \ {0} /\ n < w
        BY <2>1
      <3> HIDE DEF w
      <3>2. n \div w = 0
        BY <3>1
      <3> QED
        BY <3>2 DEF w
    <2> QED
      BY <2>1, <2>2 DEF Rest
  <1>2. PICK k \in Stops : \A y \in Stops : k <= y
    <2>1. Stops \in SUBSET Nat
      BY Powers
    <2> HIDE DEF Stops
    <2> QED
      BY <1>1, <2>1, LeastNat
  <1>3. k \in 1..(2 * GROUPS) /\ Rest(n, k) = 0 /\ \A j \in 1..(k - 1) : Rest(n, j) # 0
    BY <1>2, Powers
  <1> QED
    BY <1>3 DEF Rounds

\* The bytes before a body.
LEMMA VarintProperty ==
  ASSUME NEW n \in Nat, n < BASE^(2 * GROUPS)
  PROVE  /\ Varint(n) \in Seq(Byte) /\ Len(Varint(n)) = Rounds(n)
         /\ \A j \in 1..Rounds(n) :
               Varint(n)[j] = (Rest(n, j - 1) % BASE) + (IF j < Rounds(n) THEN BASE ELSE 0)
  <1>1. Rounds(n) \in Nat /\ Rounds(n) <= 2 * GROUPS
    BY RoundsProperty, Powers
  <1>2. ASSUME NEW j \in 1..Rounds(n)
        PROVE  (Rest(n, j - 1) % BASE) + (IF j < Rounds(n) THEN BASE ELSE 0) \in Byte
    <2>1. j - 1 \in 0..(2 * GROUPS)
      BY <1>1, Powers
    <2>2. Rest(n, j - 1) \in Nat
      BY <2>1, RestStep
    <2> QED
      BY <2>2, Powers DEF Byte
  <1> QED
    BY <1>1, <1>2 DEF Varint

\* A frame is the bytes of the length, then the body.
LEMMA FrameProperty ==
  ASSUME NEW body \in Bodies
  PROVE  /\ Len(body) \in Nat /\ Len(body) < BASE^(2 * GROUPS) /\ body \in Seq(Byte)
         /\ Frame(body) \in Seq(Byte)
         /\ Rounds(Len(body)) \in Nat /\ Rounds(Len(body)) > 0
         /\ Len(Frame(body)) = Rounds(Len(body)) + Len(body)
         /\ \A x \in 1..(Rounds(Len(body)) + Len(body)) :
               Frame(body)[x] = IF x <= Rounds(Len(body)) THEN Varint(Len(body))[x]
                                ELSE body[x - Rounds(Len(body))]
  <1>1. body \in Seq(Byte) /\ Len(body) \in Nat /\ Len(body) < BASE^(2 * GROUPS)
    <2>1. body \in Seq(Byte)
      BY FramingAssumption DEF Byte
    <2> QED
      BY <2>1, LenProperties, FramingAssumption
  <1>2. /\ Varint(Len(body)) \in Seq(Byte) /\ Len(Varint(Len(body))) = Rounds(Len(body))
        /\ Rounds(Len(body)) \in 1..(2 * GROUPS)
    BY <1>1, VarintProperty, RoundsProperty
  <1>3. Rounds(Len(body)) \in Nat /\ Rounds(Len(body)) > 0
    BY <1>2, Powers
  <1> DEFINE v == Varint(Len(body))
  <1>4. /\ v \o body \in Seq(Byte)
        /\ Len(v \o body) = Len(v) + Len(body)
        /\ \A i \in 1..(Len(v) + Len(body)) :
              (v \o body)[i] = IF i <= Len(v) THEN v[i] ELSE body[i - Len(v)]
    BY <1>1, <1>2, ConcatProperties
  <1> QED
    BY <1>1, <1>2, <1>3, <1>4 DEF Frame

(***************************************************************************)
(* Types.                                                                  *)
(***************************************************************************)

LEMMA InitType == Init => TypeOK
  BY Powers, FramingAssumption, EmptySeq DEF Init, TypeOK, Error

LEMMA TypeStep ==
  ASSUME TypeOK, [Next]_vars
  PROVE  TypeOK'
  <1> USE DEF Error
  <1>0. Len(stream) \in Nat /\ pos \in Nat /\ pos <= Len(stream) /\ MAX_FRAME \in Nat
    BY LenProperties, FramingAssumption DEF TypeOK
  <1>1. ASSUME NEW body \in Bodies, WriteMessage(body) PROVE TypeOK'
    <2>1. stream' \in Seq(Byte) /\ Len(stream') = Len(stream) + Len(Frame(body))
      BY <1>1, FrameProperty, ConcatProperties DEF WriteMessage, TypeOK
    <2>2. Len(Frame(body)) \in Nat
      BY FrameProperty
    <2>3. sent' \in Seq(Bodies) /\ bound' \in Seq(Nat)
      BY <1>0, <1>1, <2>2, AppendProperties DEF WriteMessage, TypeOK
    <2>4. pos' \in 0..Len(stream')
      BY <1>0, <1>1, <2>1, <2>2 DEF WriteMessage
    <2> QED
      BY <1>1, <2>1, <2>3, <2>4 DEF WriteMessage, TypeOK, reader
  <1>2. ASSUME WriteNoise PROVE TypeOK'
    <2>1. stream' \in Seq(Byte) /\ Len(stream') = Len(stream) + 1
      BY <1>2, AppendProperties DEF WriteNoise, TypeOK
    <2>2. pos' \in 0..Len(stream')
      BY <1>0, <1>2, <2>1 DEF WriteNoise
    <2>3. noise' \in Nat
      BY <1>2 DEF WriteNoise, TypeOK
    <2> QED
      BY <1>2, <2>1, <2>2, <2>3 DEF WriteNoise, TypeOK, reader
  <1>3. ASSUME Close PROVE TypeOK'
    <2>1. PICK k \in pos..Len(stream) : stream' = SubSeq(stream, 1, k)
      BY <1>3 DEF Close
    <2>2. k \in Nat /\ pos <= k /\ k <= Len(stream)
      BY <1>0, <2>1
    <2>3. \A i \in 1..k : stream[i] \in Byte
      BY <1>0, <2>2, ElementOfSeq DEF TypeOK
    <2>4. stream' \in Seq(Byte) /\ Len(stream') = k
      BY <2>1, <2>2, <2>3, SubSeqProperties
    <2>5. pos' = pos /\ live' \in BOOLEAN
      BY <1>3 DEF Close
    <2>6. pos' \in 0..Len(stream')
      BY <1>0, <2>2, <2>4, <2>5
    <2> QED
      BY <1>3, <2>4, <2>5, <2>6 DEF Close, TypeOK, reader
  <1>4. ASSUME Call PROVE TypeOK'
    BY <1>4, Powers DEF Call, TypeOK, writer
  <1>5. ASSUME ReadLength PROVE TypeOK'
    <2> DEFINE byte == stream[pos + 1]
               total == len + (byte % BASE) * BASE^shift
    <2>1. pos < Len(stream) /\ pos' = pos + 1 /\ len' = total /\ have' = have
          /\ UNCHANGED <<writer, got>> /\ call = "length"
      BY <1>5 DEF ReadLength, Fits
    <2>2. total \in Nat /\ total >= len
      <3>1. byte \in Byte
        BY <1>0, <2>1, ElementOfSeq DEF TypeOK
      <3>2. shift \in 0..(2 * GROUPS) /\ BASE^shift \in Nat
        BY Powers DEF TypeOK
      <3> DEFINE w == BASE^shift
                 d == byte % BASE
      <3>3. w \in Nat /\ d \in Nat
        BY <3>1, <3>2, Powers DEF Byte
      <3> HIDE DEF w, d
      <3>4. w * d \in Nat /\ len \in Nat /\ w * d = d * w
        BY <3>3 DEF TypeOK
      <3>5. len + w * d \in Nat /\ len + w * d >= len
        BY <3>4
      <3> QED
        BY <3>4, <3>5 DEF w, d
    <2>3. /\ call' \in {"body", "failed", "length"} /\ error' \in Error
          /\ call' = "body" => total <= MAX_FRAME
      BY <1>5 DEF ReadLength, Fits, Err, TypeOK
    <2>4. shift' \in 0..(GROUPS - 1)
      <3>1. shift \in Nat /\ shift <= GROUPS - 1 /\ GROUPS \in Nat
        BY Powers DEF TypeOK
      <3>2. shift' = shift \/ (shift < GROUPS - 1 /\ shift' = shift + 1)
        BY <1>5 DEF ReadLength, Fits
      <3> QED
        BY <3>1, <3>2
    <2>5. pos' \in 0..Len(stream')
      BY <1>0, <2>1 DEF writer
    <2>6. have' \in Nat /\ have' <= len' /\ len' \in Nat
      BY <2>1, <2>2 DEF TypeOK
    <2> HIDE DEF total, byte
    <2> QED
      BY <2>1, <2>3, <2>4, <2>5, <2>6 DEF TypeOK, writer
  <1>6. ASSUME ReadBody PROVE TypeOK'
    <2>1. have < len /\ pos < Len(stream) /\ pos' = pos + 1 /\ have' = have + 1
          /\ UNCHANGED <<writer, call, shift, len, error, got>>
      BY <1>6 DEF ReadBody
    <2>2. pos' \in 0..Len(stream') /\ have' \in Nat /\ have' <= len'
      BY <1>0, <2>1 DEF TypeOK, writer
    <2> QED
      BY <2>1, <2>2 DEF TypeOK, writer
  <1>7. ASSUME Decode PROVE TypeOK'
    <2>1. got' \in Seq(Decodable)
      <3> DEFINE body == SubSeq(stream, pos - len + 1, pos)
      <3>1. got \in Seq(Decodable)
        BY DEF TypeOK
      <3>2. got' = got \/ (body \in Decodable /\ got' = Append(got, body))
        BY <1>7 DEF Decode
      <3> HIDE DEF body
      <3> QED
        BY <3>1, <3>2, AppendProperties
    <2>2. call' \in {"idle", "failed"} /\ error' \in Error
      BY <1>7 DEF Decode, Err, TypeOK
    <2> QED
      BY <1>7, <2>1, <2>2 DEF Decode, TypeOK, writer
  <1>8. ASSUME ReadFail PROVE TypeOK'
    BY <1>8 DEF ReadFail, Err, TypeOK, writer
  <1>9. ASSUME UNCHANGED vars PROVE TypeOK'
    BY <1>9 DEF vars, writer, reader, TypeOK
  <1> QED
    BY <1>1, <1>2, <1>3, <1>4, <1>5, <1>6, <1>7, <1>8, <1>9 DEF Next

(***************************************************************************)
(* What the reader meets in the stream of a sane writer.                   *)
(***************************************************************************)

\* The frames that the stream is made of.
LEMMA StreamFacts ==
  ASSUME TypeOK, StreamInv
  PROVE  /\ Len(sent) \in Nat /\ Len(stream) \in Nat /\ Len(bound) = Len(sent) + 1
         /\ \A i \in 1..(Len(sent) + 1) : bound[i] \in Nat
         /\ \A i \in 1..Len(sent) : sent[i] \in Bodies
  <1>1. stream \in Seq(Byte) /\ sent \in Seq(Bodies) /\ bound \in Seq(Nat)
    BY DEF TypeOK
  <1>2. Len(bound) = Len(sent) + 1
    BY DEF StreamInv
  <1> QED
    BY <1>1, <1>2, LenProperties, ElementOfSeq

\* The byte that the loop takes is the next one of the length of the next
\* message, and says whether it is the last one.
LEMMA NextByte ==
  ASSUME TypeOK, StreamInv, ReadInv, call = "length", pos < Len(stream)
  PROVE  LET next  == Len(got) + 1
             n     == Len(sent[next])
             byte  == stream[pos + 1]
             total == len + (byte % BASE) * BASE^shift
         IN  /\ next <= Len(sent)
             /\ n \in Nat /\ n < BASE^(2 * GROUPS) /\ Rounds(n) \in Nat
             /\ byte \in Nat /\ total \in Nat
             /\ shift \in 0..(2 * GROUPS - 1) /\ shift + 1 <= Rounds(n)
             /\ byte < BASE <=> shift + 1 = Rounds(n)
             /\ n = total + BASE^(shift + 1) * Rest(n, shift + 1)
             /\ shift + 1 < Rounds(n) => Rest(n, shift + 1) # 0
             /\ shift + 1 = Rounds(n) => total = n
  <1> DEFINE next  == Len(got) + 1
             n     == Len(sent[next])
             byte  == stream[pos + 1]
             g     == byte % BASE
             w     == BASE^shift
             total == len + g * w
  <1>1. /\ Len(got) \in Nat /\ shift \in Nat /\ shift <= GROUPS - 1 /\ GROUPS \in Nat
        /\ BASE \in Nat /\ BASE > 1 /\ len \in Nat /\ pos \in Nat
    <2>1. got \in Seq(Decodable) /\ pos \in 0..Len(stream) /\ stream \in Seq(Byte)
      BY DEF TypeOK
    <2>2. Len(got) \in Nat /\ pos \in Nat
      BY <2>1, LenProperties
    <2> QED
      BY <2>2, Powers DEF TypeOK
  <1>2. /\ Len(got) <= Len(sent) /\ pos = bound[next] + shift
        /\ (shift > 0 => next <= Len(sent))
        /\ (next <= Len(sent) => shift < Rounds(n) /\ n = len + w * Rest(n, shift))
    BY DEF ReadInv
  <1>3. next <= Len(sent)
    <2>1. Len(stream) <= bound[Len(sent) + 1]
      BY DEF StreamInv
    <2>2. CASE next = Len(sent) + 1
      BY <1>1, <1>2, <2>1, <2>2, StreamFacts
    <2> QED
      BY <1>1, <1>2, <2>2, StreamFacts
  <1>4. next \in 1..Len(sent) /\ sent[next] \in Bodies /\ bound[next] \in Nat
    BY <1>1, <1>3, StreamFacts
  <1>5. /\ n \in Nat /\ n < BASE^(2 * GROUPS) /\ Rounds(n) \in Nat /\ Rounds(n) <= 2 * GROUPS
        /\ Rounds(n) > 0
        /\ Rest(n, Rounds(n)) = 0 /\ \A j \in 1..(Rounds(n) - 1) : Rest(n, j) # 0
    <2>1. n \in Nat /\ n < BASE^(2 * GROUPS)
      BY <1>4, FrameProperty
    <2>2. Rounds(n) \in 1..(2 * GROUPS)
      BY <2>1, RoundsProperty
    <2>3. Rest(n, Rounds(n)) = 0 /\ \A j \in 1..(Rounds(n) - 1) : Rest(n, j) # 0
      BY <2>1, RoundsProperty
    <2> QED
      BY <1>1, <2>1, <2>2, <2>3
  <1>6. byte = Varint(n)[shift + 1]
    <2>1. shift + 1 \in 1..Len(Frame(sent[next])) /\ shift + 1 <= Rounds(n)
      <3>1. Len(Frame(sent[next])) = Rounds(n) + n
        BY <1>4, FrameProperty
      <3>2. shift \in Nat /\ Rounds(n) \in Nat /\ n \in Nat /\ shift < Rounds(n)
        BY <1>1, <1>2, <1>3, <1>5
      <3> HIDE DEF n
      <3> QED
        BY <3>1, <3>2
    <2>2. \A x \in 1..Len(Frame(sent[next])) :
             bound[next] + x <= Len(stream) => stream[bound[next] + x] = Frame(sent[next])[x]
      BY <1>4, Zenon DEF StreamInv
    <2>3. bound[next] + (shift + 1) <= Len(stream)
          /\ bound[next] + (shift + 1) = pos + 1
      BY <1>1, <1>2, <1>4, StreamFacts
    <2>4. stream[pos + 1] = Frame(sent[next])[shift + 1]
      BY <2>1, <2>2, <2>3
    <2>5. shift + 1 \in 1..(Rounds(n) + n)
      BY <1>1, <1>5, <2>1
    <2>6. Frame(sent[next])[shift + 1] = Varint(n)[shift + 1]
      BY <1>4, <2>1, <2>5, FrameProperty
    <2> QED
      BY <2>4, <2>6
  <1> DEFINE rest == Rest(n, shift)
             more == Rest(n, shift + 1)
             last == Rounds(n)
  <1>7. shift + 1 <= last /\ shift + 1 \in 1..last
    BY <1>1, <1>2, <1>3, <1>5
  <1>8. byte = (rest % BASE) + (IF shift + 1 < last THEN BASE ELSE 0)
    <2>1. Varint(n)[shift + 1]
            = (Rest(n, (shift + 1) - 1) % BASE) + (IF shift + 1 < last THEN BASE ELSE 0)
      BY <1>5, <1>7, VarintProperty
    <2>2. (shift + 1) - 1 = shift
      BY <1>1
    <2> QED
      BY <1>6, <2>1, <2>2
  <1>9. rest \in Nat /\ more = rest \div BASE /\ w \in Nat /\ BASE^(shift + 1) = BASE * w
    <2>1. shift \in 0..(2 * GROUPS)
      BY <1>1
    <2> QED
      BY <1>5, <2>1, RestStep, Powers
  <1>10. (shift + 1 < last => more # 0) /\ (shift + 1 = last => more = 0)
    BY <1>1, <1>5
  <1>11. n = len + w * rest /\ n \in Nat
    BY <1>2, <1>3, <1>5
  <1> DEFINE v == BASE^(shift + 1)
  <1>a. last \in Nat /\ v = BASE * w
    BY <1>5, <1>9
  <1> HIDE DEF w, rest, more, last, byte, n, v
  <1>12. /\ g = rest % BASE /\ g \in Nat /\ g < BASE /\ byte \in Nat
         /\ (byte < BASE <=> shift + 1 = last)
    <2> DEFINE d == rest % BASE
    <2>1. d \in Nat /\ d < BASE
      BY <1>1, <1>9
    <2>2. byte = d + (IF shift + 1 < last THEN BASE ELSE 0)
      BY <1>8
    <2> HIDE DEF d
    <2> DEFINE Goal == byte % BASE = d /\ byte \in Nat /\ (byte < BASE <=> shift + 1 = last)
    <2>3. ASSUME shift + 1 < last PROVE Goal
      <3>1. byte = d + BASE
        BY <2>2, <2>3
      <3> QED
        BY <1>1, <1>a, <2>1, <2>3, <3>1
    <2>4. ASSUME shift + 1 = last PROVE Goal
      <3>1. byte = d
        BY <1>1, <1>a, <2>1, <2>2, <2>4
      <3> QED
        BY <1>1, <2>1, <2>4, <3>1
    <2>5. Goal
      BY <1>1, <1>7, <1>a, <2>3, <2>4
    <2> QED
      BY <2>1, <2>5 DEF d
  <1>13. rest = BASE * more + g /\ more \in Nat
    BY <1>1, <1>9, <1>12
  <1> HIDE DEF g
  <1>14. w * rest = (BASE * w) * more + g * w
    <2>1. w \in Nat /\ BASE \in Nat /\ more \in Nat /\ g \in Nat /\ rest = BASE * more + g
      BY <1>1, <1>9, <1>12, <1>13
    <2>2. w * rest = w * (BASE * more) + w * g
      BY <2>1
    <2>3. w * (BASE * more) = (BASE * w) * more /\ w * g = g * w
      BY <2>1
    <2> QED
      BY <2>2, <2>3
  <1>15. g * w \in Nat /\ (BASE * w) * more \in Nat
    BY <1>1, <1>9, <1>12, <1>13
  <1>16. total \in Nat /\ n = total + BASE^(shift + 1) * more
    <2> DEFINE gw == g * w
               wm == (BASE * w) * more
               wr == w * rest
    <2>1. gw \in Nat /\ wm \in Nat /\ wr = wm + gw /\ len \in Nat /\ n = len + wr
      BY <1>1, <1>11, <1>14, <1>15
    <2> HIDE DEF gw, wm, wr
    <2>2. len + gw \in Nat /\ n = (len + gw) + wm
      BY <2>1
    <2>3. wm = v * more
      BY <1>a, Zenon DEF wm
    <2> QED
      BY <2>2, <2>3 DEF gw, v
  <1>17. shift + 1 = last => total = n
    BY <1>1, <1>9, <1>10, <1>16
  <1> QED
    BY <1>1, <1>3, <1>5, <1>7, <1>10, <1>12, <1>16, <1>17
       DEF w, rest, more, last, byte, n, g

\* What is handed to the decoder is the body that was written.
LEMMA WholeBody ==
  ASSUME TypeOK, StreamInv, ReadInv, call = "body", have = len
  PROVE  LET next == Len(got) + 1
         IN  /\ next \in 1..Len(sent)
             /\ SubSeq(stream, pos - len + 1, pos) = sent[next]
             /\ pos = bound[next + 1]
  <1> DEFINE next == Len(got) + 1
             body == sent[next]
             r    == Rounds(Len(body))
             part == SubSeq(stream, pos - len + 1, pos)
  <1>1. /\ Len(got) \in Nat /\ pos \in Nat /\ pos <= Len(stream)
        /\ len \in Nat /\ Len(stream) \in Nat /\ stream \in Seq(Byte)
    <2>1. got \in Seq(Decodable) /\ pos \in 0..Len(stream) /\ stream \in Seq(Byte) /\ len \in Nat
      BY DEF TypeOK
    <2> QED
      BY <2>1, LenProperties
  <1>2. next <= Len(sent) /\ len = Len(body) /\ pos = bound[next] + r + len
    BY DEF ReadInv
  <1>3. next \in 1..Len(sent) /\ body \in Bodies /\ bound[next] \in Nat
    BY <1>1, <1>2, StreamFacts
  <1>4. /\ body \in Seq(Byte) /\ r \in Nat /\ r > 0 /\ Len(Frame(body)) = r + len
        /\ \A x \in 1..(r + len) :
              Frame(body)[x] = IF x <= r THEN Varint(len)[x] ELSE body[x - r]
    BY <1>2, <1>3, FrameProperty
  <1>5. /\ bound[next + 1] = bound[next] + Len(Frame(body))
        /\ \A x \in 1..Len(Frame(body)) :
              bound[next] + x <= Len(stream) => stream[bound[next] + x] = Frame(body)[x]
    BY <1>3, Zenon DEF StreamInv
  <1> DEFINE b == bound[next]
             fr == Frame(body)
  <1>6. b \in Nat /\ pos = b + r + len
    BY <1>2, <1>3
  <1>7. part \in Seq(Byte) /\ Len(part) = len
        /\ \A i \in 1..len : part[i] = stream[(pos - len + 1) + i - 1]
    <2> DEFINE from == pos - len + 1
    <2>1. from \in Int /\ pos \in Int /\ from >= 1 /\ pos - from + 1 = len
      <3>1. b \in Nat /\ r \in Nat /\ r > 0 /\ len \in Nat /\ pos = b + r + len
        BY <1>1, <1>4, <1>6
      <3> HIDE DEF b, r
      <3> QED
        BY <3>1
    <2>2. \A i \in from..pos : stream[i] \in Byte
      BY <1>1, <2>1, ElementOfSeq
    <2>3. part \in Seq(Byte)
      BY <1>1, <2>1, <2>2, SubSeqProperties
    <2>4. Len(part) = len /\ \A i \in 1..len : part[i] = stream[from + i - 1]
      BY <1>1, <2>1, <2>2, SubSeqProperties
    <2> QED
      BY <2>3, <2>4
  <1>8. ASSUME NEW i \in 1..len PROVE part[i] = body[i]
    <2>1. i \in Nat /\ i >= 1 /\ i <= len
      BY <1>1
    <2>2. (pos - len + 1) + i - 1 = b + (r + i) /\ r + i \in 1..(r + len) /\ b + (r + i) <= Len(stream)
      <3>1. /\ b \in Nat /\ r \in Nat /\ r > 0 /\ len \in Nat /\ pos = b + r + len
            /\ pos <= Len(stream) /\ Len(stream) \in Nat
        BY <1>1, <1>4, <1>6
      <3> HIDE DEF b, r
      <3> QED
        BY <2>1, <3>1
    <2>3. part[i] = stream[b + (r + i)]
      BY <1>7, <2>2
    <2>4. r + i \in 1..Len(fr)
      BY <1>4, <2>2
    <2>5. stream[b + (r + i)] = fr[r + i]
      BY <1>5, <2>2, <2>4
    <2>6. fr[r + i] = body[(r + i) - r] /\ (r + i) - r = i
      BY <1>4, <2>1, <2>2
    <2> QED
      BY <2>3, <2>5, <2>6
  <1>9. part = body
    BY <1>2, <1>4, <1>7, <1>8, SeqEqual, ZenonT(60)
  <1>10. pos = bound[next + 1]
    <2>1. bound[next + 1] = b + (r + len)
      BY <1>4, <1>5
    <2>2. b \in Nat /\ r \in Nat /\ len \in Nat /\ pos = b + r + len
      BY <1>1, <1>4, <1>6
    <2> HIDE DEF b, r
    <2> QED
      BY <2>1, <2>2
  <1> QED
    BY <1>3, <1>9, <1>10

(***************************************************************************)
(* The steps.                                                              *)
(***************************************************************************)

\* What the writer appends lands behind the frames that are there.
LEMMA Appended ==
  ASSUME TypeOK, StreamInv, NEW body \in Bodies, WriteMessage(body)
  PROVE  /\ Len(sent') = Len(sent) + 1 /\ sent'[Len(sent) + 1] = body
         /\ \A i \in 1..Len(sent) : sent'[i] = sent[i]
         /\ Len(bound') = Len(sent) + 2
         /\ bound'[Len(sent) + 2] = Len(stream) + Len(Frame(body))
         /\ \A i \in 1..(Len(sent) + 1) : bound'[i] = bound[i]
         /\ Len(stream') = Len(stream) + Len(Frame(body))
         /\ \A x \in 1..Len(stream) : stream'[x] = stream[x]
         /\ \A x \in 1..Len(Frame(body)) : stream'[Len(stream) + x] = Frame(body)[x]
         /\ Len(stream) = bound[Len(sent) + 1]
  <1>1. stream \in Seq(Byte) /\ sent \in Seq(Bodies) /\ bound \in Seq(Nat) /\ Frame(body) \in Seq(Byte)
    BY FrameProperty DEF TypeOK
  <1>2. /\ stream' = stream \o Frame(body) /\ sent' = Append(sent, body) /\ live
        /\ bound' = Append(bound, Len(stream) + Len(Frame(body)))
    BY DEF WriteMessage
  <1>3. Len(bound) = Len(sent) + 1 /\ Len(stream) = bound[Len(sent) + 1]
    BY <1>2 DEF StreamInv
  <1>4. Len(stream) \in Nat /\ Len(sent) \in Nat /\ Len(Frame(body)) \in Nat
    BY <1>1, LenProperties
  <1>5. Len(sent') = Len(sent) + 1 /\ sent'[Len(sent) + 1] = body
        /\ \A i \in 1..Len(sent) : sent'[i] = sent[i]
    BY <1>1, <1>2, AppendProperties
  <1>6. /\ Len(bound') = Len(bound) + 1
        /\ bound'[Len(bound) + 1] = Len(stream) + Len(Frame(body))
        /\ \A i \in 1..Len(bound) : bound'[i] = bound[i]
    <2>1. Len(stream) + Len(Frame(body)) \in Nat
      BY <1>4
    <2> QED
      BY <1>1, <1>2, <2>1, AppendProperties
  <1>7. /\ Len(stream') = Len(stream) + Len(Frame(body))
        /\ \A i \in 1..(Len(stream) + Len(Frame(body))) :
              stream'[i] = IF i <= Len(stream) THEN stream[i] ELSE Frame(body)[i - Len(stream)]
    BY <1>1, <1>2, ConcatProperties
  <1>8. \A x \in 1..Len(stream) : stream'[x] = stream[x]
    BY <1>4, <1>7
  <1>9. \A x \in 1..Len(Frame(body)) : stream'[Len(stream) + x] = Frame(body)[x]
    <2> DEFINE f == Frame(body)
               m == Len(f)
               k == Len(stream)
    <2>1. \A x \in 1..m : k + x \in 1..(k + m) /\ ~(k + x <= k) /\ (k + x) - k = x
      BY <1>4
    <2> QED
      BY <1>7, <2>1
  <1>10. (Len(sent) + 1) + 1 = Len(sent) + 2
    BY <1>4
  <1> QED
    BY <1>3, <1>5, <1>6, <1>7, <1>8, <1>9, <1>10

\* The writer's invariant.
LEMMA StreamStep ==
  ASSUME TypeOK, StreamInv, [Next]_vars, noise = 0, noise' = 0
  PROVE  StreamInv'
  <1> DEFINE N == Len(sent)
             Stands(i) ==
               /\ bound'[i + 1] = bound'[i] + Len(Frame(sent'[i]))
               /\ bound'[i + 1] <= bound'[Len(sent') + 1]
               /\ \A x \in 1..Len(Frame(sent'[i])) :
                     bound'[i] + x <= Len(stream') => stream'[bound'[i] + x] = Frame(sent'[i])[x]
  <1>0. N \in Nat /\ Len(stream) \in Nat
        /\ (\A i \in 1..(N + 1) : bound[i] \in Nat) /\ (\A i \in 1..N : sent[i] \in Bodies)
    BY StreamFacts
  <1>1. ASSUME NEW body \in Bodies, WriteMessage(body) PROVE StreamInv'
    <2> DEFINE F == Len(Frame(body))
               L == Len(stream)
    <2>1. /\ Len(sent') = N + 1 /\ sent'[N + 1] = body
          /\ \A i \in 1..N : sent'[i] = sent[i]
      BY <1>1, Appended
    <2>2. /\ Len(bound') = N + 2 /\ bound'[N + 2] = L + F
          /\ (\A i \in 1..(N + 1) : bound'[i] = bound[i]) /\ L = bound[N + 1]
      BY <1>1, Appended
    <2>3. /\ Len(stream') = L + F
          /\ \A x \in 1..L : stream'[x] = stream[x]
          /\ \A x \in 1..F : stream'[L + x] = Frame(body)[x]
      BY <1>1, Appended
    <2>4. F \in Nat
      BY FrameProperty
    <2>5. ASSUME NEW i \in 1..N PROVE Stands(i)
      <3> DEFINE f == Frame(sent[i])
      <3>1. /\ bound[i + 1] = bound[i] + Len(f) /\ bound[i + 1] <= bound[N + 1]
            /\ \A x \in 1..Len(f) : bound[i] + x <= L => stream[bound[i] + x] = f[x]
        BY Zenon DEF StreamInv
      <3>2. i \in 1..(N + 1) /\ i + 1 \in 1..(N + 1) /\ (N + 1) + 1 = N + 2
        BY <1>0
      <3>3. bound'[i] = bound[i] /\ bound'[i + 1] = bound[i + 1] /\ sent'[i] = sent[i]
            /\ bound[i] \in Nat /\ bound[i + 1] \in Nat /\ Len(f) \in Nat
        BY <1>0, <2>1, <2>2, <3>2, FrameProperty, SMTT(30)
      <3> HIDE DEF f
      <3>4. bound'[i + 1] <= bound'[Len(sent') + 1]
        BY <1>0, <2>1, <2>2, <2>4, <3>1, <3>2, <3>3
      <3>5. ASSUME NEW x \in 1..Len(f) PROVE stream'[bound'[i] + x] = f[x]
        <4>1. bound[i] + x \in 1..L
          BY <1>0, <2>2, <3>1, <3>3, SMTT(30)
        <4>2. bound[i] + x <= L
          BY <1>0, <4>1
        <4>3. stream[bound[i] + x] = f[x]
          BY <3>1, <4>2
        <4>4. stream'[bound[i] + x] = stream[bound[i] + x]
          BY <2>3, <4>1
        <4> QED
          BY <3>3, <4>3, <4>4, Zenon
      <3> QED
        BY <3>1, <3>3, <3>4, <3>5 DEF f
    <2>6. Stands(N + 1)
      <3>1. bound'[N + 1] = L /\ bound'[(N + 1) + 1] = L + F /\ Len(sent') + 1 = (N + 1) + 1
            /\ sent'[N + 1] = body
        BY <1>0, <2>1, <2>2
      <3> QED
        BY <1>0, <2>3, <2>4, <3>1
    <2>7. \A i \in 1..Len(sent') : Stands(i)
      <3>1. \A i \in 1..Len(sent') : i \in 1..N \/ i = N + 1
        BY <1>0, <2>1
      <3> HIDE DEF Stands
      <3> QED
        BY <2>5, <2>6, <3>1
    <2>8. bound'[1] = 0 /\ Len(bound') = Len(sent') + 1
      BY <1>0, <2>1, <2>2 DEF StreamInv
    <2>9. Len(stream') = bound'[Len(sent') + 1] /\ Len(stream') <= bound'[Len(sent') + 1]
      BY <1>0, <2>1, <2>2, <2>3, <2>4
    <2> QED
      BY <2>7, <2>8, <2>9 DEF StreamInv
  <1>2. ASSUME Close PROVE StreamInv'
    <2>1. PICK k \in pos..Len(stream) : stream' = SubSeq(stream, 1, k)
      BY <1>2 DEF Close
    <2>2. ~live' /\ sent' = sent /\ bound' = bound
      BY <1>2 DEF Close
    <2>3. k \in Nat /\ k <= Len(stream) /\ stream \in Seq(Byte)
      BY <1>0, <2>1 DEF TypeOK
    <2>4. Len(stream') = k /\ \A x \in 1..k : stream'[x] = stream[x]
      <3>1. \A x \in 1..k : stream[x] \in Byte
        BY <1>0, <2>3, ElementOfSeq
      <3> QED
        BY <2>1, <2>3, <3>1, SubSeqProperties
    <2>5. ASSUME NEW i \in 1..N PROVE Stands(i)
      <3> DEFINE f == Frame(sent[i])
      <3>1. /\ bound[i + 1] = bound[i] + Len(f) /\ bound[i + 1] <= bound[N + 1]
            /\ \A x \in 1..Len(f) : bound[i] + x <= Len(stream) => stream[bound[i] + x] = f[x]
        BY Zenon DEF StreamInv
      <3>2. bound[i] \in Nat /\ Len(f) \in Nat
        BY <1>0, FrameProperty
      <3> HIDE DEF f
      <3>3. ASSUME NEW x \in 1..Len(f), bound[i] + x <= k PROVE stream'[bound[i] + x] = f[x]
        <4>1. bound[i] + x \in 1..k /\ bound[i] + x <= Len(stream)
          BY <1>0, <2>3, <3>2, <3>3
        <4> QED
          BY <2>4, <3>1, <4>1
      <3> QED
        BY <2>2, <2>4, <3>1, <3>3 DEF f
    <2>6. Len(stream') <= bound'[Len(sent') + 1] /\ bound'[1] = 0 /\ Len(bound') = Len(sent') + 1
      <3>1. Len(stream) <= bound[N + 1] /\ bound[N + 1] \in Nat /\ bound[1] = 0 /\ Len(bound) = N + 1
        BY <1>0 DEF StreamInv
      <3> QED
        BY <1>0, <2>2, <2>3, <2>4, <3>1
    <2> QED
      BY <2>2, <2>5, <2>6 DEF StreamInv
  <1>3. ASSUME UNCHANGED <<stream, live, sent, bound>> PROVE StreamInv'
    BY <1>3, Zenon DEF StreamInv
  <1>4. CASE WriteNoise
    BY <1>4 DEF WriteNoise
  <1>5. CASE Call \/ ReadLength \/ ReadBody \/ Decode \/ ReadFail \/ UNCHANGED vars
    BY <1>3, <1>5, Zenon DEF Call, ReadLength, ReadBody, Decode, ReadFail, vars, writer
  <1> QED
    BY <1>1, <1>2, <1>4, <1>5 DEF Next

\* Nothing is left of what the reader met when there is more to write.
LEMMA WriterKeepsReader ==
  ASSUME TypeOK, StreamInv, ReadInv, RefusedForCause, noise = 0,
         NEW body \in Bodies, WriteMessage(body)
  PROVE  ReadInv' /\ RefusedForCause'
  <1> DEFINE next == Len(got) + 1
             N    == Len(sent)
  <1>1. /\ got' = got /\ call' = call /\ pos' = pos /\ shift' = shift /\ len' = len
        /\ have' = have /\ error' = error /\ noise' = noise
    BY Zenon DEF WriteMessage, reader
  <1>2. /\ Len(sent') = N + 1 /\ sent'[N + 1] = body
        /\ \A i \in 1..N : sent'[i] = sent[i]
        /\ \A i \in 1..(N + 1) : bound'[i] = bound[i]
    BY Appended
  <1>3. N \in Nat /\ Len(got) \in Nat /\ Len(got) <= N /\ shift \in Nat
    <2>1. got \in Seq(Decodable)
      BY DEF TypeOK
    <2> QED
      BY <2>1, LenProperties, StreamFacts, Powers DEF TypeOK, ReadInv
  <1>4. bound'[next] = bound[next] /\ (next <= N => sent'[next] = sent[next])
    <2>1. next \in 1..(N + 1) /\ (next <= N => next \in 1..N)
      BY <1>3
    <2> QED
      BY <1>2, <2>1
  <1>5. Len(got) <= N + 1 /\ \A i \in 1..Len(got) : got[i] = sent'[i]
    <2>1. \A i \in 1..Len(got) : got[i] = sent[i] /\ i \in 1..N
      BY <1>3 DEF ReadInv
    <2> QED
      BY <1>2, <1>3, <2>1
  <1>6. ASSUME next <= N + 1, ~(next <= N), call = "length"
        PROVE  0 < Rounds(Len(body)) /\ Len(body) = len + BASE^shift * Rest(Len(body), shift)
               /\ shift = 0 /\ sent'[next] = body
    <2>1. shift = 0 /\ len = 0 /\ next = N + 1
      BY <1>3, <1>6 DEF ReadInv
    <2>2. Rest(Len(body), 0) = Len(body) /\ BASE^0 = 1 /\ Len(body) \in Nat
          /\ Rounds(Len(body)) > 0
      BY FrameProperty, RestStep, Powers
    <2> QED
      BY <1>2, <2>1, <2>2
  <1> DEFINE n == Len(sent'[next])
  <1>7. call = "length" =>
          /\ pos = bound[next] + shift /\ have = 0
          /\ shift = 0 => len = 0
          /\ shift > 0 => next <= N + 1
          /\ next <= N + 1 => shift < Rounds(n) /\ n = len + BASE^shift * Rest(n, shift)
    <2> SUFFICES ASSUME call = "length"
                 PROVE  /\ pos = bound[next] + shift /\ have = 0
                        /\ shift = 0 => len = 0
                        /\ shift > 0 => next <= N + 1
                        /\ next <= N + 1 => shift < Rounds(n) /\ n = len + BASE^shift * Rest(n, shift)
      OBVIOUS
    <2>1. pos = bound[next] + shift /\ have = 0 /\ (shift = 0 => len = 0) /\ (shift > 0 => next <= N)
      BY Zenon DEF ReadInv
    <2>2. CASE next <= N
      <3>1. shift < Rounds(Len(sent[next]))
            /\ Len(sent[next]) = len + BASE^shift * Rest(Len(sent[next]), shift)
        BY <2>2, Zenon DEF ReadInv
      <3>2. shift < Rounds(n) /\ n = len + BASE^shift * Rest(n, shift)
        BY <1>4, <2>2, <3>1, Zenon
      <3> QED
        BY <1>3, <2>1, <2>2, <3>2
    <2>3. CASE ~(next <= N)
      <3>1. next <= N + 1 => shift < Rounds(n) /\ n = len + BASE^shift * Rest(n, shift)
        BY <1>6, <2>3
      <3> QED
        BY <1>3, <2>1, <2>3, <3>1
    <2> QED
      BY <2>2, <2>3
  <1>8. call = "body" =>
          /\ next <= N + 1 /\ len = n /\ pos = bound[next] + Rounds(n) + have
    <2> SUFFICES ASSUME call = "body"
                 PROVE  next <= N + 1 /\ len = n /\ pos = bound[next] + Rounds(n) + have
      OBVIOUS
    <2>1. next <= N /\ len = Len(sent[next]) /\ pos = bound[next] + Rounds(Len(sent[next])) + have
      BY Zenon DEF ReadInv
    <2>2. len = n /\ pos = bound[next] + Rounds(n) + have
      BY <1>4, <2>1, Zenon
    <2> QED
      BY <1>3, <2>1, <2>2
  <1>9. call = "idle" => pos = bound[next]
    BY Zenon DEF ReadInv
  <1>10. ReadInv'
    <2> HIDE DEF n
    <2> QED
      BY <1>1, <1>2, <1>4, <1>5, <1>7, <1>8, <1>9, Zenon DEF ReadInv, n
  <1>11. RefusedForCause'
    <2> SUFFICES ASSUME error \in {"varint_too_long", "frame_exceeds_limit", "undecodable"}
                 PROVE  /\ Len(got) < N + 1
                        /\ LET b == sent'[next]
                           IN  IF error = "undecodable" THEN b \notin Decodable
                               ELSE Len(b) > MAX_FRAME
                                    /\ (error = "varint_too_long" => Len(b) >= BASE^GROUPS)
      BY <1>1, <1>2 DEF RefusedForCause
    <2>1. Len(got) < N
      BY DEF RefusedForCause
    <2>2. sent'[next] = sent[next] /\ Len(got) < N + 1
      BY <1>3, <1>4, <2>1
    <2>3. LET b == sent[next]
          IN  IF error = "undecodable" THEN b \notin Decodable
              ELSE Len(b) > MAX_FRAME /\ (error = "varint_too_long" => Len(b) >= BASE^GROUPS)
      BY Zenon DEF RefusedForCause
    <2> QED
      BY <2>2, <2>3, Zenon
  <1> QED
    BY <1>10, <1>11

\* One round of the loop over the length, and its end.
LEMMA LengthStep ==
  ASSUME TypeOK, StreamInv, ReadInv, RefusedForCause, noise = 0, ReadLength
  PROVE  ReadInv' /\ RefusedForCause'
  <1> DEFINE next  == Len(got) + 1
             n     == Len(sent[next])
             byte  == stream[pos + 1]
             total == len + (byte % BASE) * BASE^shift
             more  == Rest(n, shift + 1)
  <1>1. /\ call = "length" /\ pos < Len(stream) /\ pos' = pos + 1 /\ len' = total /\ have' = have
        /\ UNCHANGED <<stream, live, sent, bound, noise, got>>
    BY DEF ReadLength, Fits, writer
  <1>2. /\ next <= Len(sent)
        /\ n \in Nat /\ n < BASE^(2 * GROUPS) /\ Rounds(n) \in Nat
        /\ byte \in Nat /\ total \in Nat
        /\ shift \in 0..(2 * GROUPS - 1) /\ shift + 1 <= Rounds(n)
        /\ (byte < BASE <=> shift + 1 = Rounds(n))
        /\ n = total + BASE^(shift + 1) * more
        /\ (shift + 1 < Rounds(n) => more # 0)
        /\ (shift + 1 = Rounds(n) => total = n)
    BY <1>1, NextByte
  <1>3. \/ byte < BASE /\ total <= MAX_FRAME /\ call' = "body" /\ shift' = shift /\ error' = error
        \/ byte < BASE /\ total > MAX_FRAME /\ Err("frame_exceeds_limit") /\ shift' = shift
        \/ byte >= BASE /\ shift = GROUPS - 1 /\ Err("varint_too_long") /\ shift' = shift
        \/ byte >= BASE /\ shift' = shift + 1 /\ call' = call /\ error' = error
    <2>1. \/ byte < BASE /\ Fits(total) /\ call' = "body" /\ shift' = shift /\ error' = error
          \/ byte < BASE /\ ~Fits(total) /\ Err("frame_exceeds_limit") /\ shift' = shift
          \/ byte >= BASE /\ shift = GROUPS - 1 /\ Err("varint_too_long") /\ shift' = shift
          \/ byte >= BASE /\ shift' = shift + 1 /\ call' = call /\ error' = error
      BY DEF ReadLength
    <2>2. Fits(total) => total <= MAX_FRAME
      BY DEF Fits
    <2>3. ~Fits(total) => total > MAX_FRAME
      BY <1>2, FramingAssumption DEF Fits
    <2> QED
      BY <2>1, <2>2, <2>3, Zenon
  <1>4. pos = bound[next] + shift /\ have = 0 /\ Len(got) <= Len(sent)
        /\ \A i \in 1..Len(got) : got[i] = sent[i]
    BY <1>1, Zenon DEF ReadInv
  <1>5. /\ Len(got) \in Nat /\ Len(sent) \in Nat /\ shift \in Nat /\ have = 0
        /\ bound[next] \in Nat /\ BASE \in Nat /\ GROUPS \in Nat /\ MAX_FRAME \in Nat
    <2>1. got \in Seq(Decodable) /\ have \in Nat
      BY DEF TypeOK
    <2>2. Len(got) \in Nat /\ Len(sent) \in Nat
      BY <2>1, LenProperties, StreamFacts
    <2>3. have = 0
      BY <1>4
    <2>4. next \in 1..(Len(sent) + 1)
      BY <1>2, <2>2
    <2>5. bound[next] \in Nat /\ MAX_FRAME \in Nat
      BY <2>4, StreamFacts, FramingAssumption
    <2>6. shift \in Nat
      BY Powers DEF TypeOK
    <2> QED
      BY <2>2, <2>3, <2>5, <2>6, Powers
  <1> DEFINE last == Rounds(n)
             b    == bound[next]
  <1>a. /\ n \in Nat /\ last \in Nat /\ total \in Nat /\ byte \in Nat /\ b \in Nat
        /\ shift + 1 <= last /\ (byte < BASE <=> shift + 1 = last)
        /\ (shift + 1 = last => total = n) /\ pos = b + shift
    BY <1>2, <1>4, <1>5
  <1> HIDE DEF n, total, more, last, b
  <1>6. CASE byte < BASE /\ total <= MAX_FRAME /\ call' = "body" /\ shift' = shift /\ error' = error
    <2>1. len' = n /\ pos' = bound[next] + Rounds(n) + have'
      <3>1. len' = n /\ pos' = b + last + have'
        BY <1>1, <1>5, <1>6, <1>a
      <3> QED
        BY <3>1 DEF b, last
    <2>2. ReadInv'
      BY <1>1, <1>2, <1>4, <1>6, <2>1 DEF ReadInv, n
    <2>3. RefusedForCause'
      BY <1>1, <1>6, Zenon DEF RefusedForCause
    <2> QED
      BY <2>2, <2>3
  <1>7. CASE byte < BASE /\ total > MAX_FRAME /\ Err("frame_exceeds_limit") /\ shift' = shift
    <2>1. n > MAX_FRAME /\ Len(got) < Len(sent)
      BY <1>2, <1>5, <1>7
    <2>2. call' = "failed" /\ error' = "frame_exceeds_limit"
      BY <1>7 DEF Err
    <2>3. ReadInv'
      BY <1>1, <1>4, <2>2 DEF ReadInv
    <2>4. RefusedForCause'
      BY <1>1, <2>1, <2>2 DEF RefusedForCause, n
    <2> QED
      BY <2>3, <2>4
  <1>8. CASE byte >= BASE /\ shift = GROUPS - 1 /\ Err("varint_too_long") /\ shift' = shift
    <2>1. shift + 1 = GROUPS /\ more # 0 /\ Len(got) < Len(sent)
      BY <1>2, <1>5, <1>8, SMTT(30)
    <2>2. more = n \div BASE^GROUPS /\ BASE^GROUPS \in Nat \ {0} /\ MAX_FRAME < BASE^GROUPS
      <3>1. GROUPS \in 0..(2 * GROUPS)
        BY Powers
      <3>2. BASE^GROUPS \in Nat \ {0}
        BY <3>1, Powers
      <3> QED
        BY <2>1, <3>2, FramingAssumption DEF more, Rest
    <2>3. n >= BASE^GROUPS /\ n > MAX_FRAME
      <3> DEFINE w == BASE^GROUPS
      <3>1. w \in Nat \ {0} /\ MAX_FRAME < w /\ n \div w # 0
        BY <2>1, <2>2
      <3> HIDE DEF w
      <3>2. n >= w /\ n > MAX_FRAME
        BY <1>5, <1>a, <3>1
      <3> QED
        BY <3>2 DEF w
    <2>4. call' = "failed" /\ error' = "varint_too_long"
      BY <1>8 DEF Err
    <2>5. ReadInv'
      BY <1>1, <1>4, <2>4 DEF ReadInv
    <2>6. RefusedForCause'
      BY <1>1, <2>1, <2>3, <2>4 DEF RefusedForCause, n
    <2> QED
      BY <2>5, <2>6
  <1>9. CASE byte >= BASE /\ shift' = shift + 1 /\ call' = call /\ error' = error
    <2>1. shift' < Rounds(n) /\ pos' = bound[next] + shift' /\ shift' # 0 /\ call' = "length"
          /\ have' = 0
      <3>1. shift' < last /\ pos' = b + shift' /\ shift' # 0
        BY <1>1, <1>5, <1>9, <1>a
      <3> QED
        BY <1>1, <1>5, <1>9, <3>1 DEF b, last
    <2>2. n = len' + BASE^shift' * Rest(n, shift')
      BY <1>1, <1>2, <1>9, Zenon DEF more
    <2>3. /\ Len(got') <= Len(sent') /\ \A i \in 1..Len(got') : got'[i] = sent'[i]
          /\ Len(got') + 1 = next /\ next <= Len(sent') /\ bound' = bound /\ Len(sent'[next]) = n
      BY <1>1, <1>2, <1>4, Zenon DEF n
    <2>4. ReadInv'
      <3>1. error' = "none" /\ shift' > 0
        <4>1. error' = "none"
          BY <1>1, <1>9, Zenon DEF ReadInv
        <4> QED
          BY <1>5, <1>9, <4>1
      <3>2. call' # "idle" /\ call' # "body"
        BY <2>1
      <3> QED
        BY <2>1, <2>2, <2>3, <3>1, <3>2, Zenon DEF ReadInv
    <2>5. RefusedForCause'
      BY <1>1, <1>9, Zenon DEF RefusedForCause
    <2> QED
      BY <2>4, <2>5
  <1> QED
    BY <1>3, <1>6, <1>7, <1>8, <1>9

\* A complete body.
LEMMA DecodeStep ==
  ASSUME TypeOK, StreamInv, ReadInv, RefusedForCause, noise = 0, Decode
  PROVE  ReadInv' /\ RefusedForCause'
  <1> DEFINE next == Len(got) + 1
             body == SubSeq(stream, pos - len + 1, pos)
  <1>1. /\ call = "body" /\ have = len /\ pos' = pos
        /\ UNCHANGED <<stream, live, sent, bound, noise>>
        /\ \/ body \in Decodable /\ got' = Append(got, body) /\ call' = "idle" /\ error' = error
           \/ body \notin Decodable /\ Err("undecodable") /\ got' = got
    BY DEF Decode, writer
  <1>2. next \in 1..Len(sent) /\ body = sent[next] /\ pos = bound[next + 1]
    BY <1>1, WholeBody
  <1>3. Len(got) <= Len(sent) /\ \A i \in 1..Len(got) : got[i] = sent[i]
    BY Zenon DEF ReadInv
  <1>4. Len(got) \in Nat /\ Len(sent) \in Nat /\ got \in Seq(Decodable)
    <2>1. got \in Seq(Decodable)
      BY DEF TypeOK
    <2> QED
      BY <2>1, LenProperties, StreamFacts
  <1> HIDE DEF body
  <1>5. ASSUME body \in Decodable, got' = Append(got, body), call' = "idle", error' = error
        PROVE  ReadInv' /\ RefusedForCause'
    <2>1. /\ Len(got') = next /\ got'[next] = body
          /\ \A i \in 1..Len(got) : got'[i] = got[i]
      BY <1>4, <1>5, AppendProperties
    <2>2. Len(got') <= Len(sent) /\ \A i \in 1..Len(got') : got'[i] = sent[i]
      <3>1. \A i \in 1..next : i \in 1..Len(got) \/ i = next
        BY <1>4
      <3> QED
        BY <1>2, <1>3, <1>4, <2>1, <3>1
    <2>3. ReadInv'
      <3>1. pos' = bound'[Len(got') + 1] /\ call' # "length" /\ call' # "body"
        BY <1>1, <1>2, <1>5, <2>1
      <3>2. error' = "none"
        BY <1>1, <1>5, Zenon DEF ReadInv
      <3> QED
        BY <1>1, <2>2, <3>1, <3>2, Zenon DEF ReadInv
    <2>4. error' = "none"
      BY <1>1, <1>5, Zenon DEF ReadInv
    <2>5. RefusedForCause'
      BY <2>4 DEF RefusedForCause
    <2> QED
      BY <2>3, <2>5
  <1>6. ASSUME body \notin Decodable, Err("undecodable"), got' = got
        PROVE  ReadInv' /\ RefusedForCause'
    <2>1. call' = "failed" /\ error' = "undecodable"
      BY <1>6 DEF Err
    <2>2. ReadInv'
      BY <1>1, <1>3, <1>6, <2>1 DEF ReadInv
    <2>3. RefusedForCause'
      <3>1. Len(got) < Len(sent)
        BY <1>2, <1>4
      <3> QED
        BY <1>1, <1>2, <1>6, <2>1, <3>1 DEF RefusedForCause
    <2> QED
      BY <2>2, <2>3
  <1> QED
    BY <1>1, <1>5, <1>6

\* Every other step of the reader, and the end of the connection.
LEMMA OtherStep ==
  ASSUME TypeOK, StreamInv, ReadInv, RefusedForCause, noise = 0,
         Close \/ Call \/ ReadBody \/ ReadFail \/ UNCHANGED vars
  PROVE  ReadInv' /\ RefusedForCause'
  <1> DEFINE next == Len(got) + 1
  <1>1. Len(got) <= Len(sent) /\ \A i \in 1..Len(got) : got[i] = sent[i]
    BY Zenon DEF ReadInv
  <1>2. UNCHANGED <<sent, bound, got>>
    BY Zenon DEF Close, Call, ReadBody, ReadFail, vars, writer
  <1>3. ASSUME UNCHANGED <<pos, reader, error>> PROVE ReadInv' /\ RefusedForCause'
    <2>1. ReadInv'
      BY <1>2, <1>3, Zenon DEF ReadInv, reader
    <2>2. RefusedForCause'
      <3>1. RefusedForCause
        OBVIOUS
      <3>2. noise' = 0 => noise = 0
        OBVIOUS
      <3> QED
        BY <1>2, <1>3, <3>1, Zenon DEF RefusedForCause
    <2> QED
      BY <2>1, <2>2
  <1>4. CASE Close \/ UNCHANGED vars
    <2>1. UNCHANGED <<pos, reader, error>>
      BY <1>4, Zenon DEF Close, vars
    <2> QED
      BY <1>3, <2>1
  <1>5. CASE Call
    <2>1. call = "idle" /\ call' = "length" /\ shift' = 0 /\ len' = 0 /\ have' = 0
          /\ UNCHANGED <<writer, pos, error, got>>
      BY <1>5 DEF Call
    <2>2. pos = bound[next] /\ error = "none"
      BY <2>1, Zenon DEF ReadInv
    <2>3. Len(got) \in Nat /\ Len(sent) \in Nat /\ bound[next] \in Nat
      <3>1. got \in Seq(Decodable)
        BY DEF TypeOK
      <3>2. Len(got) \in Nat /\ Len(sent) \in Nat
        BY <3>1, LenProperties, StreamFacts
      <3>3. next \in 1..(Len(sent) + 1)
        BY <1>1, <3>2
      <3> QED
        BY <3>2, <3>3, StreamFacts
    <2> DEFINE n == Len(sent[next])
    <2>4. next <= Len(sent) => 0 < Rounds(n) /\ n = 0 + BASE^0 * Rest(n, 0)
      <3> SUFFICES ASSUME next <= Len(sent)
                   PROVE  0 < Rounds(n) /\ n = 0 + BASE^0 * Rest(n, 0)
        OBVIOUS
      <3>1. next \in 1..Len(sent)
        BY <2>3
      <3>2. sent[next] \in Bodies
        BY <3>1, StreamFacts
      <3>3. n \in Nat /\ Rounds(n) > 0 /\ Rounds(n) \in Nat
        BY <3>2, FrameProperty
      <3>4. Rest(n, 0) = n /\ BASE^0 = 1
        <4>1. 0 \in 0..(2 * GROUPS)
          BY Powers
        <4> QED
          BY <3>3, <4>1, RestStep, Powers, Zenon
      <3> HIDE DEF n
      <3> QED
        BY <3>3, <3>4
    <2> HIDE DEF n
    <2>5. ReadInv'
      <3>1. pos' = bound[next] + shift' /\ shift' = 0 /\ ~(shift' > 0)
        BY <2>1, <2>2, <2>3
      <3>2. next <= Len(sent) => shift' < Rounds(n) /\ n = len' + BASE^shift' * Rest(n, shift')
        BY <2>1, <2>4, Zenon
      <3>3. call' = "length" /\ len' = 0 /\ have' = 0 /\ error' = "none"
        BY <2>1, <2>2
      <3> QED
        BY <1>1, <1>2, <3>1, <3>2, <3>3, Zenon DEF ReadInv, n
    <2>6. RefusedForCause'
      BY <2>1, <2>2 DEF RefusedForCause
    <2> QED
      BY <2>5, <2>6
  <1>6. CASE ReadBody
    <2>1. /\ call = "body" /\ pos' = pos + 1 /\ have' = have + 1
          /\ UNCHANGED <<writer, call, shift, len, error, got>>
      BY <1>6 DEF ReadBody
    <2> DEFINE n == Len(sent[next])
               b == bound[next]
               r == Rounds(n)
    <2>2. next <= Len(sent) /\ len = n /\ pos = b + r + have /\ error = "none"
      BY <2>1, Zenon DEF ReadInv
    <2>3. have \in Nat /\ b \in Nat /\ r \in Nat
      <3>1. got \in Seq(Decodable) /\ have \in Nat
        BY DEF TypeOK
      <3>2. Len(got) \in Nat /\ Len(sent) \in Nat
        BY <3>1, LenProperties, StreamFacts
      <3>3. next \in 1..Len(sent) /\ next \in 1..(Len(sent) + 1)
        BY <2>2, <3>2
      <3>4. sent[next] \in Bodies /\ b \in Nat
        BY <3>3, StreamFacts
      <3> QED
        BY <3>1, <3>4, FrameProperty
    <2> HIDE DEF n, b, r
    <2>4. pos' = b + r + have'
      BY <2>1, <2>2, <2>3
    <2>5. ReadInv'
      BY <1>1, <1>2, <2>1, <2>2, <2>4 DEF ReadInv, n, b, r
    <2>6. RefusedForCause'
      BY <2>1, <2>2 DEF RefusedForCause
    <2> QED
      BY <2>5, <2>6
  <1>7. CASE ReadFail
    <2>1. call' = "failed" /\ error' \in {"timeout", "eof"}
      BY <1>7 DEF ReadFail, Err
    <2>2. ReadInv'
      BY <1>1, <1>2, <2>1 DEF ReadInv
    <2>3. RefusedForCause'
      BY <2>1 DEF RefusedForCause
    <2> QED
      BY <2>2, <2>3
  <1> QED
    BY <1>4, <1>5, <1>6, <1>7

LEMMA InvInit == Init => FramingInv
  <1> SUFFICES ASSUME Init PROVE FramingInv
    OBVIOUS
  <1>1. /\ stream = <<>> /\ sent = <<>> /\ bound = <<0>> /\ pos = 0 /\ call = "idle"
        /\ error = "none" /\ got = <<>>
    BY DEF Init
  <1>2. Len(<<>>) = 0 /\ Len(<<0>>) = 1 /\ <<0>>[1] = 0
    OBVIOUS
  <1>3. StreamInv
    BY <1>1, <1>2 DEF StreamInv
  <1>4. ReadInv /\ RefusedForCause
    BY <1>1, <1>2 DEF ReadInv, RefusedForCause
  <1> QED
    BY <1>3, <1>4, InitType DEF FramingInv

LEMMA InvStep == FramingInv /\ [Next]_vars => FramingInv'
  <1> SUFFICES ASSUME FramingInv, [Next]_vars PROVE FramingInv'
    OBVIOUS
  <1>1. TypeOK /\ TypeOK'
    BY TypeStep DEF FramingInv
  <1>2. ASSUME noise' = 0 PROVE StreamInv' /\ ReadInv' /\ RefusedForCause'
    <2>1. noise = 0
      <3>1. WriteNoise => noise' = noise + 1
        BY DEF WriteNoise
      <3>2. noise' = noise \/ noise' = noise + 1
        BY <3>1, Zenon DEF Next, WriteMessage, Close, Call, ReadLength, ReadBody, Decode,
                           ReadFail, vars, writer
      <3> QED
        BY <1>1, <1>2, <3>2 DEF TypeOK
    <2>2. StreamInv /\ ReadInv /\ RefusedForCause
      BY <2>1 DEF FramingInv
    <2>3. StreamInv'
      BY <1>1, <1>2, <2>1, <2>2, StreamStep
    <2>4. CASE WriteNoise
      <3>1. noise' = 1
        BY <2>1, <2>4 DEF WriteNoise
      <3> QED
        BY <1>2, <3>1
    <2>5. CASE \E body \in Bodies : WriteMessage(body)
      BY <1>1, <2>1, <2>2, <2>3, <2>5, WriterKeepsReader
    <2>6. CASE ReadLength
      BY <1>1, <2>1, <2>2, <2>3, <2>6, LengthStep
    <2>7. CASE Decode
      BY <1>1, <2>1, <2>2, <2>3, <2>7, DecodeStep
    <2>8. CASE Close \/ Call \/ ReadBody \/ ReadFail \/ UNCHANGED vars
      BY <1>1, <2>1, <2>2, <2>3, <2>8, OtherStep
    <2> QED
      BY <2>4, <2>5, <2>6, <2>7, <2>8 DEF Next
  <1> QED
    BY <1>1, <1>2 DEF FramingInv

(***************************************************************************)
(* The theorems.                                                           *)
(***************************************************************************)

\* The reader's buffer and its loop stay in their bounds whatever bytes the
\* peer sends (read_message's limits).
THEOREM ReaderStaysInBounds == Spec => []TypeOK
  <1>1. TypeOK /\ [Next]_vars => TypeOK'
    BY TypeStep
  <1> QED
    BY InitType, <1>1, PTL DEF Spec

\* For any base, limit and bodies, and however the reads of the connection time
\* out or fail, read_message returns what write_message wrote, in its order.
THEOREM MessagesArriveInOrder == Spec => []InOrder
  <1>1. FramingInv => InOrder
    BY Zenon DEF FramingInv, ReadInv, InOrder
  <1> QED
    BY InvInit, InvStep, <1>1, PTL DEF Spec

\* The limits of read_message accept every length that write_message writes, up
\* to MAX_FRAME: five groups are enough for it.
THEOREM LimitsFitTheWriter == Spec => []RefusedForCause
  <1>1. FramingInv => RefusedForCause
    BY Zenon DEF FramingInv, RefusedForCause
  <1> QED
    BY InvInit, InvStep, <1>1, PTL DEF Spec

(***************************************************************************)
(* The messages that are whole: Framing implements Channel.                *)
(***************************************************************************)

\* Between the frames that begin at b and a stream of length l, one number of
\* whole messages fits.
LEMMA WholeExists ==
  ASSUME NEW n \in Nat, NEW l \in Nat, NEW b, b[1] = 0, \A i \in 1..(n + 1) : b[i] \in Nat
  PROVE  \E k \in 0..n : b[k + 1] <= l /\ \A i \in (k + 2)..(n + 1) : b[i] > l
  <1> DEFINE T == {k \in Nat : k <= n /\ \A i \in (k + 2)..(n + 1) : b[i] > l}
  <1>1. n \in T /\ T \in SUBSET Nat
    OBVIOUS
  <1>2. PICK k \in T : \A y \in T : k <= y
    <2> HIDE DEF T
    <2> QED
      BY <1>1, LeastNat
  <1>3. k \in Nat /\ k <= n /\ \A i \in (k + 2)..(n + 1) : b[i] > l
    BY <1>2
  <1>4. CASE k = 0
    <2>1. k + 1 = 1 /\ k \in 0..n
      BY <1>3, <1>4
    <2>2. b[k + 1] = 0
      BY <2>1
    <2>3. b[k + 1] <= l
      BY <2>2
    <2> QED
      BY <1>3, <2>1, <2>3
  <1>5. CASE k # 0
    <2>1. k - 1 \in Nat /\ ~(k <= k - 1)
      BY <1>3, <1>5
    <2>2. k - 1 \notin T
      BY <1>2, <2>1, Zenon
    <2>3. PICK i \in (k + 1)..(n + 1) : ~(b[i] > l)
      <3>1. (k - 1) + 2 = k + 1 /\ k - 1 <= n
        BY <1>3
      <3> QED
        BY <2>1, <2>2, <3>1
    <2>4. i = k + 1
      BY <1>3, <2>3
    <2>5. b[k + 1] \in Nat
      BY <1>3
    <2>6. b[k + 1] <= l
      BY <2>3, <2>4, <2>5
    <2> QED
      BY <1>3, <2>6
  <1> QED
    BY <1>4, <1>5

\* It is the largest number whose messages end in the stream.
LEMMA WholeLargest ==
  ASSUME NEW n \in Nat, NEW l \in Nat, NEW b, \A i \in 1..(n + 1) : b[i] \in Nat,
         NEW w \in 0..n, \A i \in (w + 2)..(n + 1) : b[i] > l,
         NEW k \in 0..n, b[k + 1] <= l
  PROVE  k <= w
  <1> SUFFICES ASSUME w < k PROVE FALSE
    OBVIOUS
  <1>1. k + 1 \in (w + 2)..(n + 1) /\ k + 1 \in 1..(n + 1)
    OBVIOUS
  <1>2. b[k + 1] > l /\ b[k + 1] \in Nat
    BY <1>1
  <1> QED
    BY <1>2

\* What is left of a sequence when the first m and what is behind w are off.
LEMMA LeftProperty ==
  ASSUME NEW S, NEW s \in Seq(S), NEW m \in Nat, NEW w \in 0..Len(s), m <= w
  PROVE  /\ SubSeq(s, m + 1, w) \in Seq(S) /\ Len(SubSeq(s, m + 1, w)) = w - m
         /\ \A i \in 1..(w - m) : SubSeq(s, m + 1, w)[i] = s[m + i]
         /\ SubSeq(s, m + 1, w) = <<>> <=> m = w
  <1>0. Len(s) \in Nat /\ w \in Nat /\ m + 1 \in Int /\ w \in Int
    BY LenProperties
  <1>1. \A i \in (m + 1)..w : s[i] \in S
    <2> TAKE i \in (m + 1)..w
    <2>1. i \in 1..Len(s)
      BY <1>0
    <2> QED
      BY <2>1, ElementOfSeq
  <1>2. /\ SubSeq(s, m + 1, w) \in Seq(S)
        /\ Len(SubSeq(s, m + 1, w)) = IF m + 1 <= w THEN w - (m + 1) + 1 ELSE 0
        /\ \A i \in 1..(w - (m + 1) + 1) : SubSeq(s, m + 1, w)[i] = s[(m + 1) + i - 1]
    BY <1>0, <1>1, SubSeqProperties
  <1>3. Len(SubSeq(s, m + 1, w)) = w - m
    BY <1>0, <1>2
  <1>4. \A i \in 1..(w - m) : SubSeq(s, m + 1, w)[i] = s[m + i]
    <2>1. w - (m + 1) + 1 = w - m /\ \A i \in 1..(w - m) : (m + 1) + i - 1 = m + i
      BY <1>0
    <2> QED
      BY <1>2, <2>1
  <1>5. SubSeq(s, m + 1, w) = <<>> <=> m = w
    <2>1. SubSeq(s, m + 1, w) = <<>> <=> Len(SubSeq(s, m + 1, w)) = 0
      BY <1>2, EmptySeq
    <2> QED
      BY <1>0, <1>3, <2>1
  <1> QED
    BY <1>2, <1>3, <1>4, <1>5

\* Its first element, and what follows that.
LEMMA LeftHead ==
  ASSUME NEW S, NEW s \in Seq(S), NEW m \in Nat, NEW w \in 0..Len(s), m + 1 <= w
  PROVE  /\ Head(SubSeq(s, m + 1, w)) = s[m + 1]
         /\ Tail(SubSeq(s, m + 1, w)) = SubSeq(s, m + 2, w)
  <1>1. Len(s) \in Nat /\ m + 1 \in 1..Len(s) /\ w \in (m + 1)..Len(s) /\ (m + 1) + 1 = m + 2
    BY LenProperties
  <1> QED
    BY <1>1, HeadTailOfSubSeq

\* It grows with the sequence, and is cut with it.
LEMMA LeftAppend ==
  ASSUME NEW S, NEW s \in Seq(S), NEW e \in S, NEW m \in 0..Len(s)
  PROVE  SubSeq(Append(s, e), m + 1, Len(s) + 1) = Append(SubSeq(s, m + 1, Len(s)), e)
  <1> DEFINE a == Append(s, e)
             n == Len(s)
             p == SubSeq(a, m + 1, n + 1)
             q == SubSeq(s, m + 1, n)
  <1>1. n \in Nat /\ m \in Nat /\ m <= n
    BY LenProperties
  <1>2. a \in Seq(S) /\ Len(a) = n + 1 /\ \A i \in 1..n : a[i] = s[i]
    BY AppendProperties
  <1>3. a[n + 1] = e
    BY AppendProperties
  <1>4. /\ p \in Seq(S) /\ Len(p) = (n + 1) - m
        /\ \A i \in 1..((n + 1) - m) : p[i] = a[m + i]
    <2> HIDE DEF a
    <2>1. n + 1 \in 0..Len(a) /\ m <= n + 1
      BY <1>1, <1>2
    <2> QED
      BY <1>1, <1>2, <2>1, LeftProperty
  <1>5. q \in Seq(S) /\ Len(q) = n - m /\ \A i \in 1..(n - m) : q[i] = s[m + i]
    BY <1>1, LeftProperty
  <1> HIDE DEF a, p, q
  <1>6. /\ Append(q, e) \in Seq(S) /\ Len(Append(q, e)) = (n - m) + 1
        /\ Append(q, e)[(n - m) + 1] = e
        /\ \A i \in 1..(n - m) : Append(q, e)[i] = q[i]
    BY <1>5, AppendProperties
  <1>7. \A i \in 1..Len(p) : p[i] = Append(q, e)[i]
    <2> TAKE i \in 1..Len(p)
    <2> HIDE DEF n
    <2>1. i \in 1..((n + 1) - m) /\ p[i] = a[m + i]
      BY <1>4
    <2>2. CASE i \in 1..(n - m)
      <3>1. m + i \in 1..n
        BY <1>1, <2>2
      <3> QED
        BY <1>2, <1>5, <1>6, <2>1, <2>2, <3>1
    <2>3. CASE i = (n - m) + 1
      <3>1. m + i = n + 1
        BY <1>1, <2>3
      <3> QED
        BY <1>3, <1>6, <2>1, <2>3, <3>1
    <2>4. n \in Nat /\ m \in Nat /\ m <= n
      BY <1>1
    <2>5. i \in 1..(n - m) \/ i = (n - m) + 1
      BY <2>1, <2>4
    <2> QED
      BY <2>2, <2>3, <2>5
  <1>8. Len(p) = Len(Append(q, e))
    BY <1>1, <1>4, <1>6
  <1>9. p = Append(q, e)
    BY <1>4, <1>6, <1>7, <1>8, SeqEqual
  <1> QED
    BY <1>9 DEF a, p, q

\* A shorter rest is a part of the longer one.
LEMMA LeftCut ==
  ASSUME NEW S, NEW s \in Seq(S), NEW m \in Nat, NEW w \in 0..Len(s), NEW v \in m..w
  PROVE  /\ v - m \in 0..Len(SubSeq(s, m + 1, w))
         /\ SubSeq(s, m + 1, v) = SubSeq(SubSeq(s, m + 1, w), 1, v - m)
  <1> DEFINE q == SubSeq(s, m + 1, w)
             p == SubSeq(s, m + 1, v)
             r == SubSeq(q, 0 + 1, v - m)
  <1>1. Len(s) \in Nat /\ w \in Nat /\ v \in Nat /\ m <= v /\ v <= w /\ w <= Len(s) /\ v \in 0..Len(s)
    BY LenProperties
  <1>2. q \in Seq(S) /\ Len(q) = w - m /\ \A i \in 1..(w - m) : q[i] = s[m + i]
    BY <1>1, LeftProperty
  <1>3. p \in Seq(S) /\ Len(p) = v - m /\ \A i \in 1..(v - m) : p[i] = s[m + i]
    BY <1>1, LeftProperty
  <1>4. /\ r \in Seq(S) /\ Len(r) = v - m - 0
        /\ \A i \in 1..(v - m - 0) : r[i] = q[0 + i]
    <2> HIDE DEF q
    <2>1. v - m \in 0..Len(q) /\ 0 \in Nat /\ 0 <= v - m
      BY <1>1, <1>2
    <2> QED
      BY <1>2, <2>1, LeftProperty
  <1> HIDE DEF p, q, r
  <1>5. \A i \in 1..Len(p) : p[i] = r[i]
    <2> TAKE i \in 1..Len(p)
    <2>1. i \in 1..(v - m) /\ i \in 1..(v - m - 0) /\ 0 + i = i /\ i \in 1..(w - m)
      BY <1>1, <1>3
    <2> QED
      BY <1>2, <1>3, <1>4, <2>1
  <1>6. p = r
    <2>1. Len(p) = Len(r)
      BY <1>1, <1>3, <1>4
    <2> QED
      BY <1>3, <1>4, <1>5, <2>1, SeqEqual
  <1>7. v - m \in 0..Len(q) /\ 0 + 1 = 1
    BY <1>1, <1>2
  <1>8. p = SubSeq(q, 1, v - m)
    BY <1>6, <1>7 DEF r
  <1> QED
    BY <1>7, <1>8 DEF p, q

\* The reader has taken what it returned.
Taken == noise = 0 => bound[Len(got) + 1] <= pos

LEMMA TakenStep ==
  ASSUME FramingInv, Taken, [Next]_vars
  PROVE  Taken'
  <1> SUFFICES ASSUME noise' = 0 PROVE Taken'
    BY DEF Taken
  <1>1. TypeOK /\ TypeOK'
    BY TypeStep DEF FramingInv
  <1>2. noise = 0
    <2>1. noise \in Nat
      BY <1>1 DEF TypeOK
    <2> QED
      BY <2>1 DEF Next, WriteMessage, WriteNoise, Close, Call, ReadLength, ReadBody, Decode,
                  ReadFail, vars, writer
  <1>3. StreamInv /\ ReadInv /\ bound[Len(got) + 1] <= pos
    BY <1>2 DEF FramingInv, Taken
  <1>4. /\ Len(got) \in Nat /\ Len(sent) \in Nat /\ Len(got) <= Len(sent) /\ pos \in Nat
        /\ \A i \in 1..(Len(sent) + 1) : bound[i] \in Nat
    <2>1. got \in Seq(Decodable) /\ pos \in Nat
      BY <1>1, LenProperties DEF TypeOK
    <2>2. Len(got) <= Len(sent)
      BY <1>3, Zenon DEF ReadInv
    <2> QED
      BY <1>1, <1>3, <2>1, <2>2, StreamFacts, LenProperties
  <1> DEFINE next == Len(got) + 1
  <1>5. next \in 1..(Len(sent) + 1) /\ bound[next] \in Nat
    BY <1>4
  <1>6. CASE \E body \in Bodies : WriteMessage(body)
    <2>1. PICK body \in Bodies : WriteMessage(body)
      BY <1>6
    <2>2. bound'[next] = bound[next]
      BY <1>1, <1>3, <1>5, <2>1, Appended
    <2>3. pos' = pos /\ got' = got
      BY <2>1 DEF WriteMessage
    <2> QED
      BY <1>3, <2>2, <2>3 DEF Taken
  <1>7. CASE Decode
    <2>1. /\ call = "body" /\ have = len /\ UNCHANGED <<bound, pos>>
          /\ \/ got' = got
             \/ got' = Append(got, SubSeq(stream, pos - len + 1, pos))
                /\ SubSeq(stream, pos - len + 1, pos) \in Decodable
      BY <1>7 DEF Decode, writer
    <2>2. CASE got' = got
      BY <1>3, <2>1, <2>2 DEF Taken
    <2>3. CASE got' # got
      <3>1. Len(got') = next
        <4>1. got \in Seq(Decodable)
          BY <1>1 DEF TypeOK
        <4> QED
          BY <2>1, <2>3, <4>1, AppendProperties
      <3>2. pos = bound[next + 1]
        BY <1>1, <1>3, <2>1, WholeBody
      <3>3. bound'[Len(got') + 1] = pos' /\ pos' \in Nat
        BY <1>4, <2>1, <3>1, <3>2
      <3>4. bound'[Len(got') + 1] <= pos'
        BY <3>3
      <3> QED
        BY <3>4 DEF Taken
    <2> QED
      BY <2>2, <2>3
  <1>8. CASE WriteNoise \/ Close \/ Call \/ ReadFail \/ UNCHANGED vars
    <2>1. UNCHANGED <<bound, got, pos>>
      BY <1>8 DEF WriteNoise, Close, Call, ReadFail, vars, writer
    <2> QED
      BY <1>3, <2>1 DEF Taken
  <1>9. CASE ReadLength \/ ReadBody
    <2>1. bound' = bound /\ got' = got /\ pos' = pos + 1
      BY <1>9 DEF ReadLength, ReadBody, writer
    <2>2. bound'[Len(got') + 1] = bound[next]
      BY <2>1
    <2>3. bound'[Len(got') + 1] <= pos'
      BY <1>3, <1>4, <1>5, <2>1, <2>2
    <2> QED
      BY <2>3 DEF Taken
  <1> QED
    BY <1>6, <1>7, <1>8, <1>9 DEF Next

\* What is whole is at least what is returned, and everything until the cut.
WholeFacts ==
    /\ Whole \in 0..Len(sent) /\ bound[Whole + 1] <= Len(stream)
    /\ \A k \in 0..Len(sent) : bound[k + 1] <= Len(stream) => k <= Whole
    /\ Len(got) \in Nat /\ Len(sent) \in Nat /\ Whole \in Nat /\ Len(got) <= Whole
    /\ live => Whole = Len(sent)
    /\ sent \in Seq(Bodies) /\ (Unread = <<>> <=> Len(got) = Whole)
    /\ Len(got) < Whole => /\ Head(Unread) = sent[Len(got) + 1]
                           /\ Tail(Unread) = SubSeq(sent, Len(got) + 2, Whole)

LEMMA WholeProperty == FramingInv /\ Taken /\ noise = 0 => WholeFacts
  <1> SUFFICES ASSUME TypeOK, StreamInv, ReadInv, noise = 0, Taken PROVE WholeFacts
    BY DEF FramingInv
  <1>1. /\ Len(sent) \in Nat /\ Len(stream) \in Nat /\ Len(got) \in Nat
        /\ \A i \in 1..(Len(sent) + 1) : bound[i] \in Nat
        /\ pos \in Nat /\ pos <= Len(stream) /\ sent \in Seq(Bodies)
    <2>1. got \in Seq(Decodable) /\ pos \in 0..Len(stream) /\ sent \in Seq(Bodies)
      BY DEF TypeOK
    <2>2. Len(got) \in Nat
      BY <2>1, LenProperties
    <2> QED
      BY <2>1, <2>2, StreamFacts
  <1>2. bound[1] = 0
    BY DEF StreamInv
  <1>3. /\ Whole \in 0..Len(sent) /\ bound[Whole + 1] <= Len(stream)
        /\ \A k \in 0..Len(sent) : bound[k + 1] <= Len(stream) => k <= Whole
    <2>1. \E k \in 0..Len(sent) :
             bound[k + 1] <= Len(stream) /\ \A i \in (k + 2)..(Len(sent) + 1) : bound[i] > Len(stream)
      BY <1>1, <1>2, WholeExists
    <2>2. /\ Whole \in 0..Len(sent) /\ bound[Whole + 1] <= Len(stream)
          /\ \A i \in (Whole + 2)..(Len(sent) + 1) : bound[i] > Len(stream)
      BY <2>1, Zenon DEF Whole
    <2>3. \A k \in 0..Len(sent) : bound[k + 1] <= Len(stream) => k <= Whole
      BY <1>1, <2>2, WholeLargest
    <2> QED
      BY <2>2, <2>3
  <1>4. Len(got) <= Whole
    <2>1. Len(got) <= Len(sent)
      BY Zenon DEF ReadInv
    <2>2. bound[Len(got) + 1] <= pos
      BY DEF Taken
    <2>3. Len(got) \in 0..Len(sent) /\ Len(got) + 1 \in 1..(Len(sent) + 1)
      BY <1>1, <2>1
    <2>4. bound[Len(got) + 1] <= Len(stream)
      BY <1>1, <2>2, <2>3
    <2> QED
      BY <1>3, <2>3, <2>4
  <1>5. live => Whole = Len(sent)
    <2> SUFFICES ASSUME live PROVE Whole = Len(sent)
      OBVIOUS
    <2>1. Len(stream) = bound[Len(sent) + 1] /\ Len(sent) \in 0..Len(sent)
      BY <1>1 DEF StreamInv
    <2>2. bound[Len(sent) + 1] <= Len(stream)
      BY <1>1, <2>1
    <2> QED
      BY <1>1, <1>3, <2>1, <2>2
  <1> DEFINE w == Whole
             m == Len(got)
  <1>6. w \in 0..Len(sent) /\ w \in Nat /\ m \in Nat /\ m <= w
    BY <1>1, <1>3, <1>4
  <1> HIDE DEF w, m
  <1>7. SubSeq(sent, m + 1, w) = <<>> <=> m = w
    BY <1>1, <1>6, LeftProperty, SMTT(30)
  <1>8. m < w => /\ Head(SubSeq(sent, m + 1, w)) = sent[m + 1]
                 /\ Tail(SubSeq(sent, m + 1, w)) = SubSeq(sent, m + 2, w)
    <2> SUFFICES ASSUME m < w
                 PROVE  /\ Head(SubSeq(sent, m + 1, w)) = sent[m + 1]
                        /\ Tail(SubSeq(sent, m + 1, w)) = SubSeq(sent, m + 2, w)
      OBVIOUS
    <2>1. m + 1 <= w
      BY <1>6
    <2> QED
      BY <1>1, <1>6, <2>1, LeftHead
  <1>9. Unread = SubSeq(sent, m + 1, w)
    BY DEF Unread, m, w
  <1> QED
    BY <1>1, <1>3, <1>4, <1>5, <1>6, <1>7, <1>8, <1>9 DEF m, w, WholeFacts

LEMMA WholeAfter == (FramingInv /\ Taken /\ noise = 0)' => WholeFacts'
  BY WholeProperty, PTL

LEMMA CloseMaps ==
  ASSUME FramingInv, Taken, FramingInv', Taken', noise = 0, noise' = 0, Close
  PROVE  Promise!Close /\ UNCHANGED (noise > 0)
  <1>1. WholeFacts
    BY WholeProperty
  <1>2. WholeFacts'
    BY WholeAfter
  <1>3. /\ live /\ ~live' /\ UNCHANGED <<sent, bound, noise, pos, reader, error, got>>
        /\ Len(stream') \in Nat /\ Len(stream') <= Len(stream) /\ Len(stream) \in Nat
    <2>1. PICK k \in pos..Len(stream) : stream' = SubSeq(stream, 1, k)
      BY DEF Close
    <2>2. stream \in Seq(Byte) /\ pos \in 0..Len(stream)
      BY DEF FramingInv, TypeOK
    <2>3. Len(stream) \in Nat /\ k \in Nat /\ k <= Len(stream) /\ k \in 0..Len(stream)
      BY <2>1, <2>2, LenProperties
    <2>4. Len(SubSeq(stream, 0 + 1, k)) = k - 0
      BY <2>2, <2>3, LeftProperty
    <2>5. Len(stream') = k
      BY <2>1, <2>3, <2>4
    <2> QED
      BY <2>3, <2>5 DEF Close
  <1> DEFINE m == Len(got)
             w == Whole
             v == Whole'
  <1>4. /\ m \in Nat /\ w \in Nat /\ v \in Nat /\ m <= v /\ w \in 0..Len(sent) /\ v \in 0..Len(sent)
        /\ sent \in Seq(Bodies)
    BY <1>1, <1>2, <1>3 DEF WholeFacts
  <1>5. v <= w
    <2>1. bound[v + 1] <= Len(stream')
      BY <1>2, <1>3 DEF WholeFacts
    <2>2. bound[v + 1] \in Nat
      <3>1. StreamInv /\ TypeOK
        BY DEF FramingInv
      <3>2. v + 1 \in 1..(Len(sent) + 1)
        <4> HIDE DEF v
        <4>1. v \in 0..Len(sent) /\ Len(sent) \in Nat
          BY <1>1, <1>4 DEF WholeFacts
        <4> QED
          BY <4>1
      <3> QED
        BY <3>1, <3>2, StreamFacts
    <2>3. bound[v + 1] <= Len(stream)
      BY <1>3, <2>1, <2>2
    <2> QED
      BY <1>1, <1>4, <2>3 DEF WholeFacts
  <1>6. /\ Unread = SubSeq(sent, m + 1, w) /\ Unread' = SubSeq(sent, m + 1, v)
        /\ Ended' = Ended
    BY <1>3 DEF Unread, Ended, reader
  <1> HIDE DEF m, w, v
  <1>7. /\ v - m \in 0..Len(SubSeq(sent, m + 1, w))
        /\ SubSeq(sent, m + 1, v) = SubSeq(SubSeq(sent, m + 1, w), 1, v - m)
    <2>1. v \in m..w
      BY <1>4, <1>5
    <2> QED
      BY <1>4, <2>1, LeftCut
  <1>8. \E n \in 0..Len(Unread) : Unread' = SubSeq(Unread, 1, n)
    BY <1>6, <1>7, Zenon
  <1>9. live /\ live' = FALSE /\ UNCHANGED <<got, Ended>> /\ (noise > 0)' = (noise > 0)
    BY <1>3, <1>6 DEF Close
  <1> QED
    BY <1>8, <1>9 DEF Promise!Close

LEMMA SendMaps ==
  ASSUME FramingInv, Taken, FramingInv', Taken', noise = 0, noise' = 0,
         NEW body \in Bodies, WriteMessage(body)
  PROVE  Promise!Send /\ UNCHANGED (noise > 0)
  <1>1. WholeFacts
    BY WholeProperty
  <1>2. WholeFacts'
    BY WholeAfter
  <1>3. live /\ live' = live /\ sent' = Append(sent, body) /\ UNCHANGED <<noise, reader, error, got>>
    BY DEF WriteMessage
  <1>4. live' /\ sent \in Seq(Bodies) /\ Len(got) \in Nat /\ Len(sent) \in Nat
        /\ Len(got) <= Len(sent) /\ Len(sent') = Len(sent) + 1
    <2>1. live' /\ sent \in Seq(Bodies) /\ Len(got) \in Nat /\ Len(sent) \in Nat /\ Whole = Len(sent)
          /\ Len(got) <= Whole
      BY <1>1, <1>3 DEF WholeFacts
    <2> QED
      BY <1>3, <2>1, AppendProperties
  <1>5. Whole = Len(sent) /\ Whole' = Len(sent) + 1
    BY <1>1, <1>2, <1>3, <1>4 DEF WholeFacts
  <1>6. /\ Unread = SubSeq(sent, Len(got) + 1, Len(sent))
        /\ Unread' = SubSeq(Append(sent, body), Len(got) + 1, Len(sent) + 1)
    BY <1>3, <1>5 DEF Unread
  <1>7. Len(got) \in 0..Len(sent)
    BY <1>4
  <1>8. Unread' = Append(Unread, body)
    BY <1>4, <1>6, <1>7, LeftAppend
  <1>9. UNCHANGED <<got, live, Ended>> /\ (noise > 0)' = (noise > 0)
    BY <1>3 DEF Ended, reader
  <1> QED
    BY <1>3, <1>8, <1>9 DEF Promise!Send

\* A message that is refused is the next one that is whole, or what is left of
\* it when the connection was cut.
LEMMA RefusedMaps ==
  ASSUME FramingInv, Taken, noise = 0, RefusedForCause', UNCHANGED <<writer, got>>,
         call # "failed", call' = "failed",
         error' \in {"varint_too_long", "frame_exceeds_limit", "undecodable"}
  PROVE  Promise!Refuse /\ UNCHANGED (noise > 0)
  <1>1. WholeFacts
    BY WholeProperty
  <1>2. UNCHANGED <<live, sent, stream, bound, noise, got>>
    BY DEF writer
  <1>3. Ended = "no" /\ Ended' = "refused"
    BY DEF Ended
  <1> DEFINE next == Len(got) + 1
  <1>4. /\ Len(got) < Len(sent)
        /\ IF error' = "undecodable" THEN sent[next] \notin Decodable
           ELSE Len(sent[next]) > MAX_FRAME
    BY <1>2 DEF RefusedForCause
  <1>5. CASE Unread = <<>>
    <2>1. ~live
      BY <1>1, <1>4, <1>5 DEF WholeFacts
    <2> QED
      BY <1>2, <1>3, <1>5, <2>1 DEF Promise!Refuse, Unread, Whole
  <1>6. CASE Unread # <<>>
    <2>1. Head(Unread) = sent[next]
      BY <1>1, <1>6 DEF WholeFacts
    <2>2. sent[next] \notin {b \in Decodable : Len(b) <= MAX_FRAME}
      <3>1. sent[next] \in Bodies
        BY <1>1, <1>4, ElementOfSeq DEF WholeFacts
      <3>2. Len(sent[next]) \in Nat /\ MAX_FRAME \in Nat
        BY <3>1, FrameProperty, FramingAssumption
      <3> QED
        BY <1>4, <3>2
    <2> QED
      BY <1>2, <1>3, <1>6, <2>1, <2>2 DEF Promise!Refuse, Unread, Whole
  <1> QED
    BY <1>5, <1>6

\* A message that is returned is the next one that is whole.
LEMMA ReceiveMaps ==
  ASSUME FramingInv, Taken, noise = 0, Decode, call' = "idle"
  PROVE  Promise!Receive /\ UNCHANGED (noise > 0)
  <1>1. WholeFacts /\ TypeOK /\ StreamInv /\ ReadInv
    BY WholeProperty DEF FramingInv
  <1> DEFINE next == Len(got) + 1
             body == SubSeq(stream, pos - len + 1, pos)
  <1>2. /\ call = "body" /\ have = len /\ UNCHANGED <<live, sent, stream, bound, noise>>
        /\ body \in Decodable /\ got' = Append(got, body)
    BY DEF Decode, writer, Err
  <1>3. next \in 1..Len(sent) /\ body = sent[next] /\ pos = bound[next + 1]
    BY <1>1, <1>2, WholeBody
  <1>4. Len(body) <= MAX_FRAME
    <2>1. len = Len(sent[next])
      BY <1>1, <1>2, Zenon DEF ReadInv
    <2>2. len <= MAX_FRAME
      BY <1>1, <1>2 DEF TypeOK
    <2> QED
      BY <1>3, <2>1, <2>2
  <1>5. /\ Len(got) \in Nat /\ Whole \in Nat /\ Len(sent) \in Nat
        /\ \A k \in 0..Len(sent) : bound[k + 1] <= Len(stream) => k <= Whole
    BY <1>1 DEF WholeFacts
  <1>6. Len(got) < Whole
    <2>1. pos <= Len(stream) /\ next \in 0..Len(sent)
      <3>1. pos \in 0..Len(stream) /\ stream \in Seq(Byte)
        BY <1>1 DEF TypeOK
      <3> QED
        BY <1>3, <1>5, <3>1, LenProperties
    <2>2. bound[next + 1] <= Len(stream)
      BY <1>3, <2>1
    <2>3. next <= Whole
      BY <1>5, <2>1, <2>2
    <2> QED
      BY <1>5, <2>3
  <1>7. Unread # <<>> /\ Head(Unread) = body
        /\ Tail(Unread) = SubSeq(sent, Len(got) + 2, Whole)
    BY <1>1, <1>3, <1>6, SMTT(30) DEF WholeFacts
  <1>8. Unread' = Tail(Unread)
    <2>1. got \in Seq(Decodable)
      BY <1>1 DEF TypeOK
    <2>2. Len(got') + 1 = Len(got) + 2
      <3> HIDE DEF body
      <3>1. Len(got') = Len(got) + 1
        BY <1>2, <2>1, AppendProperties
      <3> QED
        BY <1>5, <3>1
    <2>3. Whole' = Whole
      BY <1>2 DEF Whole
    <2> QED
      BY <1>2, <1>7, <2>2, <2>3 DEF Unread
  <1>9. Ended = "no" /\ Ended' = "no" /\ UNCHANGED live /\ (noise > 0)' = (noise > 0)
    BY <1>2 DEF Ended
  <1> HIDE DEF body
  <1>10. Head(Unread) \in {b \in Decodable : Len(b) <= MAX_FRAME} /\ got' = Append(got, Head(Unread))
    BY <1>2, <1>4, <1>7
  <1> QED
    BY <1>7, <1>8, <1>9, <1>10 DEF Promise!Receive

\* When the reader has everything that is left of the stream, no whole message
\* is behind it.
LEMMA NothingWhole ==
  ASSUME FramingInv, Taken, noise = 0, pos = Len(stream),
         call = "length" \/ (call = "body" /\ have < len)
  PROVE  Unread = <<>>
  <1> DEFINE next == Len(got) + 1
             n == Len(sent[next])
             r == Rounds(n)
             b == bound[next]
  <1>1. WholeFacts /\ TypeOK /\ StreamInv /\ ReadInv
    BY WholeProperty DEF FramingInv
  <1>2. /\ Len(sent) \in Nat /\ Len(stream) \in Nat /\ Len(got) \in Nat /\ Len(got) <= Len(sent)
        /\ \A i \in 1..(Len(sent) + 1) : bound[i] \in Nat
        /\ \A i \in 1..Len(sent) : sent[i] \in Bodies
        /\ Whole \in Nat /\ Whole <= Len(sent) /\ bound[Whole + 1] <= Len(stream)
        /\ shift \in Nat /\ have \in Nat /\ len \in Nat
    <2>1. shift \in Nat /\ have \in Nat /\ len \in Nat
      BY <1>1, Powers DEF TypeOK
    <2>2. Len(got) <= Len(sent)
      BY <1>1, Zenon DEF ReadInv
    <2> QED
      BY <1>1, <2>1, <2>2, StreamFacts DEF WholeFacts
  <1>3. \A i \in 1..Len(sent) : bound[i] <= bound[i + 1]
    <2> TAKE i \in 1..Len(sent)
    <2> DEFINE f == Len(Frame(sent[i]))
    <2>1. bound[i + 1] = bound[i] + f
      BY <1>1, Zenon DEF StreamInv
    <2>2. f \in Nat /\ bound[i] \in Nat
      BY <1>2, FrameProperty, LenProperties
    <2> HIDE DEF f
    <2> QED
      BY <2>1, <2>2
  <1>4. next <= Len(sent) => bound[next + 1] > Len(stream)
    <2> SUFFICES ASSUME next <= Len(sent) PROVE bound[next + 1] > Len(stream)
      OBVIOUS
    <2>1. next \in 1..Len(sent) /\ next \in 1..(Len(sent) + 1)
      BY <1>2
    <2>2. sent[next] \in Bodies /\ b \in Nat
      BY <1>2, <2>1
    <2>3. n \in Nat /\ r \in Nat /\ bound[next + 1] = b + (r + n)
      <3>1. bound[next + 1] = b + Len(Frame(sent[next]))
        BY <1>1, <2>1, Zenon DEF StreamInv
      <3> QED
        BY <2>2, <3>1, FrameProperty
    <2>4. CASE call = "length"
      <3>1. pos = b + shift /\ shift < r
        BY <1>1, <2>4, Zenon DEF ReadInv
      <3> HIDE DEF b, r, n
      <3> QED
        BY <1>2, <2>2, <2>3, <3>1
    <2>5. CASE call = "body" /\ have < len
      <3>1. pos = b + r + have /\ len = n
        BY <1>1, <2>5, Zenon DEF ReadInv
      <3> HIDE DEF b, r, n
      <3> QED
        BY <1>2, <2>2, <2>3, <2>5, <3>1
    <2> QED
      BY <2>4, <2>5
  <1>5. Whole <= Len(got)
    <2> SUFFICES ASSUME Len(got) < Whole PROVE FALSE
      BY <1>2
    <2> DEFINE T == {j \in Nat : next < j /\ j <= Len(sent) + 1 /\ bound[j] <= Len(stream)}
    <2>1. Whole + 1 \in T /\ T \in SUBSET Nat
      BY <1>2
    <2>2. PICK j \in T : \A y \in T : j <= y
      <3> HIDE DEF T
      <3> QED
        BY <2>1, LeastNat
    <2>3. j \in Nat /\ next < j /\ j <= Len(sent) + 1 /\ bound[j] <= Len(stream)
      BY <2>2
    <2>4. CASE j = next + 1
      <3>1. next <= Len(sent) /\ next + 1 \in 1..(Len(sent) + 1)
        BY <1>2, <2>3, <2>4
      <3>2. bound[next + 1] \in Nat /\ bound[next + 1] <= Len(stream)
        BY <1>2, <2>3, <2>4, <3>1
      <3> QED
        BY <1>2, <1>4, <3>1, <3>2
    <2>5. CASE j # next + 1
      <3>1. j - 1 \in Nat /\ next < j - 1 /\ j - 1 <= Len(sent) /\ ~(j <= j - 1)
        BY <1>2, <2>3, <2>5
      <3>2. ~(bound[j - 1] <= Len(stream))
        <4>1. j - 1 \notin T
          BY <2>2, <3>1, Zenon
        <4> QED
          BY <1>2, <3>1, <4>1
      <3>3. j - 1 \in 1..Len(sent) /\ j \in 1..(Len(sent) + 1) /\ j - 1 \in 1..(Len(sent) + 1)
            /\ (j - 1) + 1 = j
        BY <1>2, <2>3, <3>1
      <3>4. bound[j - 1] <= bound[j] /\ bound[j - 1] \in Nat /\ bound[j] \in Nat
        BY <1>2, <1>3, <3>3
      <3> QED
        BY <1>2, <2>3, <3>2, <3>4
    <2> QED
      BY <2>4, <2>5
  <1>6. Len(got) = Whole
    BY <1>1, <1>2, <1>5 DEF WholeFacts
  <1> QED
    BY <1>1, <1>6 DEF WholeFacts

LEMMA FailMaps ==
  ASSUME FramingInv, Taken, noise = 0, ReadFail
  PROVE  (Promise!Timeout \/ Promise!Eof) /\ UNCHANGED (noise > 0)
  <1>1. /\ call # "failed" /\ call' = "failed" /\ UNCHANGED <<live, sent, stream, bound, noise, got>>
        /\ \/ live /\ error' = "timeout"
           \/ ~live /\ pos = Len(stream) /\ error' = "eof"
    BY DEF ReadFail, Err, writer
  <1>2. Unread' = Unread /\ (noise > 0)' = (noise > 0)
    BY <1>1 DEF Unread, Whole
  <1>3. CASE live /\ error' = "timeout"
    <2>1. Ended = "no" /\ Ended' = "timeout"
      BY <1>1, <1>3 DEF Ended
    <2> QED
      BY <1>1, <1>2, <1>3, <2>1 DEF Promise!Timeout
  <1>4. CASE ~live /\ pos = Len(stream) /\ error' = "eof"
    <2>1. Ended = "no" /\ Ended' = "eof"
      BY <1>1, <1>4 DEF Ended
    <2>2. Unread = <<>>
      BY <1>4, NothingWhole DEF ReadFail
    <2> QED
      BY <1>1, <1>2, <1>4, <2>1, <2>2 DEF Promise!Eof
  <1> QED
    BY <1>1, <1>3, <1>4

LEMMA ChannelStep ==
  ASSUME FramingInv, Taken, FramingInv', Taken', [Next]_vars
  PROVE  [Promise!Next]_(Promise!vars)
  <1>1. noise \in Nat /\ noise' \in Nat
    BY DEF FramingInv, TypeOK
  <1>2. CASE noise' # 0
    <2>1. (noise > 0)'
      BY <1>1, <1>2
    <2> QED
      BY <2>1 DEF Promise!Next, Promise!Garble
  <1>3. CASE noise' = 0
    <2>1. noise = 0
      BY <1>1, <1>3 DEF Next, WriteMessage, WriteNoise, Close, Call, ReadLength, ReadBody, Decode,
                        ReadFail, vars, writer
    <2>2. RefusedForCause'
      BY <1>3 DEF FramingInv
    <2>3. ASSUME UNCHANGED <<writer, got>>, call # "failed", call' # "failed"
          PROVE  UNCHANGED Promise!vars
      <3>1. UNCHANGED <<live, sent, stream, bound, noise, got>>
        BY <2>3 DEF writer
      <3>2. Unread' = Unread /\ Ended' = Ended /\ (noise > 0)' = (noise > 0)
        BY <2>3, <3>1 DEF Unread, Whole, Ended
      <3> QED
        BY <3>1, <3>2 DEF Promise!vars
    <2>4. CASE \E body \in Bodies : WriteMessage(body)
      <3>1. PICK body \in Bodies : WriteMessage(body)
        BY <2>4
      <3>2. Promise!Send /\ UNCHANGED (noise > 0)
        BY <1>3, <2>1, <3>1, SendMaps
      <3> QED
        BY <3>2, Zenon DEF Promise!Next
    <2>5. CASE WriteNoise
      BY <1>3, <2>1, <2>5 DEF WriteNoise
    <2>6. CASE Close
      <3>1. Promise!Close /\ UNCHANGED (noise > 0)
        BY <1>3, <2>1, <2>6, CloseMaps
      <3> QED
        BY <3>1, Zenon DEF Promise!Next
    <2>7. CASE Call
      BY <2>3, <2>7 DEF Call
    <2>8. CASE ReadLength
      <3>1. UNCHANGED <<writer, got>> /\ call # "failed"
        BY <2>8 DEF ReadLength
      <3>2. call' # "failed"
            \/ (call' = "failed" /\ error' \in {"varint_too_long", "frame_exceeds_limit", "undecodable"})
        BY <2>8 DEF ReadLength, Err
      <3>3. CASE call' # "failed"
        BY <2>3, <3>1, <3>3
      <3>4. CASE call' = "failed" /\ error' \in {"varint_too_long", "frame_exceeds_limit", "undecodable"}
        <4>1. Promise!Refuse /\ UNCHANGED (noise > 0)
          BY <2>1, <2>2, <3>1, <3>4, RefusedMaps
        <4> QED
          BY <4>1, Zenon DEF Promise!Next
      <3> QED
        BY <3>2, <3>3, <3>4
    <2>9. CASE ReadBody
      BY <2>3, <2>9 DEF ReadBody
    <2>10. CASE Decode
      <3>1. CASE call' = "idle"
        <4>1. Promise!Receive /\ UNCHANGED (noise > 0)
          BY <2>1, <2>10, <3>1, ReceiveMaps
        <4> QED
          BY <4>1, Zenon DEF Promise!Next
      <3>2. CASE call' # "idle"
        <4>1. UNCHANGED <<writer, got>> /\ call # "failed" /\ call' = "failed" /\ error' = "undecodable"
          BY <2>10, <3>2 DEF Decode, Err
        <4>2. Promise!Refuse /\ UNCHANGED (noise > 0)
          BY <2>1, <2>2, <4>1, RefusedMaps
        <4> QED
          BY <4>2, Zenon DEF Promise!Next
      <3> QED
        BY <3>1, <3>2
    <2>11. CASE ReadFail
      <3>1. (Promise!Timeout \/ Promise!Eof) /\ UNCHANGED (noise > 0)
        BY <2>1, <2>11, FailMaps
      <3> QED
        BY <3>1, Zenon DEF Promise!Next
    <2>12. CASE UNCHANGED vars
      <3>1. UNCHANGED <<live, sent, stream, bound, noise, got, call, error>>
        BY <2>12 DEF vars, writer, reader
      <3>2. Unread' = Unread /\ Ended' = Ended /\ (noise > 0)' = (noise > 0)
        BY <3>1 DEF Unread, Whole, Ended
      <3> QED
        BY <3>1, <3>2 DEF Promise!vars
    <2> QED
      BY <2>4, <2>5, <2>6, <2>7, <2>8, <2>9, <2>10, <2>11, <2>12 DEF Next
  <1> QED
    BY <1>2, <1>3

\* For any base, limit and bodies, framing gives its callers the channel of
\* whole messages that Session and Pairing read from: each message once and in
\* order, a timeout only while the other end is there, and the end of the
\* connection only behind the last message that arrived whole.
THEOREM FramesAreMessages == Spec => KeepsMessages
  <1>1. Init => FramingInv /\ Taken
    <2> SUFFICES ASSUME Init PROVE Taken
      BY InvInit
    <2>1. bound = <<0>> /\ got = <<>> /\ pos = 0
      BY DEF Init
    <2>2. Len(<<>>) = 0 /\ <<0>>[1] = 0
      OBVIOUS
    <2> QED
      BY <2>1, <2>2 DEF Taken
  <1>2. Init => Promise!Init
    <2> SUFFICES ASSUME Init PROVE Promise!Init
      OBVIOUS
    <2>1. /\ sent = <<>> /\ got = <<>> /\ live = TRUE /\ noise = 0 /\ call = "idle"
      BY DEF Init
    <2>2. WholeFacts
      BY <1>1, <2>1, WholeProperty
    <2>3. Len(got) = Whole
      <3>1. Len(sent) = 0 /\ Len(got) = 0
        BY <2>1
      <3> QED
        BY <2>2, <3>1 DEF WholeFacts
    <2>4. Unread = <<>>
      BY <2>2, <2>3 DEF WholeFacts
    <2>5. Ended = "no" /\ (noise > 0) = FALSE
      BY <2>1 DEF Ended
    <2> QED
      BY <2>1, <2>4, <2>5 DEF Promise!Init
  <1>3. FramingInv /\ Taken /\ [Next]_vars => FramingInv' /\ Taken'
    BY InvStep, TakenStep
  <1>4. FramingInv /\ Taken /\ FramingInv' /\ Taken' /\ [Next]_vars => [Promise!Next]_(Promise!vars)
    BY ChannelStep
  <1> QED
    BY <1>1, <1>2, <1>3, <1>4, PTL DEF Spec, KeepsMessages, Promise!Spec
==============================================================================
