------------------------ MODULE FrameParserProofs ---------------------------
(***************************************************************************)
(* The parser of FrameParser, for every word size, every even buffer size  *)
(* and every sequence of words and pauses: it keeps its types and never    *)
(* overruns its payload buffer; with the words of FrameBus it delivers     *)
(* just the frames that were on the bus; and as a part of CommandLink it   *)
(* makes the way of a command a LossyLink.                                 *)
(*                                                                         *)
(* The argument is FrameSoFar: inside a frame the parser's variables are   *)
(* what the words read since the header say, the checksum among them.      *)
(* That the checksum of one word more is the parser's sum is a fact about  *)
(* a fold, by induction over the natural numbers.                          *)
(***************************************************************************)
EXTENDS FrameBus, CommandLink, SequenceTheorems, WellFoundedInduction, TLAPS

(* What TypeOK does not say and the writes depend on: a payload word is    *)
(* read only while some are missing, and always at an even offset.         *)
ReadInv ==
  /\ bytesRead % 2 = 0
  /\ nextTPstep = "PAYLOAD_READ" => bytesRead < payloadSize

ParserInv == TypeOK /\ ReadInv

(* A buffer of an even size has room for a word at every even offset below *)
(* its end, and that word has an index.                                    *)
LEMMA EvenOffset ==
  ASSUME NEW b \in 0 .. MaxPayload, b % 2 = 0, b < MaxPayload
  PROVE  b + 2 <= MaxPayload /\ b \div 2 \in Slots /\ (b + 2) % 2 = 0
BY MaxPayloadAssumption DEF Slots

(* The checksum stays a word.                                              *)
LEMMA SumIsWord ==
  ASSUME NEW a \in Word, NEW b \in Word
  PROVE  (a + b) % WordMod \in Word
BY WordModAssumption DEF Word

(* What is handed to the callback is a frame: its words are in the buffer. *)
LEMMA ReceivedIsFrame ==
  ASSUME TypeOK
  PROVE  Received \in Frame
<1> DEFINE n == (payloadSize + 1) \div 2
<1>1. payloadSize \in 0 .. MaxPayload /\ payload \in [Slots -> Word] /\ commandId \in Word
  BY DEF TypeOK
<1>2. n \in Nat /\ n <= MaxPayload \div 2
  BY <1>1, MaxPayloadAssumption
<1>3. ASSUME NEW i \in 1 .. n PROVE payload[i - 1] \in Word
  <2>1. i - 1 \in Slots
    BY <1>2, MaxPayloadAssumption DEF Slots
  <2> QED BY <2>1, <1>1
<1>4. [i \in 1 .. n |-> payload[i - 1]] \in Seq(Word)
  <2> HIDE DEF n
  <2>1. [i \in 1 .. n |-> payload[i - 1]] \in [1 .. n -> Word]
    BY <1>3
  <2> QED BY <2>1, <1>2, SeqDef
<1> QED BY <1>1, <1>4 DEF Received, Frame

LEMMA ParserInitInv == ParserInit => ParserInv
<1> SUFFICES ASSUME ParserInit PROVE ParserInv
  OBVIOUS
<1>1. 0 \in Word /\ 0 \in 0 .. MaxPayload /\ <<>> \in Seq(Frame)
  BY WordModAssumption, MaxPayloadAssumption, EmptySeq DEF Word
<1>2. TypeOK
  BY <1>1 DEF ParserInit, TypeOK, Steps
<1>3. ReadInv
  BY DEF ParserInit, ReadInv
<1> QED BY <1>2, <1>3 DEF ParserInv

LEMMA PauseInv == ParserInv /\ Pause => ParserInv'
<1> SUFFICES ASSUME ParserInv, Pause PROVE ParserInv'
  OBVIOUS
<1>1. <<>> \in Seq(Frame)
  BY EmptySeq
<1> QED BY <1>1 DEF ParserInv, TypeOK, ReadInv, Pause

(* One step per case of tprotocol_parse.                                   *)
LEMMA ParseInv ==
  ASSUME ParserInv, NEW data \in Word, Parse(data)
  PROVE  ParserInv'
<1> USE DEF ParserInv
<1>0. <<>> \in Seq(Frame) /\ 0 \in Word /\ 0 \in 0 .. MaxPayload
  BY EmptySeq, WordModAssumption, MaxPayloadAssumption DEF Word
<1>1. CASE DetectHeader(data)
  BY <1>0, <1>1 DEF DetectHeader, TypeOK, ReadInv, Steps
<1>2. CASE ReadCommand(data)
  <2>1. finalChecksum' \in Word
    BY <1>2, SumIsWord DEF ReadCommand, Accumulate, TypeOK
  <2> QED BY <1>0, <1>2, <2>1 DEF ReadCommand, TypeOK, ReadInv, Steps
<1>3. CASE RejectPayloadSize(data)
  BY <1>0, <1>3 DEF RejectPayloadSize, ResetParserState, TypeOK, ReadInv, Steps
<1>4. CASE ReadPayloadSize(data)
  <2>1. finalChecksum' \in Word
    BY <1>4, SumIsWord DEF ReadPayloadSize, Accumulate, TypeOK
  <2>2. payloadSize' \in 0 .. MaxPayload /\ nextTPstep' \in Steps
    BY <1>4, WordModAssumption, MaxPayloadAssumption
       DEF ReadPayloadSize, TypeOK, Steps, Word
  <2>3. nextTPstep' = "PAYLOAD_READ" => bytesRead' < payloadSize'
    BY <1>4, WordModAssumption DEF ReadPayloadSize, Word
  <2> QED BY <1>0, <1>4, <2>1, <2>2, <2>3 DEF ReadPayloadSize, TypeOK, ReadInv
<1>5. CASE ReadPayload(data)
  <2>1. bytesRead + 2 <= MaxPayload /\ bytesRead \div 2 \in Slots /\ (bytesRead + 2) % 2 = 0
    <3>1. bytesRead \in 0 .. MaxPayload /\ bytesRead % 2 = 0 /\ bytesRead < MaxPayload
      BY <1>5, MaxPayloadAssumption DEF ReadPayload, TypeOK, ReadInv
    <3> QED BY <3>1, EvenOffset
  <2>2. /\ payload' = [payload EXCEPT ![bytesRead \div 2] = data]
        /\ Accumulate(data) /\ bytesRead' = bytesRead + 2
        /\ nextTPstep' = IF bytesRead' >= payloadSize THEN "PAYLOAD_READ_END"
                                                      ELSE "PAYLOAD_READ"
    BY <1>5, <2>1, MaxPayloadAssumption DEF ReadPayload, TypeOK
  <2>3. finalChecksum' \in Word
    BY <2>2, SumIsWord DEF Accumulate, TypeOK
  <2>4. payload' \in [Slots -> Word]
    BY <2>1, <2>2 DEF TypeOK
  <2>5. bytesRead' \in 0 .. MaxPayload /\ bytesRead' % 2 = 0
    BY <2>1, <2>2, MaxPayloadAssumption DEF TypeOK
  <2>6. nextTPstep' = "PAYLOAD_READ" => bytesRead' < payloadSize
    BY <2>2, <2>5, MaxPayloadAssumption DEF TypeOK
  <2> QED BY <1>0, <1>5, <2>2, <2>3, <2>4, <2>5, <2>6
          DEF ReadPayload, TypeOK, ReadInv, Steps
<1>6. CASE ProcessCommand(data)
  <2>1. Received \in Frame
    BY ReceivedIsFrame
  <2>2. out' \in Seq(Frame)
    BY <1>6, <2>1 DEF ProcessCommand
  <2> QED BY <1>0, <1>6, <2>2 DEF ProcessCommand, ResetParserState, TypeOK, ReadInv, Steps
<1>7. CASE ChecksumError(data)
  BY <1>0, <1>7 DEF ChecksumError, ResetParserState, TypeOK, ReadInv, Steps
<1> QED BY <1>1, <1>2, <1>3, <1>4, <1>5, <1>6, <1>7 DEF Parse

(* The parser's invariant, whatever the bus brings.                        *)
THEOREM ParserInvariant == ParserSpec => []ParserInv
<1>1. ParserInv /\ [ParserNext]_parserVars => ParserInv'
  <2> SUFFICES ASSUME ParserInv, [ParserNext]_parserVars PROVE ParserInv'
    OBVIOUS
  <2>1. CASE Pause
    BY <2>1, PauseInv
  <2>2. CASE \E data \in Words : Parse(data)
    BY <2>2, ParseInv, WordsAssumption DEF Word
  <2>3. CASE UNCHANGED parserVars
    BY <2>3 DEF ParserInv, TypeOK, ReadInv, parserVars
  <2> QED BY <2>1, <2>2, <2>3 DEF ParserNext
<1> QED BY ParserInitInv, <1>1, PTL DEF ParserSpec

(* The payload is never written past its end, and the parser is never in a *)
(* step that no word leads out of: PayloadFits.                            *)
THEOREM PayloadAlwaysFits == ParserSpec => []PayloadFits
<1>1. ParserInv => PayloadFits
  <2> SUFFICES ASSUME ParserInv, nextTPstep = "PAYLOAD_READ"
               PROVE  bytesRead < payloadSize /\ bytesRead + 2 <= MaxPayload
    BY DEF PayloadFits
  <2>1. bytesRead < payloadSize
    BY DEF ParserInv, ReadInv
  <2>2. bytesRead \in 0 .. MaxPayload /\ bytesRead % 2 = 0 /\ bytesRead < MaxPayload
    BY <2>1, MaxPayloadAssumption DEF ParserInv, ReadInv, TypeOK
  <2> QED BY <2>1, <2>2, EvenOffset
<1> QED BY ParserInvariant, <1>1, PTL

(***************************************************************************)
(* Induction over the natural numbers, for sets                            *)
(***************************************************************************)
LEMMA LeastNumber ==
  ASSUME NEW T \in SUBSET Nat, T # {}
  PROVE  \E x \in T : \A y \in T : x <= y
<1> DEFINE R == {ss \in Nat \X Nat : ss[1] < ss[2]}
<1>1. IsWellFoundedOn(R, Nat)
  BY NatLessThanWellFounded DEF OpToRel
<1> HIDE DEF R
<1>2. PICK x \in T : \A y \in T : <<y, x>> \notin R
  BY <1>1, WFMin
<1>3. ASSUME NEW y \in T PROVE x <= y
  <2>1. x \in Nat /\ y \in Nat
    OBVIOUS
  <2>2. ~(y < x)
    BY <1>2, <2>1 DEF R
  <2> QED
    BY <2>1, <2>2
<1> QED
  BY <1>3

LEMMA Induction ==
  ASSUME NEW S, 0 \in S, \A n \in Nat : n \in S => n + 1 \in S
  PROVE  \A n \in Nat : n \in S
<1> DEFINE T == {n \in Nat : n \notin S}
<1> SUFFICES ASSUME T # {} PROVE FALSE
  OBVIOUS
<1> HIDE DEF T
<1>1. PICK x \in T : \A y \in T : x <= y
  <2>1. T \in SUBSET Nat
    BY DEF T
  <2> QED
    BY <2>1, LeastNumber
<1>2. x \in Nat /\ x \notin S
  BY DEF T
<1>3. x - 1 \in Nat /\ x - 1 \notin T
  BY <1>1, <1>2
<1> QED
  BY <1>2, <1>3 DEF T

(***************************************************************************)
(* The checksum of a sequence of words                                     *)
(***************************************************************************)

(* The function that SumOf computes: what the words at the indices in s    *)
(* add up to.                                                              *)
SumsUp(w, f, S) ==
  f = [s \in SUBSET S |-> IF s = {} THEN 0
                          ELSE (f[s \ {Max(s)}] + w[Max(s)]) % WordMod]

LEMMA SumUnfolds ==
  ASSUME NEW w
  PROVE  SumOf(w) = (CHOOSE f : SumsUp(w, f, DOMAIN w))[DOMAIN w]
BY DEF SumOf, FoldLeft, MapThenFoldSet, SumsUp

LEMMA MaxIs ==
  ASSUME NEW s \in SUBSET Nat, NEW m \in s, \A x \in s : m >= x
  PROVE  Max(s) = m
<1>1. \A x \in s : (\A y \in s : x >= y) <=> x = m
  OBVIOUS
<1>2. Max(s) = CHOOSE x \in s : x = m
  BY <1>1, Zenon DEF Max
<1> QED
  BY <1>2

(* There is such a function, by induction on the number of indices.        *)
LEMMA SumExists ==
  ASSUME NEW w, NEW n \in Nat
  PROVE  \E f : SumsUp(w, f, 1 .. n)
<1> DEFINE Good == {k \in Nat : \E f : SumsUp(w, f, 1 .. k)}
<1>1. 0 \in Good
  <2>1. SumsUp(w, [s \in SUBSET (1 .. 0) |-> 0], 1 .. 0)
    BY DEF SumsUp
  <2> QED
    BY <2>1
<1>2. ASSUME NEW k \in Nat, k \in Good PROVE k + 1 \in Good
  <2>1. PICK f : SumsUp(w, f, 1 .. k)
    BY <1>2
  <2> DEFINE g == [s \in SUBSET (1 .. k + 1) |->
                     IF k + 1 \in s THEN (f[s \ {k + 1}] + w[k + 1]) % WordMod ELSE f[s]]
             h == [s \in SUBSET (1 .. k + 1) |->
                     IF s = {} THEN 0 ELSE (g[s \ {Max(s)}] + w[Max(s)]) % WordMod]
  <2>2. \A s \in SUBSET (1 .. k) :
          f[s] = IF s = {} THEN 0 ELSE (f[s \ {Max(s)}] + w[Max(s)]) % WordMod
    BY <2>1 DEF SumsUp
  <2>3. ASSUME NEW s \in SUBSET (1 .. k + 1) PROVE g[s] = h[s]
    <3>1. CASE k + 1 \in s
      <4>1. Max(s) = k + 1
        BY <3>1, MaxIs
      <4>2. s \ {k + 1} \in SUBSET (1 .. k + 1) /\ k + 1 \notin s \ {k + 1}
        OBVIOUS
      <4>3. g[s \ {k + 1}] = f[s \ {k + 1}]
        BY <4>2
      <4>4. g[s] = (f[s \ {k + 1}] + w[k + 1]) % WordMod
        BY <3>1
      <4>5. h[s] = (g[s \ {k + 1}] + w[k + 1]) % WordMod
        BY <3>1, <4>1
      <4> QED
        BY <4>3, <4>4, <4>5
    <3>2. CASE k + 1 \notin s
      <4>1. s \in SUBSET (1 .. k)
        BY <3>2
      <4>2. g[s] = f[s]
        BY <3>2
      <4>3. CASE s = {}
        BY <2>2, <4>1, <4>2, <4>3
      <4>4. CASE s # {}
        <5>1. s \ {Max(s)} \in SUBSET (1 .. k + 1) /\ k + 1 \notin s \ {Max(s)}
          BY <3>2
        <5>2. g[s \ {Max(s)}] = f[s \ {Max(s)}]
          BY <5>1
        <5>3. h[s] = (g[s \ {Max(s)}] + w[Max(s)]) % WordMod
          BY <4>4
        <5> QED
          BY <2>2, <4>1, <4>2, <4>4, <5>2, <5>3
      <4> QED
        BY <4>3, <4>4
    <3> QED
      BY <3>1, <3>2
  <2>4. g = h
    BY <2>3
  <2>5. SumsUp(w, g, 1 .. k + 1)
    <3> HIDE DEF g
    <3> QED
      BY <2>4 DEF SumsUp
  <2> QED
    BY <2>5
<1> HIDE DEF Good
<1>3. n \in Good
  BY <1>1, <1>2, Induction
<1> QED
  BY <1>3 DEF Good

(* The sum as the last of the partial sums.                                *)
PartialSums(w, p) ==
  /\ p[0] = 0
  /\ \A i \in 1 .. Len(w) : p[i] = (p[i - 1] + w[i]) % WordMod

LEMMA SumIsLast ==
  ASSUME NEW w \in Seq(Word)
  PROVE  \E p : PartialSums(w, p) /\ SumOf(w) = p[Len(w)]
<1> DEFINE n == Len(w)
           f == CHOOSE f : SumsUp(w, f, 1 .. n)
           p == [i \in 0 .. n |-> f[1 .. i]]
<1>1. n \in Nat /\ DOMAIN w = 1 .. n
  OBVIOUS
<1>2. SumsUp(w, f, 1 .. n)
  BY <1>1, SumExists
<1>3. SumOf(w) = f[1 .. n]
  BY <1>1, SumUnfolds
<1> HIDE DEF f
<1>4. \A s \in SUBSET (1 .. n) :
        f[s] = IF s = {} THEN 0 ELSE (f[s \ {Max(s)}] + w[Max(s)]) % WordMod
  BY <1>2 DEF SumsUp
<1>5. p[0] = 0
  <2>1. 1 .. 0 = {} /\ {} \in SUBSET (1 .. n)
    OBVIOUS
  <2>2. f[1 .. 0] = 0
    BY <1>4, <2>1
  <2> QED
    BY <1>1, <2>2
<1>6. ASSUME NEW i \in 1 .. n PROVE p[i] = (p[i - 1] + w[i]) % WordMod
  <2>1. Max(1 .. i) = i
    BY <1>1, MaxIs
  <2>2. (1 .. i) \ {i} = 1 .. i - 1
    BY <1>1
  <2>3. 1 .. i \in SUBSET (1 .. n) /\ 1 .. i # {}
    <3>1. 1 \in 1 .. i /\ \A j \in 1 .. i : j \in 1 .. n
      BY <1>1
    <3> QED
      BY <3>1
  <2>4. f[1 .. i] = (f[1 .. i - 1] + w[i]) % WordMod
    BY <1>4, <2>1, <2>2, <2>3
  <2> QED
    BY <1>1, <2>4
<1>7. p[n] = f[1 .. n]
  BY <1>1
<1> QED
  BY <1>3, <1>5, <1>6, <1>7 DEF PartialSums

(* Partial sums are words, and depend on the words up to them only.        *)
LEMMA PartialSumsAgree ==
  ASSUME NEW v \in Seq(Word), NEW w \in Seq(Word), NEW p, NEW q,
         PartialSums(v, p), PartialSums(w, q),
         NEW n \in Nat, n <= Len(v), n <= Len(w),
         \A i \in 1 .. n : v[i] = w[i]
  PROVE  p[n] = q[n] /\ p[n] \in Word
<1> DEFINE Good == {k \in Nat : k <= n => p[k] = q[k] /\ p[k] \in Word}
<1>1. 0 \in Good
  BY WordModAssumption DEF PartialSums, Word
<1>2. ASSUME NEW k \in Nat, k \in Good PROVE k + 1 \in Good
  <2> SUFFICES ASSUME k + 1 <= n PROVE p[k + 1] = q[k + 1] /\ p[k + 1] \in Word
    OBVIOUS
  <2>1. p[k] = q[k] /\ p[k] \in Word
    BY <1>2
  <2>2. k + 1 \in 1 .. n /\ k + 1 \in 1 .. Len(v) /\ k + 1 \in 1 .. Len(w) /\ (k + 1) - 1 = k
    OBVIOUS
  <2>3. p[k + 1] = (p[k] + v[k + 1]) % WordMod /\ q[k + 1] = (q[k] + w[k + 1]) % WordMod
    BY <2>2 DEF PartialSums
  <2>4. v[k + 1] = w[k + 1] /\ v[k + 1] \in Word
    BY <2>2
  <2> QED
    BY <2>1, <2>3, <2>4, SumIsWord
<1> HIDE DEF Good
<1>3. n \in Good
  BY <1>1, <1>2, Induction
<1> QED
  BY <1>3 DEF Good

LEMMA SumOfNothing == SumOf(<<>>) = 0
<1>1. <<>> \in Seq(Word) /\ Len(<<>>) = 0
  OBVIOUS
<1> QED
  BY <1>1, SumIsLast DEF PartialSums

LEMMA SumOfIsWord ==
  ASSUME NEW w \in Seq(Word)
  PROVE  SumOf(w) \in Word
<1>1. PICK p : PartialSums(w, p) /\ SumOf(w) = p[Len(w)]
  BY SumIsLast
<1>2. p[Len(w)] \in Word
  BY <1>1, PartialSumsAgree
<1> QED
  BY <1>1, <1>2

(* One more word adds to the sum of the others, as the parser does it.     *)
LEMMA SumOfOneMore ==
  ASSUME NEW w \in Seq(Word), NEW d \in Word
  PROVE  SumOf(Append(w, d)) = (SumOf(w) + d) % WordMod
<1> DEFINE v == Append(w, d)
           n == Len(w)
<1>1. v \in Seq(Word) /\ Len(v) = n + 1 /\ n \in Nat /\ v[n + 1] = d /\ \A i \in 1 .. n : v[i] = w[i]
  OBVIOUS
<1>2. PICK p : PartialSums(w, p) /\ SumOf(w) = p[n]
  BY SumIsLast
<1>3. PICK q : PartialSums(v, q) /\ SumOf(v) = q[n + 1]
  BY <1>1, SumIsLast
<1> HIDE DEF v
<1>4. p[n] = q[n]
  BY <1>1, <1>2, <1>3, PartialSumsAgree
<1>5. q[n + 1] = (q[(n + 1) - 1] + v[n + 1]) % WordMod
  BY <1>1, <1>3 DEF PartialSums
<1> QED
  BY <1>1, <1>2, <1>3, <1>4, <1>5 DEF v

(***************************************************************************)
(* The parser in the middle of a frame                                     *)
(***************************************************************************)
InFrame == ~stale /\ nextTPstep # "HEADER_DETECTION"

(* How many words of its frame the parser has read.                        *)
Position ==
  CASE nextTPstep = "COMMAND_READ"      -> 1
    [] nextTPstep = "PAYLOAD_SIZE_READ" -> 2
    [] OTHER                            -> 3 + bytesRead \div 2

(* They are w: what the parser's state says of the words it has read.      *)
FrameSoFar(w) ==
  /\ w \in Seq(Word) /\ Len(w) = Position /\ w[1] = Header
  /\ finalChecksum = SumOf(SubSeq(w, 2, Len(w)))
  /\ nextTPstep # "COMMAND_READ" => commandId = w[2]
  /\ nextTPstep \in {"PAYLOAD_READ", "PAYLOAD_READ_END"} =>
       /\ w[3] <= MaxPayload /\ (w[3] > 0 => payloadSize = w[3])
       /\ \A i \in 4 .. Len(w) : payload[i - 4] = w[i]
  /\ nextTPstep = "PAYLOAD_READ" => w[3] > 0
  /\ nextTPstep = "PAYLOAD_READ_END" => bytesRead \div 2 = (w[3] + 1) \div 2

(* The beginning of a frame, as far as its words tell.                     *)
Opens(w) ==
  /\ Len(w) >= 1 /\ w[1] = Header
  /\ Len(w) >= 3 => w[3] <= MaxPayload /\ Len(w) <= 3 + (w[3] + 1) \div 2

(* The words behind the first, up to the nth.                              *)
LEMMA TailOf ==
  ASSUME NEW v \in Seq(Word), NEW n \in Nat, 1 <= n, n <= Len(v)
  PROVE  /\ SubSeq(v, 2, n) \in Seq(Word) /\ Len(SubSeq(v, 2, n)) = n - 1
         /\ \A i \in 1 .. n - 1 : SubSeq(v, 2, n)[i] = v[i + 1]
<1>1. 2 \in Int /\ n \in Int /\ \A i \in 2 .. n : v[i] \in Word
  BY ElementOfSeq
<1>2. /\ SubSeq(v, 2, n) \in Seq(Word)
      /\ Len(SubSeq(v, 2, n)) = IF 2 <= n THEN n - 2 + 1 ELSE 0
      /\ \A i \in 1 .. n - 2 + 1 : SubSeq(v, 2, n)[i] = v[2 + i - 1]
  BY <1>1, SubSeqProperties
<1>3. \A i \in 1 .. n - 1 : i \in 1 .. n - 2 + 1 /\ 2 + i - 1 = i + 1
  OBVIOUS
<1> QED
  BY <1>2, <1>3

(* A word more behind the first: what is read, and its sum.                *)
LEMMA OneMoreWord ==
  ASSUME NEW w \in Seq(Word), Len(w) >= 1, NEW d \in Word
  PROVE  /\ Append(w, d) \in Seq(Word) /\ Len(Append(w, d)) = Len(w) + 1
         /\ \A i \in 1 .. Len(w) : Append(w, d)[i] = w[i]
         /\ Append(w, d)[Len(w) + 1] = d
         /\ SubSeq(Append(w, d), 2, Len(w) + 1) = Append(SubSeq(w, 2, Len(w)), d)
         /\ SubSeq(Append(w, d), 2, Len(w)) = SubSeq(w, 2, Len(w))
         /\ SumOf(SubSeq(Append(w, d), 2, Len(w) + 1)) = (SumOf(SubSeq(w, 2, Len(w))) + d) % WordMod
<1> DEFINE v == Append(w, d)
           n == Len(w)
           u == SubSeq(w, 2, n)
           t == SubSeq(v, 2, n + 1)
           z == SubSeq(v, 2, n)
<1>1. /\ v \in Seq(Word) /\ Len(v) = n + 1 /\ n \in Nat
      /\ \A i \in 1 .. n : v[i] = w[i] /\ v[i] \in Word
      /\ v[n + 1] = d
  BY AppendProperties, ElementOfSeq
<1>0. 1 <= n /\ n <= Len(w) /\ n <= Len(v)
  BY <1>1
<1> HIDE DEF v, n
<1>2. /\ u \in Seq(Word) /\ Len(u) = n - 1
      /\ \A i \in 1 .. n - 1 : u[i] = w[i + 1]
  BY <1>0, <1>1, TailOf
<1>3. /\ t \in Seq(Word) /\ Len(t) = n
      /\ \A i \in 1 .. n : t[i] = v[i + 1]
  <2>1. n + 1 \in Nat /\ (n + 1) - 1 = n
    BY <1>1
  <2> QED
    BY <1>0, <1>1, <2>1, TailOf
<1>4. /\ z \in Seq(Word) /\ Len(z) = n - 1
      /\ \A i \in 1 .. n - 1 : z[i] = v[i + 1]
  BY <1>0, <1>1, TailOf
<1> HIDE DEF u, t, z
<1>5. Append(u, d) \in Seq(Word) /\ Len(Append(u, d)) = n
      /\ \A i \in 1 .. n : Append(u, d)[i] = IF i = n THEN d ELSE u[i]
  BY <1>1, <1>2, AppendProperties
<1>6. t = Append(u, d)
  <2>1. ASSUME NEW i \in 1 .. n PROVE t[i] = Append(u, d)[i]
    <3>1. CASE i = n
      BY <1>1, <1>3, <1>5, <3>1
    <3>2. CASE i # n
      <4>1. i \in 1 .. n - 1 /\ i + 1 \in 1 .. n
        BY <1>1, <3>2
      <4> QED
        BY <1>1, <1>2, <1>3, <1>5, <3>2, <4>1
    <3> QED
      BY <3>1, <3>2
  <2> QED
    BY <1>1, <1>3, <1>5, <2>1, SeqEqual
<1>7. z = u
  <2>1. ASSUME NEW i \in 1 .. n - 1 PROVE z[i] = u[i]
    <3>1. i + 1 \in 1 .. n
      BY <1>1
    <3> QED
      BY <1>1, <1>2, <1>4, <3>1
  <2> QED
    BY <1>1, <1>2, <1>4, <2>1, SeqEqual
<1>8. SumOf(t) = (SumOf(u) + d) % WordMod
  BY <1>2, <1>6, SumOfOneMore
<1> QED
  BY <1>1, <1>6, <1>7, <1>8 DEF v, u, t, z, n

(* A word that no frame is waiting for opens one, or is passed over.       *)
LEMMA HeaderOpens ==
  ASSUME ParserInv, ~InFrame, NEW data \in Word, Parse(data)
  PROVE  /\ out' = <<>> /\ stale' = FALSE
         /\ data = Header => InFrame' /\ FrameSoFar(<<data>>)'
         /\ data # Header => nextTPstep' = "HEADER_DETECTION"
<1>1. Step = "HEADER_DETECTION"
  BY DEF InFrame, Step
<1>2. DetectHeader(data)
  BY <1>1 DEF Parse, DetectHeader, ReadCommand, RejectPayloadSize, ReadPayloadSize,
              ReadPayload, ProcessCommand, ChecksumError
<1>3. ASSUME data = Header PROVE InFrame' /\ FrameSoFar(<<data>>)'
  <2>1. nextTPstep' = "COMMAND_READ" /\ finalChecksum' = 0 /\ stale' = FALSE
    BY <1>2, <1>3 DEF DetectHeader
  <2>2. <<data>> \in Seq(Word) /\ Len(<<data>>) = 1 /\ <<data>>[1] = data
    OBVIOUS
  <2>3. SubSeq(<<data>>, 2, 1) = <<>>
    BY <2>2, SubSeqEmpty
  <2>4. Position' = 1
    BY <2>1 DEF Position
  <2> QED
    BY <1>3, <2>1, <2>2, <2>3, <2>4, SumOfNothing DEF InFrame, FrameSoFar
<1> QED
  BY <1>2, <1>3 DEF DetectHeader

(* Inside a frame, what the parser knows of the words read stays true with *)
(* one more; it delivers when they are a frame, that frame, and leaves a   *)
(* sequence only when it is a frame or can no longer become one.  One lemma *)
(* per step of the parser; w are the words read, and data comes.           *)
LEMMA CommandFollows ==
  ASSUME ParserInv, InFrame, NEW w, FrameSoFar(w), NEW data \in Word, ReadCommand(data)
  PROVE  /\ InFrame' /\ FrameSoFar(Append(w, data))' /\ out' = <<>>
         /\ ~IsFrame(Append(w, data))
<1> DEFINE v == Append(w, data)
<1>1. nextTPstep = "COMMAND_READ"
  BY DEF InFrame, Step, ReadCommand
<1>2. w \in Seq(Word) /\ Len(w) = 1 /\ w[1] = Header /\ finalChecksum = SumOf(SubSeq(w, 2, Len(w)))
  BY <1>1 DEF FrameSoFar, Position
<1>3. /\ v \in Seq(Word) /\ Len(v) = 2 /\ v[1] = Header /\ v[2] = data
      /\ SumOf(SubSeq(v, 2, 2)) = (finalChecksum + data) % WordMod
  BY <1>2, OneMoreWord
<1> HIDE DEF v
<1>4. /\ nextTPstep' = "PAYLOAD_SIZE_READ" /\ commandId' = data /\ out' = <<>> /\ stale' = FALSE
      /\ finalChecksum' = (finalChecksum + data) % WordMod
  BY DEF ReadCommand, Accumulate, InFrame, ParserInv, TypeOK
<1>5. Position' = 2
  BY <1>4 DEF Position
<1>6. InFrame' /\ FrameSoFar(v)'
  BY <1>3, <1>4, <1>5 DEF InFrame, FrameSoFar
<1>7. ~IsFrame(v)
  BY <1>3 DEF IsFrame
<1> QED
  BY <1>4, <1>6, <1>7 DEF v

LEMMA SizeFollows ==
  ASSUME ParserInv, InFrame, NEW w, FrameSoFar(w), NEW data \in Word,
         RejectPayloadSize(data) \/ ReadPayloadSize(data)
  PROVE  /\ out' = <<>> /\ ~IsFrame(Append(w, data))
         /\ IF data <= MaxPayload THEN InFrame' /\ FrameSoFar(Append(w, data))'
                                  ELSE ~InFrame' /\ stale' /\ ~Opens(Append(w, data))
<1> DEFINE v == Append(w, data)
<1>0. data \in Nat /\ MaxPayload \in Nat
  BY WordModAssumption, MaxPayloadAssumption DEF Word
<1>1. nextTPstep = "PAYLOAD_SIZE_READ"
  BY DEF InFrame, Step, RejectPayloadSize, ReadPayloadSize
<1>2. /\ w \in Seq(Word) /\ Len(w) = 2 /\ w[1] = Header /\ commandId = w[2]
      /\ finalChecksum = SumOf(SubSeq(w, 2, Len(w)))
  BY <1>1 DEF FrameSoFar, Position
<1>3. /\ v \in Seq(Word) /\ Len(v) = 3 /\ v[1] = Header /\ v[2] = commandId /\ v[3] = data
      /\ SumOf(SubSeq(v, 2, 3)) = (finalChecksum + data) % WordMod
  <2>1. Len(w) >= 1 /\ Len(w) + 1 = 3 /\ 1 \in 1 .. Len(w) /\ 2 \in 1 .. Len(w)
    BY <1>2
  <2>2. /\ v \in Seq(Word) /\ Len(v) = Len(w) + 1 /\ \A i \in 1 .. Len(w) : v[i] = w[i]
        /\ v[Len(w) + 1] = data
        /\ SumOf(SubSeq(v, 2, Len(w) + 1)) = (SumOf(SubSeq(w, 2, Len(w))) + data) % WordMod
    BY <1>2, <2>1, OneMoreWord
  <2> HIDE DEF v
  <2> QED
    BY <1>2, <2>1, <2>2
<1> HIDE DEF v
<1>4. out' = <<>>
  BY DEF RejectPayloadSize, ReadPayloadSize
<1>5. ~IsFrame(v)
  BY <1>3 DEF IsFrame
<1>6. CASE data <= MaxPayload
  <2>1. /\ IF data > 0 THEN payloadSize' = data /\ nextTPstep' = "PAYLOAD_READ"
                       ELSE nextTPstep' = "PAYLOAD_READ_END"
        /\ bytesRead' = 0 /\ stale' = FALSE /\ commandId' = commandId
        /\ finalChecksum' = (finalChecksum + data) % WordMod
    BY <1>0, <1>6 DEF RejectPayloadSize, ReadPayloadSize, Accumulate, InFrame, ParserInv, TypeOK
  <2>2. bytesRead' \div 2 = 0 /\ (0 + 1) \div 2 = 0
    BY <2>1
  <2>3. Position' = 3
    BY <2>1, <2>2 DEF Position
  <2>4. nextTPstep' = "PAYLOAD_READ_END" => v[3] = 0
    BY <1>0, <1>3, <2>1
  <2>5. InFrame'
    BY <2>1 DEF InFrame
  <2>6. FrameSoFar(v)'
    <3>1. \A i \in 4 .. 3 : payload'[i - 4] = v[i]
      OBVIOUS
    <3> QED
      BY <1>0, <1>3, <1>6, <2>1, <2>2, <2>3, <2>4, <3>1 DEF FrameSoFar
  <2> QED
    BY <1>4, <1>5, <1>6, <2>5, <2>6 DEF v
<1>7. CASE ~(data <= MaxPayload)
  <2>1. nextTPstep' = "HEADER_DETECTION" /\ stale' = TRUE
    BY <1>0, <1>7 DEF RejectPayloadSize, ReadPayloadSize, ResetParserState
  <2>2. ~InFrame' /\ stale'
    BY <2>1 DEF InFrame
  <2>3. ~Opens(v)
    BY <1>3, <1>7 DEF Opens
  <2> QED
    BY <1>4, <1>5, <1>7, <2>2, <2>3 DEF v
<1> QED
  BY <1>6, <1>7

LEMMA PayloadFollows ==
  ASSUME ParserInv, InFrame, NEW w, FrameSoFar(w), NEW data \in Word, ReadPayload(data)
  PROVE  /\ InFrame' /\ FrameSoFar(Append(w, data))' /\ out' = <<>>
         /\ ~IsFrame(Append(w, data))
<1> DEFINE v == Append(w, data)
           n == Len(w)
<1>0. MaxPayload \in Nat /\ bytesRead \in Nat /\ bytesRead % 2 = 0 /\ payload \in [Slots -> Word]
  BY MaxPayloadAssumption DEF ParserInv, TypeOK, ReadInv
<1>1. nextTPstep = "PAYLOAD_READ" /\ bytesRead < payloadSize
  BY DEF InFrame, Step, ReadPayload
<1>2. /\ w \in Seq(Word) /\ n = 3 + bytesRead \div 2 /\ w[1] = Header /\ commandId = w[2]
      /\ finalChecksum = SumOf(SubSeq(w, 2, n))
      /\ w[3] <= MaxPayload /\ w[3] > 0 /\ payloadSize = w[3]
      /\ \A i \in 4 .. n : payload[i - 4] = w[i]
  BY <1>1 DEF FrameSoFar, Position
<1>3. n \in Nat /\ n >= 3 /\ w[3] \in Nat
  BY <1>0, <1>2, WordModAssumption DEF Word
<1>4. /\ v \in Seq(Word) /\ Len(v) = n + 1 /\ v[1] = Header /\ v[2] = commandId /\ v[3] = w[3]
      /\ \A i \in 1 .. n : v[i] = w[i]
      /\ v[n + 1] = data
      /\ SumOf(SubSeq(v, 2, n + 1)) = (finalChecksum + data) % WordMod
  <2>1. n >= 1 /\ 1 \in 1 .. n /\ 2 \in 1 .. n /\ 3 \in 1 .. n
    BY <1>3
  <2> QED
    BY <1>2, <2>1, OneMoreWord
<1> HIDE DEF v, n
<1>5. bytesRead + 2 <= MaxPayload /\ bytesRead \div 2 \in Slots
  <2>1. bytesRead \in 0 .. MaxPayload /\ bytesRead < MaxPayload
    BY <1>0, <1>1, <1>2, <1>3
  <2> QED
    BY <1>0, <2>1, EvenOffset
<1>6. /\ payload' = [payload EXCEPT ![bytesRead \div 2] = data]
      /\ finalChecksum' = (finalChecksum + data) % WordMod
      /\ bytesRead' = bytesRead + 2
      /\ nextTPstep' = IF bytesRead' >= payloadSize THEN "PAYLOAD_READ_END" ELSE "PAYLOAD_READ"
      /\ commandId' = commandId /\ payloadSize' = payloadSize /\ stale' = FALSE /\ out' = <<>>
  <2>1. ~(bytesRead + 2 > MaxPayload)
    BY <1>0, <1>5
  <2> QED
    BY <2>1 DEF ReadPayload, Accumulate, InFrame, ParserInv, TypeOK
<1>7. bytesRead' \div 2 = bytesRead \div 2 + 1
  BY <1>0, <1>6
<1>8. Position' = n + 1
  <2>1. Position' = 3 + bytesRead' \div 2
    BY <1>6 DEF Position
  <2> QED
    BY <1>0, <1>2, <1>7, <2>1
<1>9. \A i \in 4 .. n + 1 : payload'[i - 4] = v[i]
  <2> SUFFICES ASSUME NEW i \in 4 .. n + 1 PROVE payload'[i - 4] = v[i]
    OBVIOUS
  <2>1. CASE i = n + 1
    <3>1. i - 4 = bytesRead \div 2
      BY <1>0, <1>2, <2>1
    <3> QED
      BY <1>0, <1>4, <1>5, <1>6, <2>1, <3>1
  <2>2. CASE i # n + 1
    <3>1. i \in 4 .. n /\ i \in 1 .. n /\ i - 4 # bytesRead \div 2
      BY <1>0, <1>2, <1>3, <2>2
    <3>2. i - 4 \in Slots
      <4>1. i - 4 \in Nat /\ i - 4 <= bytesRead \div 2
        BY <1>0, <1>2, <3>1
      <4> QED
        BY <1>0, <1>5, <4>1, MaxPayloadAssumption DEF Slots
    <3>3. payload'[i - 4] = payload[i - 4]
      BY <1>0, <1>6, <3>1, <3>2
    <3> QED
      BY <1>2, <1>4, <3>1, <3>3
  <2> QED
    BY <2>1, <2>2
<1>10. nextTPstep' = "PAYLOAD_READ_END" => bytesRead' \div 2 = (v[3] + 1) \div 2
  <2>1. \A b, s \in Nat : b % 2 = 0 /\ b < s /\ b + 2 >= s => (b + 2) \div 2 = (s + 1) \div 2
    OBVIOUS
  <2> QED
    BY <1>0, <1>1, <1>2, <1>3, <1>4, <1>6, <2>1
<1>11. InFrame' /\ nextTPstep' \in {"PAYLOAD_READ", "PAYLOAD_READ_END"}
  BY <1>6 DEF InFrame
<1>12. FrameSoFar(v)'
  BY <1>2, <1>4, <1>6, <1>8, <1>9, <1>10, <1>11 DEF FrameSoFar
<1>13. ~IsFrame(v)
  <2>1. \A b, s \in Nat : b % 2 = 0 /\ b < s => b \div 2 < (s + 1) \div 2
    OBVIOUS
  <2>2. bytesRead \div 2 < (v[3] + 1) \div 2
    BY <1>0, <1>1, <1>2, <1>3, <1>4, <2>1
  <2>3. bytesRead \div 2 \in Nat /\ (v[3] + 1) \div 2 \in Nat
    BY <1>0, <1>3, <1>4
  <2>4. Len(v) # 4 + (v[3] + 1) \div 2
    BY <1>2, <1>4, <2>2, <2>3
  <2> QED
    BY <2>4 DEF IsFrame
<1> QED
  BY <1>6, <1>11, <1>12, <1>13 DEF v

LEMMA EndFollows ==
  ASSUME ParserInv, InFrame, NEW w, FrameSoFar(w), NEW data \in Word,
         ProcessCommand(data) \/ ChecksumError(data)
  PROVE  /\ ~InFrame' /\ stale' /\ ~Opens(Append(w, data))
         /\ IF IsFrame(Append(w, data))
            THEN Len(out') = 1 /\ Carries(Append(w, data), out'[1])
            ELSE out' = <<>>
<1> DEFINE v == Append(w, data)
           n == Len(w)
<1>0. MaxPayload \in Nat /\ bytesRead \in Nat /\ payloadSize \in Nat
  BY MaxPayloadAssumption DEF ParserInv, TypeOK
<1>1. nextTPstep = "PAYLOAD_READ_END"
  BY DEF InFrame, Step, ProcessCommand, ChecksumError
<1>2. /\ w \in Seq(Word) /\ n = 3 + bytesRead \div 2 /\ w[1] = Header /\ commandId = w[2]
      /\ finalChecksum = SumOf(SubSeq(w, 2, n))
      /\ w[3] <= MaxPayload /\ (w[3] > 0 => payloadSize = w[3])
      /\ \A i \in 4 .. n : payload[i - 4] = w[i]
      /\ bytesRead \div 2 = (w[3] + 1) \div 2
  BY <1>1 DEF FrameSoFar, Position
<1>3. n \in Nat /\ n >= 3 /\ w[3] \in Nat
  BY <1>0, <1>2, WordModAssumption DEF Word
<1>4. /\ v \in Seq(Word) /\ Len(v) = n + 1 /\ v[1] = Header /\ v[2] = commandId /\ v[3] = w[3]
      /\ \A i \in 1 .. n : v[i] = w[i]
      /\ v[n + 1] = data
      /\ SubSeq(v, 2, n) = SubSeq(w, 2, n)
  <2>1. n >= 1 /\ 1 \in 1 .. n /\ 2 \in 1 .. n /\ 3 \in 1 .. n
    BY <1>3
  <2> QED
    BY <1>2, <2>1, OneMoreWord
<1> HIDE DEF v, n
<1>5. n = 3 + (v[3] + 1) \div 2 /\ (v[3] + 1) \div 2 \in Nat
  <2>1. \A k \in Nat : (k + 1) \div 2 \in Nat
    OBVIOUS
  <2> QED
    BY <1>2, <1>3, <1>4, <2>1
<1>6. IsFrame(v) <=> data = finalChecksum
  <2> DEFINE k == (v[3] + 1) \div 2
  <2> HIDE DEF k
  <2>0. n = 3 + k /\ k \in Nat
    BY <1>5 DEF k
  <2>1. Len(v) - 1 = n /\ Len(v) >= 4 /\ Len(v) = 4 + k
    BY <1>3, <1>4, <2>0
  <2> QED
    BY <1>2, <1>4, <2>1 DEF IsFrame, k
<1>7. ~Opens(v)
  <2> DEFINE k == (v[3] + 1) \div 2
  <2> HIDE DEF k
  <2>0. n = 3 + k /\ k \in Nat
    BY <1>5 DEF k
  <2>1. Len(v) >= 3 /\ ~(Len(v) <= 3 + k)
    BY <1>3, <1>4, <2>0
  <2> QED
    BY <2>1 DEF Opens, k
<1>8. nextTPstep' = "HEADER_DETECTION" /\ stale' = TRUE
  BY DEF ProcessCommand, ChecksumError, ResetParserState
<1>9. ~InFrame' /\ stale'
  BY <1>8 DEF InFrame
<1>10. ASSUME data = finalChecksum PROVE Len(out') = 1 /\ Carries(v, out'[1])
  <2>1. out' = <<Received>>
    BY <1>10 DEF ProcessCommand, ChecksumError
  <2>2. Received.id = v[2]
    BY <1>4 DEF Received
  <2>3. ASSUME v[3] > 0 PROVE Received.size = v[3] /\ Received.words = SubSeq(v, 4, n)
    <3> DEFINE m == (payloadSize + 1) \div 2
               a == [i \in 1 .. m |-> payload[i - 1]]
               b == SubSeq(v, 4, n)
    <3>1. payloadSize = v[3] /\ m \in Nat /\ n = 3 + m
      BY <1>0, <1>2, <1>4, <1>5, <2>3
    <3>2. Received.size = v[3] /\ Received.words = a
      BY <3>1 DEF Received
    <3>3. b \in Seq(Word) /\ Len(b) = m /\ \A i \in 1 .. m : b[i] = v[i + 3]
      <4>1. 4 \in Int /\ n \in Int /\ \A i \in 4 .. n : v[i] \in Word
        BY <1>3, <1>4, ElementOfSeq
      <4>2. /\ b \in Seq(Word) /\ Len(b) = IF 4 <= n THEN n - 4 + 1 ELSE 0
            /\ \A i \in 1 .. n - 4 + 1 : b[i] = v[4 + i - 1]
        BY <4>1, SubSeqProperties
      <4>3. n - 4 + 1 = m /\ \A i \in 1 .. m : 4 + i - 1 = i + 3
        BY <3>1
      <4>4. (IF 4 <= n THEN n - 4 + 1 ELSE 0) = m
        BY <3>1, <4>3
      <4> HIDE DEF b, m
      <4> QED
        BY <4>2, <4>3, <4>4
    <3>4. ASSUME NEW i \in 1 .. m PROVE payload[i - 1] = v[i + 3]
      <4> HIDE DEF m
      <4>1. i + 3 \in 4 .. n /\ i + 3 \in 1 .. n /\ (i + 3) - 4 = i - 1
        BY <3>1
      <4> QED
        BY <1>2, <1>4, <4>1
    <3>5. a \in Seq(Word) /\ Len(a) = m /\ \A i \in 1 .. m : a[i] = b[i]
      <4>1. \A i \in 1 .. m : b[i] \in Word
        BY <3>3, ElementOfSeq
      <4> HIDE DEF m, b
      <4>2. a \in [1 .. m -> Word]
        BY <3>3, <3>4, <4>1
      <4>3. a \in Seq(Word)
        BY <3>1, <4>2, SeqDef
      <4>4. Len(a) = m
        BY <3>1, <4>3
      <4> QED
        BY <3>3, <3>4, <4>3, <4>4
    <3>6. a = b
      <4> HIDE DEF a, b, m
      <4> QED
        BY <3>3, <3>5, SeqEqual
    <3> QED
      BY <3>2, <3>6
  <2>4. Len(v) - 1 = n
    BY <1>3, <1>4
  <2> QED
    BY <2>1, <2>2, <2>3, <2>4 DEF Carries
<1>11. data # finalChecksum => out' = <<>>
  BY DEF ProcessCommand, ChecksumError
<1> QED
  BY <1>6, <1>7, <1>9, <1>10, <1>11 DEF v

LEMMA ParseFollows ==
  ASSUME ParserInv, InFrame, NEW w, FrameSoFar(w), NEW data \in Word, Parse(data)
  PROVE  /\ InFrame' => FrameSoFar(Append(w, data))' /\ out' = <<>>
         /\ ~InFrame' => stale' /\ ~Opens(Append(w, data))
         /\ IF IsFrame(Append(w, data))
            THEN Len(out') = 1 /\ Carries(Append(w, data), out'[1])
            ELSE out' = <<>>
<1>1. ~DetectHeader(data)
  BY DEF InFrame, Step, DetectHeader
<1>2. CASE ReadCommand(data)
  BY <1>2, CommandFollows
<1>3. CASE RejectPayloadSize(data) \/ ReadPayloadSize(data)
  BY <1>3, SizeFollows
<1>4. CASE ReadPayload(data)
  BY <1>4, PayloadFollows
<1>5. CASE ProcessCommand(data) \/ ChecksumError(data)
  BY <1>5, EndFollows
<1> QED
  BY <1>1, <1>2, <1>3, <1>4, <1>5 DEF Parse
(***************************************************************************)
(* A command on its way                                                    *)
(***************************************************************************)

(* A sequence word by word.                                                *)
LEMMA PrefixGrows ==
  ASSUME NEW f \in Seq(Word), NEW n \in 0 .. Len(f) - 1
  PROVE  /\ SubSeq(f, 1, n) \in Seq(Word) /\ Len(SubSeq(f, 1, n)) = n
         /\ \A i \in 1 .. n : SubSeq(f, 1, n)[i] = f[i]
         /\ SubSeq(f, 1, n + 1) = Append(SubSeq(f, 1, n), f[n + 1])
         /\ f[n + 1] \in Word
<1> DEFINE u == SubSeq(f, 1, n)
           v == SubSeq(f, 1, n + 1)
<1>1. n \in Nat /\ n + 1 \in 1 .. Len(f) /\ Len(f) \in Nat /\ f[n + 1] \in Word
  BY ElementOfSeq
<1>2. u \in Seq(Word) /\ Len(u) = n /\ \A i \in 1 .. n : u[i] = f[i]
  <2>1. 1 \in Int /\ n \in Int /\ \A i \in 1 .. n : f[i] \in Word
    BY <1>1, ElementOfSeq
  <2>2. /\ u \in Seq(Word) /\ Len(u) = IF 1 <= n THEN n - 1 + 1 ELSE 0
        /\ \A i \in 1 .. n - 1 + 1 : u[i] = f[1 + i - 1]
    BY <2>1, SubSeqProperties
  <2> HIDE DEF u
  <2> QED
    BY <1>1, <2>2
<1>3. v \in Seq(Word) /\ Len(v) = n + 1 /\ \A i \in 1 .. n + 1 : v[i] = f[i]
  <2>1. 1 \in Int /\ n + 1 \in Int /\ \A i \in 1 .. n + 1 : f[i] \in Word
    BY <1>1, ElementOfSeq
  <2>2. /\ v \in Seq(Word) /\ Len(v) = IF 1 <= n + 1 THEN n + 1 - 1 + 1 ELSE 0
        /\ \A i \in 1 .. n + 1 - 1 + 1 : v[i] = f[1 + i - 1]
    BY <2>1, SubSeqProperties
  <2> HIDE DEF v
  <2> QED
    BY <1>1, <2>2
<1> HIDE DEF u, v
<1>4. /\ Append(u, f[n + 1]) \in Seq(Word) /\ Len(Append(u, f[n + 1])) = n + 1
      /\ \A i \in 1 .. n : Append(u, f[n + 1])[i] = u[i]
      /\ Append(u, f[n + 1])[n + 1] = f[n + 1]
  BY <1>1, <1>2, AppendProperties
<1>5. ASSUME NEW i \in 1 .. n + 1 PROVE v[i] = Append(u, f[n + 1])[i]
  <2>1. CASE i = n + 1
    BY <1>3, <1>4, <2>1
  <2>2. CASE i # n + 1
    <3>1. i \in 1 .. n
      BY <1>1, <2>2
    <3> QED
      BY <1>2, <1>3, <1>4, <3>1
  <2> QED
    BY <2>1, <2>2
<1>6. v = Append(u, f[n + 1])
  BY <1>1, <1>3, <1>4, <1>5, SeqEqual
<1> QED
  BY <1>1, <1>2, <1>6 DEF u, v

(* The words of a frame before its last begin a frame.                     *)
LEMMA FrameOpens ==
  ASSUME NEW f \in Seq(Word), IsFrame(f), NEW n \in 1 .. Len(f) - 1
  PROVE  Opens(SubSeq(f, 1, n))
<1> DEFINE u == SubSeq(f, 1, n)
           k == (f[3] + 1) \div 2
<1>1. n \in 0 .. Len(f) - 1 /\ n \in Nat /\ n >= 1 /\ Len(f) \in Nat
  OBVIOUS
<1>2. Len(u) = n /\ \A i \in 1 .. n : u[i] = f[i]
  BY <1>1, PrefixGrows
<1>3. f[1] = Header /\ f[3] <= MaxPayload /\ Len(f) = 4 + k /\ Len(f) >= 4
  BY DEF IsFrame
<1>4. f[3] \in Nat
  <2>1. f[3] \in Word
    BY <1>1, <1>3, ElementOfSeq
  <2> QED
    BY <2>1, WordModAssumption DEF Word
<1>5. k \in Nat
  BY <1>4
<1>6. u[1] = Header
  BY <1>1, <1>2, <1>3
<1>7. ASSUME n >= 3 PROVE u[3] = f[3] /\ n <= 3 + k
  <2> HIDE DEF k, u
  <2> QED
    BY <1>1, <1>2, <1>3, <1>5, <1>7
<1> HIDE DEF u
<1> QED
  BY <1>1, <1>2, <1>3, <1>6, <1>7 DEF Opens, u

(* The frame of a command is a frame, and carries that command alone.      *)
LEMMA CommandIsFrame ==
  ASSUME NEW c \in Commands
  PROVE  /\ FrameOf(c) \in Seq(Word) /\ Len(FrameOf(c)) \in Nat /\ Len(FrameOf(c)) >= 4
         /\ IsFrame(FrameOf(c))
         /\ \A r \in Frame : Carries(FrameOf(c), r) => r = c
         /\ \A i \in 2 .. Len(FrameOf(c)) : FrameOf(c)[i] # Header
<1> DEFINE m == Len(c.words)
           body == <<c.id, c.size>> \o c.words
           f == FrameOf(c)
<1>1. /\ c \in Frame /\ c.size > 0 /\ c.size = 2 * m
      /\ \A i \in 2 .. Len(f) : f[i] # Header
  BY CommandsAssumption
<1>2. /\ c.id \in Word /\ c.size \in 0 .. MaxPayload /\ c.size \in Word
      /\ c.words \in Seq(Word) /\ m \in Nat
  BY <1>1, WordModAssumption, MaxPayloadAssumption DEF Frame, Word
<1>3. /\ body \in Seq(Word) /\ Len(body) = 2 + m
      /\ body[1] = c.id /\ body[2] = c.size
      /\ \A i \in 1 .. m : body[i + 2] = c.words[i]
  <2>1. <<c.id, c.size>> \in Seq(Word) /\ Len(<<c.id, c.size>>) = 2
        /\ <<c.id, c.size>>[1] = c.id /\ <<c.id, c.size>>[2] = c.size
    BY <1>2
  <2>2. /\ body \in Seq(Word) /\ Len(body) = 2 + m
        /\ \A i \in 1 .. 2 + m : body[i] = IF i <= 2 THEN <<c.id, c.size>>[i] ELSE c.words[i - 2]
    BY <1>2, <2>1, ConcatProperties
  <2> HIDE DEF body, m
  <2>3. ASSUME NEW i \in 1 .. m PROVE body[i + 2] = c.words[i]
    <3>1. i + 2 \in 1 .. 2 + m /\ ~(i + 2 <= 2) /\ (i + 2) - 2 = i
      BY <1>2
    <3> QED
      BY <2>2, <3>1
  <2>4. 1 \in 1 .. 2 + m /\ 2 \in 1 .. 2 + m
    BY <1>2
  <2> QED
    BY <2>1, <2>2, <2>3, <2>4
<1>4. SumOf(body) \in Word /\ Header \in Word
  BY <1>3, SumOfIsWord, HeaderAssumption DEF Word
<1>5. /\ f \in Seq(Word) /\ Len(f) = 4 + m /\ f[1] = Header /\ f[4 + m] = SumOf(body)
      /\ \A i \in 1 .. 2 + m : f[i + 1] = body[i]
  <2> DEFINE g == <<Header>> \o body
             s == SumOf(body)
  <2>1. f = g \o <<s>>
    BY DEF FrameOf
  <2> HIDE DEF f, body, m, s
  <2>2. <<Header>> \in Seq(Word) /\ Len(<<Header>>) = 1 /\ <<Header>>[1] = Header
        /\ <<s>> \in Seq(Word) /\ Len(<<s>>) = 1 /\ <<s>>[1] = s
    BY <1>4 DEF s
  <2>3. /\ g \in Seq(Word) /\ Len(g) = 1 + (2 + m)
        /\ \A i \in 1 .. 1 + (2 + m) : g[i] = IF i <= 1 THEN <<Header>>[i] ELSE body[i - 1]
    BY <1>3, <2>2, ConcatProperties
  <2> HIDE DEF g
  <2>4. /\ f \in Seq(Word) /\ Len(f) = (3 + m) + 1
        /\ \A i \in 1 .. (3 + m) + 1 : f[i] = IF i <= 3 + m THEN g[i] ELSE <<s>>[i - (3 + m)]
    <3>1. 1 + (2 + m) = 3 + m
      BY <1>2
    <3> QED
      BY <2>1, <2>2, <2>3, <3>1, ConcatProperties
  <2>5. ASSUME NEW i \in 1 .. 2 + m PROVE f[i + 1] = body[i]
    <3>1. /\ i + 1 \in 1 .. (3 + m) + 1 /\ i + 1 \in 1 .. 1 + (2 + m) /\ i + 1 <= 3 + m
          /\ ~(i + 1 <= 1) /\ (i + 1) - 1 = i
      BY <1>2
    <3> QED
      BY <2>3, <2>4, <3>1
  <2>6. f[1] = Header
    <3>1. 1 \in 1 .. (3 + m) + 1 /\ 1 \in 1 .. 1 + (2 + m) /\ 1 <= 3 + m
      BY <1>2
    <3> QED
      BY <2>2, <2>3, <2>4, <3>1
  <2>7. f[4 + m] = s
    <3>1. 4 + m \in 1 .. (3 + m) + 1 /\ ~(4 + m <= 3 + m) /\ (4 + m) - (3 + m) = 1
      BY <1>2
    <3> QED
      BY <2>2, <2>4, <3>1
  <2>8. (3 + m) + 1 = 4 + m
    BY <1>2
  <2> QED
    BY <2>4, <2>5, <2>6, <2>7, <2>8 DEF s
<1> HIDE DEF f, body
<1>6. f[2] = c.id /\ f[3] = c.size
  <2>1. 1 \in 1 .. 2 + m /\ 2 \in 1 .. 2 + m /\ 1 + 1 = 2 /\ 2 + 1 = 3
    BY <1>2
  <2> QED
    BY <1>3, <1>5, <2>1
<1>7. (f[3] + 1) \div 2 = m
  <2>1. \A k \in Nat : (2 * k + 1) \div 2 = k
    OBVIOUS
  <2> QED
    BY <1>1, <1>2, <1>6, <2>1
<1> HIDE DEF m
<1>8. SubSeq(f, 2, 3 + m) = body
  <2>1. 3 + m \in Nat /\ 1 <= 3 + m /\ 3 + m <= Len(f) /\ (3 + m) - 1 = 2 + m
    BY <1>2, <1>5
  <2>2. /\ SubSeq(f, 2, 3 + m) \in Seq(Word) /\ Len(SubSeq(f, 2, 3 + m)) = 2 + m
        /\ \A i \in 1 .. 2 + m : SubSeq(f, 2, 3 + m)[i] = f[i + 1]
    BY <1>5, <2>1, TailOf
  <2>3. \A i \in 1 .. 2 + m : SubSeq(f, 2, 3 + m)[i] = body[i]
    BY <1>5, <2>2
  <2> QED
    BY <1>3, <2>2, <2>3, SeqEqual
<1>9. IsFrame(f)
  <2>1. Len(f) - 1 = 3 + m /\ Len(f) >= 4 /\ f[3] <= MaxPayload
    BY <1>2, <1>5, <1>6, MaxPayloadAssumption
  <2> QED
    BY <1>5, <1>7, <1>8, <2>1 DEF IsFrame
<1>10. ASSUME NEW r \in Frame, Carries(f, r) PROVE r = c
  <2>1. r.id = c.id /\ r.size = c.size /\ r.words = SubSeq(f, 4, Len(f) - 1)
    BY <1>1, <1>6, <1>10 DEF Carries
  <2>2. SubSeq(f, 4, Len(f) - 1) = c.words
    <3> DEFINE k == 3 + m
               u == SubSeq(f, 4, k)
    <3>1. Len(f) - 1 = k /\ 4 \in Int /\ k \in Int
      BY <1>2, <1>5
    <3>2. \A i \in 4 .. k : f[i] \in Word
      BY <1>2, <1>5, ElementOfSeq
    <3> HIDE DEF k
    <3>3. /\ u \in Seq(Word) /\ Len(u) = IF 4 <= k THEN k - 4 + 1 ELSE 0
          /\ \A i \in 1 .. k - 4 + 1 : u[i] = f[4 + i - 1]
      BY <3>1, <3>2, SubSeqProperties
    <3> HIDE DEF u
    <3>4. Len(u) = m /\ \A i \in 1 .. m : u[i] = f[i + 3]
      <4>1. k - 4 + 1 = m /\ \A i \in 1 .. m : 4 + i - 1 = i + 3
        BY <1>2 DEF k
      <4>2. (IF 4 <= k THEN k - 4 + 1 ELSE 0) = m
        BY <1>2 DEF k
      <4> QED
        BY <1>2, <3>3, <4>1, <4>2
    <3>5. ASSUME NEW i \in 1 .. m PROVE u[i] = c.words[i]
      <4>1. i + 2 \in 1 .. 2 + m /\ (i + 2) + 1 = i + 3
        BY <1>2
      <4> QED
        BY <1>3, <1>5, <3>4, <4>1
    <3> QED
      BY <1>2, <3>1, <3>3, <3>4, <3>5, SeqEqual DEF u, m
  <2>3. \A a, b \in Frame : a.id = b.id /\ a.size = b.size /\ a.words = b.words => a = b
    BY DEF Frame
  <2> QED
    BY <1>1, <2>1, <2>2, <2>3
<1>11. Len(f) \in Nat /\ Len(f) >= 4
  BY <1>2, <1>5
<1> QED
  BY <1>1, <1>5, <1>9, <1>10, <1>11 DEF f
Sent(n) == SubSeq(FrameOf(current), 1, n)

(* After n words of the frame being sent the parser has read just these, or *)
(* it waits for a header because time has passed since the frame's.        *)
Progress(n) ==
  /\ toSend = SubSeq(FrameOf(current), n + 1, Len(FrameOf(current)))
  /\ IF InFrame THEN n > 0 /\ FrameSoFar(Sent(n)) ELSE n > 0 => broken

SenderInv ==
  /\ st \in {"idle", "sending", "waiting"} /\ current \in Commands
  /\ st # "sending" => ~InFrame
  /\ st = "sending" => \E n \in 0 .. Len(FrameOf(current)) - 1 : Progress(n)

LinkInv == ParserInv /\ SenderInv

LEMMA LinkInitInv == Init => LinkInv
<1> SUFFICES ASSUME Init PROVE LinkInv
  OBVIOUS
<1>1. ParserInv
  BY ParserInitInv DEF Init
<1>2. ~InFrame
  BY DEF Init, ParserInit, InFrame
<1> QED
  BY <1>1, <1>2 DEF Init, LinkInv, SenderInv

(* What is left to send after n words: the next one, and those behind it.  *)
LEMMA LeftToSend ==
  ASSUME NEW f \in Seq(Word), NEW n \in 0 .. Len(f) - 1
  PROVE  LET t == SubSeq(f, n + 1, Len(f)) IN
         /\ Head(t) = f[n + 1] /\ Tail(t) = SubSeq(f, n + 2, Len(f))
         /\ Len(t) = Len(f) - n
<1> DEFINE t == SubSeq(f, n + 1, Len(f))
           L == Len(f)
<1>1. n \in Nat /\ L \in Nat /\ n + 1 \in 1 .. Len(f) /\ L \in n + 1 .. Len(f) /\ (n + 1) + 1 = n + 2
  OBVIOUS
<1>2. Head(t) = f[n + 1] /\ Tail(t) = SubSeq(f, (n + 1) + 1, Len(f))
  BY <1>1, HeadTailOfSubSeq
<1>3. Len(t) = Len(f) - n
  <2> DEFINE k == n + 1
  <2>1. k \in Int /\ L \in Int /\ \A i \in k .. L : f[i] \in Word
    BY <1>1, ElementOfSeq
  <2>2. k <= L /\ L - k + 1 = L - n
    BY <1>1
  <2> HIDE DEF k, L
  <2>3. Len(SubSeq(f, k, L)) = IF k <= L THEN L - k + 1 ELSE 0
    BY <2>1, SubSeqProperties
  <2>4. Len(SubSeq(f, k, L)) = L - n
    BY <2>2, <2>3
  <2> QED
    BY <2>4 DEF k, L
<1> QED
  BY <1>1, <1>2, <1>3

(* What a word of the frame does to the sender and to the buffer.          *)
LEMMA WordSent ==
  ASSUME LinkInv, SendWord
  PROVE  /\ LinkInv'
         /\ st' = "sending" => buffer' = buffer
         /\ st' = "waiting" => buffer' = <<current>> \/ (broken /\ buffer' = buffer)
<1> DEFINE L == Len(FrameOf(current))
<1>1. st = "sending" /\ current \in Commands /\ ParserInv
  BY DEF LinkInv, SenderInv, SendWord
<1>2. PICK n \in 0 .. L - 1 : Progress(n)
  BY <1>1 DEF LinkInv, SenderInv
<1>3. PICK f : f = FrameOf(current)
  OBVIOUS
<1>4. /\ f \in Seq(Word) /\ Len(f) \in Nat /\ Len(f) >= 4 /\ IsFrame(f)
      /\ \A r \in Frame : Carries(f, r) => r = current
      /\ \A i \in 2 .. Len(f) : f[i] # Header
  BY <1>1, <1>3, CommandIsFrame
<1>5. n \in 0 .. Len(f) - 1 /\ n \in Nat /\ Progress(n)
  BY <1>2, <1>3, <1>4
<1>6. PICK w : w = SubSeq(f, 1, n)
  OBVIOUS
<1>7. PICK d : d = f[n + 1]
  OBVIOUS
<1>8. /\ w \in Seq(Word) /\ Len(w) = n
      /\ SubSeq(f, 1, n + 1) = Append(w, d) /\ d \in Word
  BY <1>4, <1>5, <1>6, <1>7, PrefixGrows
<1>9. /\ Head(toSend) = d /\ Tail(toSend) = SubSeq(f, n + 2, Len(f))
      /\ Len(toSend) = Len(f) - n
  <2>1. toSend = SubSeq(f, n + 1, Len(f))
    BY <1>3, <1>5 DEF Progress
  <2> QED
    BY <1>4, <1>5, <1>7, <2>1, LeftToSend
<1>10. /\ Parse(d) /\ buffer' = (IF out' # <<>> THEN out' ELSE buffer)
       /\ toSend' = SubSeq(f, n + 2, Len(f))
       /\ st' = (IF Len(f) - n = 1 THEN "waiting" ELSE "sending")
       /\ current' = current /\ broken' = broken
  BY <1>9 DEF SendWord, Latch
<1>11. ParserInv'
  BY <1>1, <1>8, <1>10, ParseInv
<1>12. FrameOf(current)' = f
  BY <1>3, <1>10 DEF FrameOf
<1>13. IF InFrame THEN n > 0 /\ FrameSoFar(w) ELSE n > 0 => broken
  BY <1>3, <1>5, <1>6 DEF Progress, Sent
<1>14. CASE n = 0
  <2>1. ~InFrame /\ d = Header
    BY <1>4, <1>7, <1>13, <1>14 DEF IsFrame
  <2>2. out' = <<>> /\ InFrame' /\ FrameSoFar(<<d>>)'
    BY <1>1, <1>8, <1>10, <2>1, HeaderOpens
  <2>3. st' = "sending" /\ buffer' = buffer /\ n + 1 \in 0 .. Len(f) - 1
    BY <1>4, <1>10, <1>14, <2>2
  <2>4. SubSeq(f, 1, 1) = <<d>>
    <3>1. w = <<>> /\ SubSeq(f, 1, 1) = Append(w, d)
      BY <1>8, <1>14
    <3> QED
      BY <3>1
  <2>5. Progress(1)'
    <3>1. FrameSoFar(SubSeq(f, 1, 1))'
      BY <2>2, <2>4
    <3>2. toSend' = SubSeq(f, 1 + 1, Len(f))
      BY <1>10, <1>14
    <3>3. Sent(1)' = SubSeq(f, 1, 1)
      BY <1>12 DEF Sent
    <3>4. FrameSoFar(Sent(1))'
      BY <3>1, <3>3 DEF FrameSoFar
    <3> QED
      BY <1>12, <2>2, <3>2, <3>4 DEF Progress
  <2>6. SenderInv'
    <3>1. 1 \in 0 .. Len(f) - 1
      BY <1>4
    <3> QED
      BY <1>1, <1>10, <1>12, <2>3, <2>5, <3>1 DEF SenderInv
  <2> QED
    BY <1>11, <2>3, <2>6 DEF LinkInv
<1>15. CASE n > 0 /\ ~InFrame
  <2>1. broken /\ d # Header
    <3>1. n + 1 \in 2 .. Len(f)
      BY <1>4, <1>5, <1>15
    <3> QED
      BY <1>4, <1>7, <1>13, <1>15, <3>1
  <2>2. out' = <<>> /\ nextTPstep' = "HEADER_DETECTION"
    BY <1>1, <1>8, <1>10, <1>15, <2>1, HeaderOpens
  <2>3. ~InFrame' /\ buffer' = buffer /\ broken'
    BY <1>10, <2>1, <2>2 DEF InFrame
  <2>4. st' = "sending" => n + 1 \in 0 .. Len(f) - 1 /\ Progress(n + 1)'
    <3> SUFFICES ASSUME st' = "sending" PROVE n + 1 \in 0 .. Len(f) - 1 /\ Progress(n + 1)'
      OBVIOUS
    <3>1. Len(f) - n # 1
      BY <1>10
    <3>2. n + 1 \in 0 .. Len(f) - 1 /\ (n + 1) + 1 = n + 2
      BY <1>4, <1>5, <3>1
    <3> QED
      BY <1>10, <1>12, <2>3, <3>2 DEF Progress
  <2>5. SenderInv'
    BY <1>1, <1>10, <1>12, <2>3, <2>4 DEF SenderInv
  <2> QED
    BY <1>11, <2>1, <2>3, <2>5 DEF LinkInv
<1>16. CASE n > 0 /\ InFrame
  <2>1. FrameSoFar(w)
    BY <1>13, <1>16
  <2>2. PICK v : v = Append(w, d)
    OBVIOUS
  <2>3. /\ InFrame' => FrameSoFar(v)' /\ out' = <<>>
        /\ ~InFrame' => ~Opens(v)
        /\ IF IsFrame(v) THEN Len(out') = 1 /\ Carries(v, out'[1]) ELSE out' = <<>>
    BY <1>1, <1>8, <1>10, <1>16, <2>1, <2>2, ParseFollows
  <2>4. CASE Len(f) - n = 1
    <3>1. v = f
      <4>1. n + 1 = Len(f)
        BY <1>4, <1>5, <2>4
      <4> QED
        BY <1>4, <1>8, <2>2, <4>1, SubSeqFull
    <3>2. Len(out') = 1 /\ Carries(f, out'[1])
      BY <1>4, <2>3, <3>1
    <3>3. out' \in Seq(Frame)
      BY <1>11 DEF ParserInv, TypeOK
    <3>4. out'[1] = current
      <4>1. out'[1] \in Frame
        <5>1. 1 \in 1 .. Len(out')
          BY <3>2
        <5> QED
          BY <3>3, <5>1, ElementOfSeq
      <4> QED
        BY <1>4, <3>2, <4>1
    <3>5. out' = <<current>> /\ out' # <<>>
      <4>1. PICK o : o = out'
        OBVIOUS
      <4>2. o \in Seq(Frame) /\ Len(o) = 1 /\ o[1] = current
        BY <3>2, <3>3, <3>4, <4>1
      <4>3. o = <<o[1]>>
        BY <4>2
      <4>4. o = <<current>>
        BY <4>2, <4>3
      <4>5. o # <<>>
        <5>1. Len(<<>>) = 0
          BY EmptySeq
        <5>2. Len(o) # Len(<<>>)
          BY <4>2, <5>1
        <5> QED
          BY <5>2, Zenon
      <4> QED
        BY <4>1, <4>4, <4>5
    <3>6. st' = "waiting" /\ buffer' = <<current>>
      BY <1>10, <2>4, <3>5
    <3>7. ~InFrame'
      BY <2>3, <3>5
    <3>8. SenderInv'
      BY <1>1, <1>10, <3>6, <3>7 DEF SenderInv
    <3> QED
      BY <1>11, <3>6, <3>8 DEF LinkInv
  <2>5. CASE Len(f) - n # 1
    <3>1. n + 1 \in 1 .. Len(f) - 1 /\ n + 1 \in 0 .. Len(f) - 1 /\ (n + 1) + 1 = n + 2 /\ n + 1 > 0
      BY <1>4, <1>5, <2>5
    <3>2. v = SubSeq(f, 1, n + 1)
      BY <1>8, <2>2
    <3>3. Opens(v)
      BY <1>4, <3>1, <3>2, FrameOpens
    <3>4. InFrame' /\ FrameSoFar(v)' /\ out' = <<>>
      BY <2>3, <3>3
    <3>5. Sent(n + 1)' = v
      BY <1>12, <3>2 DEF Sent
    <3>6. FrameSoFar(Sent(n + 1))'
      BY <3>4, <3>5 DEF FrameSoFar
    <3>7. Progress(n + 1)'
      BY <1>10, <1>12, <3>1, <3>4, <3>6 DEF Progress
    <3>8. st' = "sending" /\ buffer' = buffer
      BY <1>10, <2>5, <3>4
    <3>9. SenderInv'
      BY <1>1, <1>10, <1>12, <3>1, <3>7, <3>8 DEF SenderInv
    <3> QED
      BY <1>11, <3>8, <3>9 DEF LinkInv
  <2> QED
    BY <2>4, <2>5
<1>17. n = 0 \/ n > 0
  BY <1>5
<1> QED
  BY <1>14, <1>15, <1>16, <1>17

LEMMA LinkNextInv == LinkInv /\ [Next]_vars => LinkInv'
<1> SUFFICES ASSUME LinkInv, [Next]_vars PROVE LinkInv'
  OBVIOUS
<1>0. ParserInv /\ SenderInv
  BY DEF LinkInv
<1>1. ASSUME UNCHANGED parserVars PROVE ParserInv' /\ (InFrame' <=> InFrame)
  BY <1>0, <1>1 DEF ParserInv, TypeOK, ReadInv, parserVars, InFrame
<1>2. ASSUME Pause PROVE ParserInv' /\ ~InFrame'
  BY <1>0, <1>2, PauseInv DEF Pause, InFrame
<1>3. ASSUME UNCHANGED <<parserVars, st, current, toSend, broken>> PROVE LinkInv'
  <2>1. \A n : Progress(n)' <=> Progress(n)
    BY <1>3 DEF Progress, Sent, FrameSoFar, Position, InFrame, parserVars, FrameOf
  <2>2. Len(FrameOf(current))' = Len(FrameOf(current))
    BY <1>3 DEF FrameOf
  <2>3. SenderInv'
    BY <1>0, <1>1, <1>3, <2>1, <2>2 DEF SenderInv
  <2> QED
    BY <1>1, <1>3, <2>3 DEF LinkInv
<1>4. ASSUME NEW c \in Commands, Send(c) PROVE LinkInv'
  <2>1. /\ UNCHANGED parserVars /\ st = "idle" /\ st' = "sending" /\ current' = c
        /\ toSend' = FrameOf(c)
    BY <1>4 DEF Send
  <2>2. ~InFrame'
    BY <1>0, <1>1, <2>1 DEF SenderInv
  <2>3. FrameOf(current)' = FrameOf(c)
    BY <2>1 DEF FrameOf
  <2>4. FrameOf(c) = SubSeq(FrameOf(c), 0 + 1, Len(FrameOf(c))) /\ 0 \in 0 .. Len(FrameOf(c)) - 1
    BY CommandIsFrame, SubSeqFull
  <2>5. Progress(0)'
    BY <2>1, <2>2, <2>3, <2>4 DEF Progress
  <2>6. SenderInv'
    BY <2>1, <2>3, <2>4, <2>5 DEF SenderInv
  <2> QED
    BY <1>1, <2>1, <2>6 DEF LinkInv
<1>5. CASE SendWord
  BY <1>5, WordSent
<1>6. CASE TimePasses
  <2>1. ~InFrame' /\ ParserInv' /\ UNCHANGED <<st, current, toSend>>
        /\ broken' = (broken \/ (st = "sending" /\ Len(toSend) < Len(FrameOf(current))))
    BY <1>2, <1>6 DEF TimePasses
  <2>2. FrameOf(current)' = FrameOf(current)
    BY <2>1 DEF FrameOf
  <2>3. ASSUME st = "sending", NEW n \in 0 .. Len(FrameOf(current)) - 1, Progress(n)
        PROVE  Progress(n)'
    <3>1. PICK f : f = FrameOf(current)
      OBVIOUS
    <3>2. f \in Seq(Word) /\ Len(f) \in Nat /\ n \in 0 .. Len(f) - 1
      BY <1>0, <3>1, CommandIsFrame DEF SenderInv
    <3>3. toSend = SubSeq(f, n + 1, Len(f))
      BY <2>3, <3>1 DEF Progress
    <3>4. Len(toSend) = Len(f) - n
      BY <3>2, <3>3, LeftToSend
    <3>5. n > 0 => Len(toSend) < Len(f)
      BY <3>2, <3>4
    <3>6. n > 0 => broken'
      BY <2>1, <2>3, <3>1, <3>5
    <3> QED
      BY <2>1, <2>2, <3>1, <3>3, <3>6 DEF Progress
  <2>4. SenderInv'
    BY <1>0, <2>1, <2>2, <2>3 DEF SenderInv
  <2> QED
    BY <2>1, <2>4 DEF LinkInv
<1>7. CASE EndWait
  BY <1>0, <1>1, <1>7 DEF EndWait, LinkInv, SenderInv
<1>8. CASE ResetSt
  <2>1. ParserInv' /\ ~InFrame'
    <3>1. CASE stale
      BY <1>1, <1>8, <3>1 DEF ResetSt, InFrame
    <3>2. CASE ~stale
      BY <1>2, <1>8, <3>2 DEF ResetSt
    <3> QED
      BY <3>1, <3>2
  <2> QED
    BY <1>0, <1>8, <2>1 DEF ResetSt, LinkInv, SenderInv
<1>9. CASE Consume
  BY <1>3, <1>9 DEF Consume, senderVars
<1>10. CASE UNCHANGED vars
  BY <1>3, <1>10 DEF vars, senderVars
<1> QED
  BY <1>4, <1>5, <1>6, <1>7, <1>8, <1>9, <1>10 DEF Next

(* The sender and the parser agree on the words of the frame that have     *)
(* been read, or time has passed since its header.                         *)
THEOREM LinkInvariant == Spec => []LinkInv
BY LinkInitInv, LinkNextInv, PTL DEF Spec

(* The command buffer receives the command being sent, whole and once, or  *)
(* loses it: the link of bus, parser and buffer implements LossyLink.      *)
THEOREM LinkIsLossyLink == Spec => ImplementsLossyLink
<1>1. Init => Abstract!LinkInit
  BY DEF Init, Abstract!LinkInit
<1>2. LinkInv /\ [Next]_vars => [Abstract!LinkNext]_(Abstract!linkVars)
  <2> SUFFICES ASSUME LinkInv, [Next]_vars
               PROVE  [Abstract!LinkNext]_(Abstract!linkVars)
    OBVIOUS
  <2> DEFINE u == IF st = "sending" THEN <<current>> ELSE <<>>
  <2> USE DEF Abstract!LinkNext, Abstract!linkVars
  <2>0. ASSUME u' = u, buffer' = buffer PROVE UNCHANGED Abstract!linkVars
    BY <2>0
  <2>1. ASSUME NEW c \in Commands, Send(c) PROVE Abstract!Offer(c)
    BY <2>1 DEF Send, Abstract!Offer
  <2>2. CASE SendWord
    <3>1. /\ st' = "sending" => buffer' = buffer
          /\ st' = "waiting" => buffer' = <<current>> \/ buffer' = buffer
      BY <2>2, WordSent
    <3>2. st = "sending" /\ current' = current /\ st' \in {"sending", "waiting"}
      BY <2>2 DEF SendWord
    <3>3. CASE st' = "sending"
      BY <2>0, <3>1, <3>2, <3>3
    <3>4. CASE st' = "waiting"
      BY <3>1, <3>2, <3>4 DEF Abstract!Land, Abstract!Lose
    <3> QED
      BY <3>2, <3>3, <3>4
  <2>3. CASE TimePasses
    BY <2>0, <2>3 DEF TimePasses
  <2>4. CASE EndWait
    BY <2>0, <2>4 DEF EndWait
  <2>5. CASE ResetSt
    <3>1. CASE st = "sending"
      BY <2>5, <3>1 DEF ResetSt, Abstract!Lose
    <3>2. CASE st # "sending"
      BY <2>0, <2>5, <3>2 DEF ResetSt
    <3> QED
      BY <3>1, <3>2
  <2>6. CASE Consume
    BY <2>6 DEF Consume, senderVars, Abstract!Take
  <2>7. CASE UNCHANGED vars
    BY <2>0, <2>7 DEF vars, senderVars
  <2> QED
    BY <2>1, <2>2, <2>3, <2>4, <2>5, <2>6, <2>7 DEF Next
<1> QED
  BY LinkInvariant, <1>1, <1>2, PTL DEF Spec, ImplementsLossyLink, Abstract!LinkSpec

(* A frame through which the restart time did not pass is never lost,      *)
(* whatever became of the frames before it.                                *)
THEOREM FrameNeverLost == Spec => FrameArrives
<1>1. LinkInv /\ [Next]_vars =>
        [st = "sending" /\ st' = "waiting" /\ ~broken => buffer' = <<current>>]_vars
  <2> SUFFICES ASSUME LinkInv, [Next]_vars, st = "sending", st' = "waiting", ~broken
               PROVE  buffer' = <<current>>
    OBVIOUS
  <2>1. SendWord
    BY DEF Next, Send, SendWord, TimePasses, EndWait, ResetSt, Consume, senderVars, vars
  <2> QED
    BY <2>1, WordSent
<1> QED
  BY LinkInvariant, <1>1, PTL DEF Spec, FrameArrives
(***************************************************************************)
(* The words heard                                                         *)
(***************************************************************************)

(* The parser has read the last of the words heard, up to where its frame  *)
(* is; and when all words are remembered and begin a frame, it has read    *)
(* every one of them.                                                      *)
HeardInv ==
  /\ heard \in Seq(Word) /\ Len(heard) <= Window
  /\ gap => stale
  /\ out # <<>> => stale
  /\ InFrame => Position <= Len(heard) /\ FrameSoFar(Heard(Position))
  /\ whole /\ ~gap /\ out = <<>> /\ Opens(heard) => InFrame /\ Position = Len(heard)

BusInv == ParserInv /\ HeardInv /\ DeliveredWasHeard /\ FrameIsDelivered

(* The last n words of a sequence.                                         *)
LastOf(h, n) == SubSeq(h, Len(h) - n + 1, Len(h))

LEMMA LastWords ==
  ASSUME NEW h \in Seq(Word), NEW n \in 0 .. Len(h)
  PROVE  /\ LastOf(h, n) \in Seq(Word) /\ Len(LastOf(h, n)) = n
         /\ \A i \in 1 .. n : LastOf(h, n)[i] = h[(Len(h) - n) + i]
<1> DEFINE L == Len(h)
           k == L - n + 1
           u == SubSeq(h, k, L)
<1>1. n \in Nat /\ L \in Nat /\ n <= L
  OBVIOUS
<1>2. k \in Int /\ L \in Int /\ \A i \in k .. L : h[i] \in Word
  BY <1>1, ElementOfSeq
<1>3. L - k + 1 = n /\ k <= L + 1 /\ \A i \in 1 .. n : k + i - 1 = (L - n) + i
  BY <1>1
<1>4. (IF k <= L THEN L - k + 1 ELSE 0) = n
  BY <1>1
<1> HIDE DEF k, L
<1>5. /\ u \in Seq(Word) /\ Len(u) = IF k <= L THEN L - k + 1 ELSE 0
      /\ \A i \in 1 .. L - k + 1 : u[i] = h[k + i - 1]
  BY <1>2, SubSeqProperties
<1>6. u \in Seq(Word) /\ Len(u) = n /\ \A i \in 1 .. n : u[i] = h[(L - n) + i]
  BY <1>3, <1>4, <1>5
<1> QED
  BY <1>6 DEF LastOf, k, L

LEMMA LastOfAll ==
  ASSUME NEW h \in Seq(Word)
  PROVE  LastOf(h, Len(h)) = h
<1>1. Len(h) - Len(h) + 1 = 1
  OBVIOUS
<1> QED
  BY <1>1, SubSeqFull DEF LastOf

LEMMA LastOfMore ==
  ASSUME NEW h \in Seq(Word), NEW n \in 0 .. Len(h), NEW d \in Word
  PROVE  LastOf(Append(h, d), n + 1) = Append(LastOf(h, n), d)
<1> DEFINE a == Append(h, d)
           u == LastOf(h, n)
           v == LastOf(a, n + 1)
           b == Append(u, d)
           L == Len(h)
<1>1. n \in Nat /\ L \in Nat /\ n <= L
  OBVIOUS
<1>2. a \in Seq(Word) /\ Len(a) = L + 1 /\ a[L + 1] = d /\ \A i \in 1 .. L : a[i] = h[i]
  BY AppendProperties
<1>3. u \in Seq(Word) /\ Len(u) = n /\ \A i \in 1 .. n : u[i] = h[(L - n) + i]
  BY LastWords
<1> HIDE DEF a, u, L
<1>4. v \in Seq(Word) /\ Len(v) = n + 1 /\ \A i \in 1 .. n + 1 : v[i] = a[(L + 1 - (n + 1)) + i]
  <2>1. n + 1 \in 0 .. Len(a)
    BY <1>1, <1>2
  <2>2. /\ v \in Seq(Word) /\ Len(v) = n + 1
        /\ \A i \in 1 .. n + 1 : v[i] = a[(Len(a) - (n + 1)) + i]
    BY <1>2, <2>1, LastWords, Zenon
  <2>3. Len(a) - (n + 1) = L + 1 - (n + 1)
    BY <1>1, <1>2
  <2> QED
    BY <2>2, <2>3
<1>5. /\ b \in Seq(Word) /\ Len(b) = n + 1 /\ b[n + 1] = d
      /\ \A i \in 1 .. n : b[i] = u[i]
  BY <1>3, AppendProperties
<1> HIDE DEF v, b
<1>6. ASSUME NEW i \in 1 .. n + 1 PROVE v[i] = b[i]
  <2>1. (L + 1 - (n + 1)) + i = (L - n) + i
    BY <1>1
  <2>2. CASE i = n + 1
    <3>1. (L - n) + i = L + 1
      BY <1>1, <2>2
    <3> QED
      BY <1>2, <1>4, <1>5, <2>1, <2>2, <3>1
  <2>3. CASE i # n + 1
    <3>1. i \in 1 .. n /\ (L - n) + i \in 1 .. L
      BY <1>1, <2>3
    <3> QED
      BY <1>2, <1>3, <1>4, <1>5, <2>1, <3>1
  <2> QED
    BY <2>2, <2>3
<1>7. v = b
  BY <1>4, <1>5, <1>6, SeqEqual
<1> QED
  BY <1>7 DEF v, b, u, a

LEMMA LastOfTail ==
  ASSUME NEW h \in Seq(Word), NEW n \in 0 .. Len(h), n < Len(h)
  PROVE  /\ Tail(h) \in Seq(Word) /\ Len(Tail(h)) = Len(h) - 1
         /\ LastOf(Tail(h), n) = LastOf(h, n)
<1> DEFINE t == Tail(h)
           L == Len(h)
           u == LastOf(h, n)
           v == LastOf(t, n)
<1>1. n \in Nat /\ L \in Nat /\ n < L
  OBVIOUS
<1>2. t \in Seq(Word) /\ Len(t) = L - 1 /\ \A i \in 1 .. L - 1 : t[i] = h[i + 1]
  <2>1. h # <<>>
    BY <1>1, EmptySeq
  <2> QED
    BY <2>1, HeadTailProperties
<1>3. u \in Seq(Word) /\ Len(u) = n /\ \A i \in 1 .. n : u[i] = h[(L - n) + i]
  BY LastWords
<1> HIDE DEF t, u, L
<1>4. v \in Seq(Word) /\ Len(v) = n /\ \A i \in 1 .. n : v[i] = t[((L - 1) - n) + i]
  <2>1. n \in 0 .. Len(t)
    BY <1>1, <1>2
  <2>2. v \in Seq(Word) /\ Len(v) = n /\ \A i \in 1 .. n : v[i] = t[(Len(t) - n) + i]
    BY <1>2, <2>1, LastWords, Zenon
  <2> QED
    BY <1>2, <2>2
<1> HIDE DEF v
<1>5. ASSUME NEW i \in 1 .. n PROVE v[i] = u[i]
  <2>1. ((L - 1) - n) + i \in 1 .. L - 1 /\ (((L - 1) - n) + i) + 1 = (L - n) + i
    BY <1>1
  <2> QED
    BY <1>2, <1>3, <1>4, <2>1
<1>6. v = u
  BY <1>3, <1>4, <1>5, SeqEqual
<1> QED
  BY <1>2, <1>6 DEF v, u, t, L

(* A frame fits the memory, in the middle of it as well.                   *)
LEMMA PositionFits ==
  ASSUME TypeOK
  PROVE  Position \in Nat /\ Position >= 1 /\ Position + 1 <= Window
<1>1. bytesRead \in Nat /\ bytesRead <= MaxPayload /\ MaxPayload \in Nat
  BY MaxPayloadAssumption DEF TypeOK
<1>2. \A a, b \in Nat : a <= b => a \div 2 \in Nat /\ b \div 2 \in Nat /\ a \div 2 <= b \div 2
  OBVIOUS
<1>3. bytesRead \div 2 \in Nat /\ MaxPayload \div 2 \in Nat /\ bytesRead \div 2 <= MaxPayload \div 2
  BY <1>1, <1>2
<1> QED
  BY <1>3 DEF Position, Window

(* What begins a frame began one a word earlier, and a frame does without  *)
(* its last word.                                                          *)
LEMMA OpensEarlier ==
  ASSUME NEW w \in Seq(Word), Len(w) >= 1, NEW d \in Word,
         Opens(Append(w, d)) \/ IsFrame(Append(w, d))
  PROVE  Opens(w)
<1> DEFINE v == Append(w, d)
           n == Len(w)
<1>1. /\ v \in Seq(Word) /\ Len(v) = n + 1 /\ n \in Nat /\ n >= 1
      /\ \A i \in 1 .. n : v[i] = w[i]
  BY OneMoreWord
<1>2. CASE Opens(v)
  <2> HIDE DEF v
  <2>1. w[1] = Header
    BY <1>1, <1>2 DEF Opens
  <2>2. ASSUME n >= 3 PROVE w[3] <= MaxPayload /\ n <= 3 + (w[3] + 1) \div 2
    <3>1. v[3] = w[3] /\ n + 1 <= 3 + (v[3] + 1) \div 2 /\ v[3] <= MaxPayload /\ v[3] \in Word
      <4>1. n + 1 >= 3 /\ 3 \in 1 .. n /\ 3 \in 1 .. Len(v)
        BY <1>1, <2>2
      <4> QED
        BY <1>1, <1>2, <4>1, ElementOfSeq DEF Opens
    <3>2. (v[3] + 1) \div 2 \in Nat
      BY <3>1, WordModAssumption DEF Word
    <3> QED
      BY <1>1, <3>1, <3>2
  <2> QED
    BY <1>1, <2>1, <2>2 DEF Opens
<1>3. CASE IsFrame(v)
  <2>1. SubSeq(v, 1, n) = w
    <3>1. n \in 0 .. Len(v) - 1
      BY <1>1
    <3> HIDE DEF v
    <3>2. /\ SubSeq(v, 1, n) \in Seq(Word) /\ Len(SubSeq(v, 1, n)) = n
          /\ \A i \in 1 .. n : SubSeq(v, 1, n)[i] = v[i]
      BY <1>1, <3>1, PrefixGrows
    <3> QED
      BY <1>1, <3>2, SeqEqual
  <2>2. n \in 1 .. Len(v) - 1
    BY <1>1
  <2> HIDE DEF v
  <2>3. Opens(SubSeq(v, 1, n))
    BY <1>1, <1>3, <2>2, FrameOpens
  <2> QED
    BY <2>1, <2>3
<1> QED
  BY <1>2, <1>3

LEMMA BusInitInv == BusInit => BusInv
<1> SUFFICES ASSUME BusInit PROVE BusInv
  OBVIOUS
<1>1. ParserInv /\ ~InFrame /\ heard = <<>> /\ gap /\ stale /\ out = <<>>
  BY ParserInitInv DEF BusInit, ParserInit, InFrame
<1>2. <<>> \in Seq(Word) /\ Len(<<>>) = 0 /\ 0 <= Window
  BY EmptySeq, MaxPayloadAssumption DEF Window
<1>3. HeardInv
  BY <1>1, <1>2 DEF HeardInv
<1>4. ~IsFrame(heard)
  BY <1>1, <1>2 DEF IsFrame
<1> QED
  BY <1>1, <1>3, <1>4 DEF BusInv, DeliveredWasHeard, FrameIsDelivered

LEMMA BusPauseInv ==
  ASSUME BusInv, BusPause
  PROVE  BusInv'
<1>1. /\ ParserInv /\ HeardInv /\ DeliveredWasHeard /\ FrameIsDelivered
      /\ gap' = TRUE /\ heard' = heard /\ whole' = whole
  BY DEF BusInv, BusPause
<1>2. CASE stale
  <2>1. UNCHANGED parserVars
    BY <1>2 DEF BusPause
  <2>2. ParserInv' /\ ~InFrame' /\ stale' /\ out' = out
    BY <1>1, <1>2, <2>1 DEF ParserInv, TypeOK, ReadInv, parserVars, InFrame
  <2>3. HeardInv'
    BY <1>1, <2>2 DEF HeardInv, Window
  <2>4. DeliveredWasHeard' /\ FrameIsDelivered'
    BY <1>1, <2>2 DEF DeliveredWasHeard, FrameIsDelivered, Heard, IsFrame, Carries
  <2> QED
    BY <2>2, <2>3, <2>4 DEF BusInv
<1>3. CASE ~stale
  <2>1. Pause /\ out = <<>>
    BY <1>1, <1>3 DEF BusPause, HeardInv
  <2>2. ParserInv' /\ ~InFrame' /\ stale' /\ out' = <<>>
    BY <1>1, <2>1, PauseInv DEF Pause, InFrame
  <2>3. HeardInv'
    BY <1>1, <2>2 DEF HeardInv, Window
  <2>4. DeliveredWasHeard' /\ FrameIsDelivered'
    BY <1>1, <2>1, <2>2 DEF DeliveredWasHeard, FrameIsDelivered, IsFrame
  <2> QED
    BY <2>2, <2>3, <2>4 DEF BusInv
<1> QED
  BY <1>2, <1>3

LEMMA BusWordInv ==
  ASSUME BusInv, NEW data \in Word, BusWord(data)
  PROVE  BusInv'
<1> DEFINE before == IF gap \/ out # <<>> THEN <<>> ELSE heard
           all == Append(before, data)
<1>1. /\ ParserInv /\ HeardInv /\ Parse(data) /\ gap' = FALSE
      /\ heard' = (IF Len(all) > Window THEN Tail(all) ELSE all)
      /\ whole' = (before = <<>> \/ (whole /\ Len(all) <= Window))
  BY DEF BusInv, BusWord
<1>2. Window \in Nat /\ Window >= 4 /\ ParserInv'
  <2>1. MaxPayload \div 2 \in Nat
    BY MaxPayloadAssumption
  <2> QED
    BY <1>1, <2>1, ParseInv DEF Window
<1>3. PICK h : h = before
  OBVIOUS
<1>4. PICK a : a = Append(h, data)
  OBVIOUS
<1>5. h \in Seq(Word) /\ Len(h) \in Nat /\ Len(h) <= Window
  <2>1. <<>> \in Seq(Word) /\ Len(<<>>) = 0 /\ heard \in Seq(Word) /\ Len(heard) <= Window
    BY <1>1, EmptySeq DEF HeardInv
  <2> QED
    BY <1>2, <1>3, <2>1, LenProperties
<1>6. a \in Seq(Word) /\ Len(a) = Len(h) + 1
  BY <1>4, <1>5, AppendProperties
<1>7. /\ heard' = (IF Len(a) > Window THEN Tail(a) ELSE a)
      /\ whole' = (h = <<>> \/ (whole /\ Len(a) <= Window))
  BY <1>1, <1>3, <1>4
<1>kept. whole' /\ h # <<>> => whole /\ Len(a) <= Window /\ heard' = a
  <2>1. whole' /\ h # <<>> => whole /\ Len(a) <= Window
    BY <1>7, Zenon
  <2>2. Len(a) <= Window => ~(Len(a) > Window)
    BY <1>2, <1>5, <1>6
  <2> QED
    BY <1>7, <2>1, <2>2, Zenon
<1>8. InFrame => h = heard /\ ~gap /\ out = <<>>
  BY <1>1, <1>3 DEF HeardInv, InFrame
<1> HIDE DEF before, all
(* The words of heard' from the last back to the window's end are those of a. *)
<1>9. /\ heard' \in Seq(Word) /\ Len(heard') <= Window
      /\ \A n \in 1 .. Window : n <= Len(a) => n <= Len(heard') /\ LastOf(heard', n) = LastOf(a, n)
  <2>1. CASE Len(a) > Window
    <3>1. Len(a) = Window + 1 /\ 0 \in 0 .. Len(a)
      BY <1>2, <1>5, <1>6, <2>1
    <3>2. Tail(a) \in Seq(Word) /\ Len(Tail(a)) = Len(a) - 1
      BY <1>6, <3>1, <1>2, LastOfTail
    <3>3. ASSUME NEW n \in 1 .. Window PROVE n <= Len(Tail(a)) /\ LastOf(Tail(a), n) = LastOf(a, n)
      <4>1. n \in 0 .. Len(a) /\ n < Len(a) /\ n <= Len(a) - 1
        BY <1>2, <3>1
      <4> QED
        BY <1>6, <3>2, <4>1, LastOfTail
    <3>4. heard' = Tail(a) /\ Len(Tail(a)) <= Window
      BY <1>2, <1>7, <2>1, <3>1, <3>2
    <3> QED
      BY <3>2, <3>3, <3>4
  <2>2. CASE ~(Len(a) > Window)
    <3>1. heard' = a /\ Len(a) <= Window
      BY <1>2, <1>5, <1>6, <1>7, <2>2
    <3> QED
      BY <1>6, <3>1
  <2> QED
    BY <2>1, <2>2
(* What the parser has read before the word, and with it.                  *)
<1>10. PICK p : p = Position
  OBVIOUS
<1>11. p \in Nat /\ p >= 1 /\ p + 1 <= Window
  BY <1>1, <1>10, PositionFits DEF ParserInv
<1>12. PICK w : w = LastOf(h, p)
  OBVIOUS
<1>13. PICK v : v = Append(w, data)
  OBVIOUS
<1>14. ASSUME InFrame
       PROVE  /\ FrameSoFar(w) /\ w \in Seq(Word) /\ Len(w) = p /\ p <= Len(h)
              /\ v \in Seq(Word) /\ Len(v) = p + 1
              /\ p + 1 <= Len(heard') /\ LastOf(heard', p + 1) = v
  <2>1. h = heard /\ p <= Len(h) /\ FrameSoFar(LastOf(h, p))
    BY <1>1, <1>8, <1>10, <1>14 DEF HeardInv, Heard, LastOf
  <2>2. p \in 0 .. Len(h) /\ p + 1 \in 1 .. Window /\ p + 1 <= Len(a)
    BY <1>5, <1>6, <1>11, <2>1
  <2>3. w \in Seq(Word) /\ Len(w) = p /\ FrameSoFar(w)
    BY <1>5, <1>12, <2>1, <2>2, LastWords
  <2>4. LastOf(a, p + 1) = v
    BY <1>4, <1>5, <1>12, <1>13, <2>2, LastOfMore
  <2>5. v \in Seq(Word) /\ Len(v) = p + 1
    BY <1>13, <2>3, AppendProperties
  <2> QED
    BY <1>9, <2>1, <2>2, <2>3, <2>4, <2>5
<1>15. ASSUME InFrame
       PROVE  /\ InFrame' => FrameSoFar(v)' /\ out' = <<>>
              /\ ~InFrame' => stale' /\ ~Opens(v)
              /\ IF IsFrame(v) THEN Len(out') = 1 /\ Carries(v, out'[1]) ELSE out' = <<>>
  BY <1>1, <1>13, <1>14, <1>15, ParseFollows
<1>16. ASSUME ~InFrame
       PROVE  /\ out' = <<>> /\ stale' = FALSE
              /\ data = Header => InFrame' /\ FrameSoFar(<<data>>)'
              /\ data # Header => ~InFrame'
  BY <1>1, <1>16, HeaderOpens DEF InFrame
<1>17. out' # <<>> => stale'
  <2>1. out' # <<>> => InFrame /\ ~InFrame'
    BY <1>15, <1>16
  <2> QED
    BY <1>15, <2>1
<1>18. ASSUME InFrame' PROVE Position' <= Len(heard') /\ FrameSoFar(Heard(Position))' /\ out' = <<>>
  <2>1. ASSUME NEW n \in Nat, NEW u, FrameSoFar(u)', Len(u) = n, u = LastOf(heard', n),
               n <= Len(heard')
        PROVE  Position' <= Len(heard') /\ FrameSoFar(Heard(Position))'
    <3>1. Position' = n
      BY <2>1 DEF FrameSoFar
    <3>2. Heard(Position)' = u
      BY <2>1, <3>1 DEF Heard, LastOf
    <3> QED
      BY <2>1, <3>1, <3>2 DEF FrameSoFar
  <2>2. CASE InFrame
    <3>1. FrameSoFar(v)' /\ out' = <<>>
      BY <1>15, <1>18, <2>2
    <3>2. p + 1 \in Nat
      BY <1>11
    <3> QED
      BY <1>14, <2>1, <2>2, <3>1, <3>2
  <2>3. CASE ~InFrame
    <3>1. FrameSoFar(<<data>>)' /\ out' = <<>>
      BY <1>16, <1>18, <2>3
    <3>2. LastOf(a, 1) = <<data>>
      <4>1. 0 \in 0 .. Len(h) /\ 0 + 1 = 1
        BY <1>5
      <4>2. LastOf(a, 0 + 1) = Append(LastOf(h, 0), data)
        BY <1>4, <1>5, <4>1, LastOfMore
      <4>3. LastOf(h, 0) = <<>>
        <5>1. LastOf(h, 0) \in Seq(Word) /\ Len(LastOf(h, 0)) = 0
          BY <1>5, <4>1, LastWords
        <5> QED
          BY <5>1
      <4>4. Append(<<>>, data) = <<data>>
        OBVIOUS
      <4> QED
        BY <4>1, <4>2, <4>3, <4>4
    <3>3. 1 \in 1 .. Window /\ 1 <= Len(a) /\ 1 \in Nat /\ Len(<<data>>) = 1
      BY <1>2, <1>5, <1>6
    <3>4. 1 <= Len(heard') /\ LastOf(heard', 1) = <<data>>
      BY <1>9, <3>2, <3>3
    <3> QED
      BY <2>1, <3>1, <3>3, <3>4
  <2> QED
    BY <2>2, <2>3
(* Nothing forgotten: the parser has read every word before this one.      *)
<1>19. ASSUME whole', Opens(a) \/ IsFrame(a), h # <<>>
       PROVE  InFrame /\ v = a /\ heard' = a
  <2>1. whole /\ Len(a) <= Window /\ heard' = a
    BY <1>19, <1>kept
  <2>2. h = heard /\ ~gap /\ out = <<>>
    BY <1>3, <1>19 DEF before
  <2>3. Len(h) >= 1
    BY <1>5, <1>19, EmptySeq
  <2>4. Opens(heard)
    BY <1>4, <1>5, <1>19, <2>2, <2>3, OpensEarlier
  <2>5. InFrame /\ Position = Len(heard)
    BY <1>1, <2>1, <2>2, <2>4 DEF HeardInv
  <2>6. w = h
    BY <1>5, <1>10, <1>12, <2>2, <2>5, LastOfAll
  <2> QED
    BY <1>4, <1>13, <2>1, <2>5, <2>6
<1>20. ASSUME h = <<>> PROVE ~InFrame /\ a = <<data>> /\ heard' = a
  <2>1. ~InFrame
    <3>1. Len(<<>>) = 0
      BY EmptySeq
    <3>2. InFrame => p <= Len(h)
      BY <1>14
    <3> QED
      BY <1>11, <1>20, <3>1, <3>2
  <2>2. a = <<data>>
    BY <1>4, <1>20
  <2>3. ~(Len(a) > Window)
    BY <1>2, <2>2
  <2> QED
    BY <1>7, <2>1, <2>2, <2>3
<1>21. ASSUME whole', Opens(heard'), out' = <<>> PROVE InFrame' /\ Position' = Len(heard')
  <2>1. heard' = a
    <3>1. CASE h = <<>>
      BY <1>20, <3>1
    <3>2. CASE h # <<>>
      BY <1>21, <1>kept, <3>2
    <3> QED
      BY <3>1, <3>2
  <2>2. CASE h = <<>>
    <3>1. ~InFrame /\ a = <<data>> /\ data = Header
      BY <1>20, <1>21, <2>1, <2>2 DEF Opens
    <3>2. InFrame' /\ FrameSoFar(<<data>>)'
      BY <1>16, <3>1
    <3>3. Position' = Len(<<data>>)
      BY <3>2 DEF FrameSoFar
    <3> QED
      BY <2>1, <3>1, <3>2, <3>3
  <2>3. CASE h # <<>>
    <3>1. InFrame /\ v = a
      BY <1>19, <1>21, <2>1, <2>3
    <3>2. InFrame' /\ FrameSoFar(v)'
      BY <1>15, <1>21, <2>1, <3>1
    <3>3. Position' = Len(v)
      BY <3>2 DEF FrameSoFar
    <3> QED
      BY <2>1, <3>1, <3>2, <3>3
  <2> QED
    BY <2>2, <2>3
<1>22. HeardInv'
  <2>1. heard' \in Seq(Word) /\ Len(heard') <= Window /\ Window' = Window
    BY <1>9 DEF Window
  <2>2. Opens(heard)' <=> Opens(heard')
    BY DEF Opens
  <2> QED
    BY <1>1, <1>17, <1>18, <1>21, <2>1, <2>2 DEF HeardInv
<1>23. DeliveredWasHeard'
  <2> SUFFICES ASSUME out' # <<>>
               PROVE  \E n \in 4 .. Len(heard') : IsFrame(Heard(n))' /\ Carries(Heard(n), out[1])'
    BY DEF DeliveredWasHeard
  <2>1. InFrame
    BY <1>16
  <2>2. IsFrame(v) /\ Carries(v, out'[1])
    BY <1>15, <2>1
  <2>3. p + 1 \in 4 .. Len(heard')
    <3>1. Len(v) >= 4
      BY <2>2 DEF IsFrame
    <3> QED
      BY <1>9, <1>11, <1>14, <2>1, <3>1, LenProperties
  <2>4. Heard(p + 1)' = v
    BY <1>14, <2>1 DEF Heard, LastOf
  <2>5. IsFrame(Heard(p + 1))' /\ Carries(Heard(p + 1), out[1])'
    BY <2>2, <2>4 DEF IsFrame, Carries
  <2> QED
    BY <2>3, <2>5
<1>24. FrameIsDelivered'
  <2> SUFFICES ASSUME whole', IsFrame(heard)' PROVE out' # <<>>
    BY DEF FrameIsDelivered
  <2>1. IsFrame(heard')
    BY DEF IsFrame
  <2>2. h # <<>>
    <3> SUFFICES ASSUME h = <<>> PROVE FALSE
      OBVIOUS
    <3>1. heard' = <<data>>
      BY <1>20
    <3>2. Len(<<data>>) = 1
      OBVIOUS
    <3> QED
      BY <2>1, <3>1, <3>2 DEF IsFrame
  <2>3. heard' = a
    BY <1>kept, <2>2
  <2>4. InFrame /\ v = a
    BY <1>19, <2>1, <2>2, <2>3
  <2>5. Len(out') = 1
    BY <1>15, <2>1, <2>3, <2>4
  <2>6. Len(<<>>) = 0
    BY EmptySeq
  <2>7. Len(out') # Len(<<>>)
    BY <2>5, <2>6
  <2> QED
    BY <2>7, Zenon
<1> QED
  BY <1>2, <1>22, <1>23, <1>24 DEF BusInv

(* The bus and the parser, whatever words and pauses come.                 *)
THEOREM BusInvariant == BusSpec => []BusInv
<1>1. BusInv /\ [BusNext]_busVars => BusInv'
  <2> SUFFICES ASSUME BusInv, [BusNext]_busVars PROVE BusInv'
    OBVIOUS
  <2>1. CASE BusPause
    BY <2>1, BusPauseInv
  <2>2. CASE \E data \in Words : BusWord(data)
    BY <2>2, BusWordInv, WordsAssumption DEF Word
  <2>3. CASE UNCHANGED busVars
    BY <2>3 DEF BusInv, ParserInv, TypeOK, ReadInv, HeardInv, InFrame, Position, FrameSoFar,
                Heard, Window, Opens, IsFrame, Carries, DeliveredWasHeard, FrameIsDelivered,
                busVars, parserVars
  <2> QED
    BY <2>1, <2>2, <2>3 DEF BusNext
<1> QED
  BY BusInitInv, <1>1, PTL DEF BusSpec

(* Nothing is delivered that was not on the bus, whole, with its checksum  *)
(* and within the restart time: DeliveredWasHeard.                         *)
THEOREM DeliveredAlwaysHeard == BusSpec => []DeliveredWasHeard
<1>1. BusInv => DeliveredWasHeard
  BY DEF BusInv
<1> QED
  BY BusInvariant, <1>1, PTL

(* A whole frame behind a pause or behind another frame is delivered,      *)
(* whatever noise came before: FrameIsDelivered.                           *)
THEOREM FrameAlwaysDelivered == BusSpec => []FrameIsDelivered
<1>1. BusInv => FrameIsDelivered
  BY DEF BusInv
<1> QED
  BY BusInvariant, <1>1, PTL
=============================================================================
