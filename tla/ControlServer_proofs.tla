------------------------- MODULE ControlServer_proofs -------------------------
(***************************************************************************)
(* Theorems about ControlServer, for any number of connections, agents and *)
(* threads, any cut of the batches and any limits of the token and of a    *)
(* frame; and first, about FrameDecoder by itself.                         *)
(***************************************************************************)
EXTENDS ControlServer, Queues, SequenceTheorems

----------------------------------------------------------------------------
(* FrameDecoder and EncodeFrame, for any bytes.                             *)

(* What the loop reads and what it leaves. *)
LEMMA LengthRead ==
  ASSUME NEW b \in Seq(Bytes), Len(b) >= 4
  PROVE  ReadBigEndianLength(b) \in Nat
<1>1. \A x \in Bytes : x \in Nat
  BY DEF Bytes
<1>2. \A i \in {1, 2, 3, 4} : b[i] \in Bytes
  OBVIOUS
<1>3. PICK w, x, y, z \in Nat : w = b[1] /\ x = b[2] /\ y = b[3] /\ z = b[4]
  BY <1>1, <1>2
<1>4. ((w * 256 + x) * 256 + y) * 256 + z \in Nat
  OBVIOUS
<1> QED BY <1>3, <1>4 DEF ReadBigEndianLength

(* See above. *)
LEMMA CutBytes ==
  ASSUME NEW b \in Seq(Bytes), NEW k \in Nat, k <= Len(b)
  PROVE  /\ SubSeq(b, 1, k) \in Seq(Bytes) /\ Len(SubSeq(b, 1, k)) = k
         /\ \A i \in 1..k : SubSeq(b, 1, k)[i] = b[i]
         /\ SubSeq(b, k + 1, Len(b)) \in Seq(Bytes)
         /\ Len(SubSeq(b, k + 1, Len(b))) = Len(b) - k
         /\ \A i \in 1..(Len(b) - k) : SubSeq(b, k + 1, Len(b))[i] = b[k + i]
<1>1. Len(b) \in Nat /\ \A i \in 1..Len(b) : b[i] \in Bytes
  OBVIOUS
<1>2. /\ SubSeq(b, 1, k) \in Seq(Bytes) /\ Len(SubSeq(b, 1, k)) = k
      /\ \A i \in 1..k : SubSeq(b, 1, k)[i] = b[i]
  <2>1. 1 \in Int /\ k \in Int /\ \A i \in 1..k : b[i] \in Bytes
    BY <1>1
  <2>2. /\ SubSeq(b, 1, k) \in Seq(Bytes)
        /\ Len(SubSeq(b, 1, k)) = IF 1 <= k THEN k - 1 + 1 ELSE 0
        /\ \A i \in 1..(k - 1 + 1) : SubSeq(b, 1, k)[i] = b[1 + i - 1]
    <3> HIDE DEF Bytes
    <3> QED BY <2>1, SubSeqProperties
  <2>3. (IF 1 <= k THEN k - 1 + 1 ELSE 0) = k /\ 1..(k - 1 + 1) = 1..k /\ \A i \in 1..k : 1 + i - 1 = i
    OBVIOUS
  <2> QED BY <2>2, <2>3
<1>3. /\ SubSeq(b, k + 1, Len(b)) \in Seq(Bytes)
      /\ Len(SubSeq(b, k + 1, Len(b))) = Len(b) - k
      /\ \A i \in 1..(Len(b) - k) : SubSeq(b, k + 1, Len(b))[i] = b[k + i]
  <2> DEFINE m == k + 1
             n == Len(b)
  <2>1. m \in Int /\ n \in Int /\ \A i \in m..n : b[i] \in Bytes
    BY <1>1
  <2>2. /\ SubSeq(b, m, n) \in Seq(Bytes)
        /\ Len(SubSeq(b, m, n)) = IF m <= n THEN n - m + 1 ELSE 0
        /\ \A i \in 1..(n - m + 1) : SubSeq(b, m, n)[i] = b[m + i - 1]
    <3> HIDE DEF Bytes, m, n
    <3> QED BY <2>1, SubSeqProperties
  <2>3. /\ (IF m <= n THEN n - m + 1 ELSE 0) = Len(b) - k
        /\ 1..(n - m + 1) = 1..(Len(b) - k)
        /\ \A i \in 1..(Len(b) - k) : m + i - 1 = k + i
    BY <1>1
  <2> QED BY <2>2, <2>3
<1> QED BY <1>2, <1>3

----------------------------------------------------------------------------
(* Drain is defined by recursion.  That there is a function which satisfies *)
(* its equation: a round looks at shorter buffers only, so that functions   *)
(* on buffers below a length can be extended to the next.                   *)
LEMMA RoundAgrees ==
  ASSUME NEW f, NEW g, NEW b \in Seq(Bytes),
         \A x \in Seq(Bytes) : Len(x) < Len(b) => f[x] = g[x]
  PROVE  DrainRound(f, b) = DrainRound(g, b)
<1> DEFINE length == ReadBigEndianLength(b)
           size == LengthPrefixBytes + length
           r == SubSeq(b, size + 1, Len(b))
<1>1. CASE Len(b) >= LengthPrefixBytes /\ ~(Len(b) < size)
  <2>1. length \in Nat
    BY <1>1, LengthRead DEF LengthPrefixBytes
  <2>2. size \in Nat /\ size <= Len(b) /\ size > 0 /\ Len(b) \in Nat
    BY <1>1, <2>1 DEF LengthPrefixBytes
  <2> HIDE DEF size
  <2>3. r \in Seq(Bytes) /\ Len(r) < Len(b)
    BY <2>2, CutBytes
  <2>4. f[r] = g[r]
    BY <2>3
  <2> QED BY <2>4 DEF DrainRound, size
<1>2. CASE Len(b) < LengthPrefixBytes \/ Len(b) < size
  BY <1>2 DEF DrainRound
<1>3. Len(b) \in Nat /\ LengthPrefixBytes \in Nat
  BY DEF LengthPrefixBytes
<1> QED BY <1>1, <1>2, <1>3

Below(n) == {b \in Seq(Bytes) : Len(b) < n}

Approximates(f, n) == f = [b \in Below(n) |-> DrainRound(f, b)]

(* See above. *)
LEMMA SameApproximation ==
  ASSUME NEW m \in Nat, NEW n \in Nat, NEW f, NEW g,
         Approximates(f, m), Approximates(g, n), m <= n
  PROVE  \A b \in Below(m) : f[b] = g[b]
<1> DEFINE T == {k \in Nat : \E b \in Below(m) : Len(b) = k /\ f[b] # g[b]}
<1>1. SUFFICES ASSUME T # {} PROVE FALSE
  BY DEF Below
<1>2. PICK k \in T : \A j \in T : k <= j
  BY <1>1, LeastNumber
<1>3. PICK b \in Below(m) : Len(b) = k /\ f[b] # g[b]
  BY <1>2
<1>4. b \in Seq(Bytes) /\ Len(b) \in Nat /\ Len(b) < m /\ b \in Below(n)
  BY <1>3 DEF Below
<1>5. \A x \in Seq(Bytes) : Len(x) < Len(b) => f[x] = g[x]
  <2> SUFFICES ASSUME NEW x \in Seq(Bytes), Len(x) < Len(b)
               PROVE  f[x] = g[x]
    OBVIOUS
  <2>1. x \in Below(m) /\ Len(x) \in Nat /\ ~(k <= Len(x))
    BY <1>3, <1>4 DEF Below
  <2> QED BY <1>2, <2>1
<1>6. f[b] = DrainRound(f, b)
  BY <1>3 DEF Approximates
<1>7. g[b] = DrainRound(g, b)
  BY <1>4 DEF Approximates
<1>8. DrainRound(f, b) = DrainRound(g, b)
  BY <1>4, <1>5, RoundAgrees
<1> QED BY <1>3, <1>6, <1>7, <1>8

(* See above. *)
LEMMA ApproximationsExist ==
  ASSUME NEW n \in Nat
  PROVE  \E f : Approximates(f, n)
<1> DEFINE T == {k \in Nat : \A f : ~Approximates(f, k)}
<1>1. SUFFICES ASSUME T # {} PROVE FALSE
  OBVIOUS
<1>2. PICK k \in T : \A j \in T : k <= j
  BY <1>1, LeastNumber
<1>3. \E g : \A b \in Seq(Bytes) : Len(b) < k - 1 => g[b] = DrainRound(g, b)
  <2>1. CASE k = 0
    <3>1. \A b \in Seq(Bytes) : ~(Len(b) < k - 1)
      BY <2>1
    <3> QED BY <3>1
  <2>2. CASE k # 0
    <3>1. k - 1 \in Nat /\ k - 1 \notin T
      BY <1>2, <2>2
    <3>2. PICK g : Approximates(g, k - 1)
      BY <3>1
    <3>3. \A b \in Seq(Bytes) : Len(b) < k - 1 => g[b] = DrainRound(g, b)
      BY <3>2 DEF Approximates, Below
    <3> QED BY <3>3
  <2> QED BY <2>1, <2>2
<1>4. PICK g : \A b \in Seq(Bytes) : Len(b) < k - 1 => g[b] = DrainRound(g, b)
  BY <1>3
<1> DEFINE f == [b \in Below(k) |-> DrainRound(g, b)]
<1>5. ASSUME NEW b \in Below(k)
      PROVE  DrainRound(g, b) = DrainRound(f, b)
  <2>1. b \in Seq(Bytes) /\ Len(b) \in Nat /\ Len(b) < k
    BY <1>5 DEF Below
  <2>2. ASSUME NEW x \in Seq(Bytes), Len(x) < Len(b)
        PROVE  g[x] = f[x]
    <3>1. x \in Below(k) /\ Len(x) < k - 1
      BY <1>2, <2>1, <2>2 DEF Below
    <3> QED BY <1>4, <3>1
  <2> HIDE DEF f
  <2> QED BY <2>1, <2>2, RoundAgrees
<1>6. f = [b \in Below(k) |-> DrainRound(f, b)]
  BY <1>5
<1> HIDE DEF f
<1>7. Approximates(f, k)
  BY <1>6 DEF Approximates
<1> QED BY <1>2, <1>7

(* The equation of Drain. *)
LEMMA DrainEquation == Drain = [b \in Seq(Bytes) |-> DrainRound(Drain, b)]
<1> DEFINE A(n) == CHOOSE f : Approximates(f, n)
           D == [b \in Seq(Bytes) |-> A(Len(b) + 1)[b]]
<1>1. \A n \in Nat : Approximates(A(n), n)
  BY ApproximationsExist
<1> HIDE DEF A
<1>2. ASSUME NEW b \in Seq(Bytes)
      PROVE  D[b] = DrainRound(D, b)
  <2> DEFINE n == Len(b) + 1
  <2>1. Len(b) \in Nat /\ n \in Nat /\ b \in Below(n)
    BY DEF Below
  <2>2. Approximates(A(n), n)
    BY <1>1, <2>1
  <2>3. D[b] = DrainRound(A(n), b)
    BY <2>1, <2>2 DEF Approximates
  <2>4. ASSUME NEW x \in Seq(Bytes), Len(x) < Len(b)
        PROVE  A(n)[x] = D[x]
    <3>1. Len(x) + 1 \in Nat /\ Len(x) + 1 <= n /\ x \in Below(Len(x) + 1)
      BY <2>1, <2>4 DEF Below
    <3>2. Approximates(A(Len(x) + 1), Len(x) + 1)
      BY <1>1, <3>1
    <3> HIDE DEF n
    <3>3. A(Len(x) + 1)[x] = A(n)[x]
      BY <2>1, <2>2, <3>1, <3>2, SameApproximation
    <3> QED BY <3>3
  <2> HIDE DEF D, n
  <2>5. DrainRound(A(n), b) = DrainRound(D, b)
    BY <2>4, RoundAgrees
  <2> QED BY <2>3, <2>5
<1>3. D = [b \in Seq(Bytes) |-> DrainRound(D, b)]
  BY <1>2
<1> HIDE DEF D
<1> QED BY <1>3 DEF Drain

(* The outcomes of a round: the head of the buffer is not complete, is too  *)
(* long, or is a frame of the length it says.                               *)
Incomplete(b) ==
  \/ Len(b) < 4
  \/ ReadBigEndianLength(b) <= MaxFrameBytes /\ Len(b) < 4 + ReadBigEndianLength(b)

TooLong(b) == Len(b) >= 4 /\ ReadBigEndianLength(b) > MaxFrameBytes

Complete(b) ==
  /\ Len(b) >= 4 /\ ReadBigEndianLength(b) <= MaxFrameBytes
  /\ 4 + ReadBigEndianLength(b) <= Len(b)

(* The bytes of the first frame, and those behind it. *)
FrameEnd(b) == 4 + ReadBigEndianLength(b)

Payload(b) == SubSeq(b, 5, FrameEnd(b))

Behind(b) == SubSeq(b, FrameEnd(b) + 1, Len(b))

Nothing(b) == [frames |-> <<>>, buffer |-> b, failed |-> FALSE]

Failure(b) == [frames |-> <<>>, buffer |-> b, failed |-> TRUE]

Pushes == [frames : Seq(Seq(Bytes)), buffer : Seq(Bytes), failed : BOOLEAN]

(* See above. *)
LEMMA Outcomes ==
  ASSUME NEW b \in Seq(Bytes)
  PROVE  /\ Incomplete(b) \/ TooLong(b) \/ Complete(b)
         /\ Incomplete(b) => Drain[b] = Nothing(b)
         /\ TooLong(b) => Drain[b] = Failure(b)
         /\ Complete(b) =>
              Drain[b] = [Drain[Behind(b)] EXCEPT !.frames =
                            IF Drain[Behind(b)].failed THEN <<>>
                            ELSE <<Payload(b)>> \o Drain[Behind(b)].frames]
<1>1. /\ Drain[b] = DrainRound(Drain, b) /\ Len(b) \in Nat
      /\ Len(b) >= 4 => ReadBigEndianLength(b) \in Nat
      /\ MaxFrameBytes \in Nat /\ LengthPrefixBytes = 4
  BY DrainEquation, LengthRead, FrameLimit DEF LengthPrefixBytes
<1>2. Incomplete(b) \/ TooLong(b) \/ Complete(b)
  <2>1. CASE Len(b) < 4
    BY <2>1 DEF Incomplete
  <2>2. CASE Len(b) >= 4
    <3>1. ReadBigEndianLength(b) \in Nat
      BY <1>1, <2>2
    <3> QED BY <1>1, <2>2, <3>1 DEF Incomplete, TooLong, Complete
  <2> QED BY <1>1, <2>1, <2>2
<1>3. ASSUME Incomplete(b) PROVE Drain[b] = Nothing(b)
  BY <1>1, <1>3 DEF DrainRound, Incomplete, Nothing
<1>4. ASSUME TooLong(b) PROVE Drain[b] = Failure(b)
  BY <1>1, <1>4 DEF DrainRound, TooLong, Failure
<1>5. ASSUME Complete(b)
      PROVE  DrainRound(Drain, b) =
               [Drain[Behind(b)] EXCEPT !.frames =
                  IF Drain[Behind(b)].failed THEN <<>>
                  ELSE <<Payload(b)>> \o Drain[Behind(b)].frames]
  <2>1. /\ ~(Len(b) < LengthPrefixBytes) /\ ~(ReadBigEndianLength(b) > MaxFrameBytes)
        /\ ~(Len(b) < LengthPrefixBytes + ReadBigEndianLength(b))
    BY <1>1, <1>5 DEF Complete
  <2>2. SubSeq(b, LengthPrefixBytes + ReadBigEndianLength(b) + 1, Len(b)) = Behind(b)
    BY <1>1 DEF Behind, FrameEnd
  <2>3. SubSeq(b, LengthPrefixBytes + 1, LengthPrefixBytes + ReadBigEndianLength(b)) = Payload(b)
    BY <1>1 DEF Payload, FrameEnd
  <2> QED BY <2>1, <2>2, <2>3 DEF DrainRound
<1> QED BY <1>1, <1>2, <1>3, <1>4, <1>5

(* See above. *)
LEMMA BehindFrame ==
  ASSUME NEW b \in Seq(Bytes), Complete(b)
  PROVE  /\ ReadBigEndianLength(b) \in Nat /\ FrameEnd(b) \in Nat /\ FrameEnd(b) <= Len(b)
         /\ Behind(b) \in Seq(Bytes) /\ Len(Behind(b)) = Len(b) - FrameEnd(b)
         /\ \A i \in 1..(Len(b) - FrameEnd(b)) : Behind(b)[i] = b[FrameEnd(b) + i]
         /\ Payload(b) \in Seq(Bytes) /\ Len(Payload(b)) = ReadBigEndianLength(b)
         /\ \A i \in 1..ReadBigEndianLength(b) : Payload(b)[i] = b[4 + i]
<1>1. /\ ReadBigEndianLength(b) \in Nat /\ FrameEnd(b) \in Nat /\ FrameEnd(b) <= Len(b)
      /\ Len(b) \in Nat
  BY LengthRead DEF Complete, FrameEnd
<1>2. /\ Behind(b) \in Seq(Bytes) /\ Len(Behind(b)) = Len(b) - FrameEnd(b)
      /\ \A i \in 1..(Len(b) - FrameEnd(b)) : Behind(b)[i] = b[FrameEnd(b) + i]
  BY <1>1, CutBytes DEF Behind
<1>3. /\ Payload(b) \in Seq(Bytes) /\ Len(Payload(b)) = ReadBigEndianLength(b)
      /\ \A i \in 1..ReadBigEndianLength(b) : Payload(b)[i] = b[4 + i]
  <2> DEFINE v == ReadBigEndianLength(b)
             n == FrameEnd(b)
  <2>1. n = 4 + v /\ v \in Nat /\ \A i \in 1..Len(b) : b[i] \in Bytes
    BY <1>1 DEF FrameEnd
  <2>2. 5 \in Int /\ n \in Int /\ \A i \in 5..n : b[i] \in Bytes
    BY <1>1, <2>1
  <2>3. /\ SubSeq(b, 5, n) \in Seq(Bytes)
        /\ Len(SubSeq(b, 5, n)) = IF 5 <= n THEN n - 5 + 1 ELSE 0
        /\ \A i \in 1..(n - 5 + 1) : SubSeq(b, 5, n)[i] = b[5 + i - 1]
    <3> HIDE DEF n, Bytes
    <3> QED BY <2>2, SubSeqProperties
  <2>4. /\ (IF 5 <= n THEN n - 5 + 1 ELSE 0) = v /\ n - 5 + 1 = v
        /\ \A i \in 1..v : 5 + i - 1 = 4 + i
    BY <2>1
  <2> HIDE DEF n, v
  <2>5. /\ SubSeq(b, 5, n) \in Seq(Bytes) /\ Len(SubSeq(b, 5, n)) = v
        /\ \A i \in 1..v : SubSeq(b, 5, n)[i] = b[4 + i]
    BY <2>3, <2>4
  <2> QED BY <2>5 DEF Payload, n, v
<1> QED BY <1>1, <1>2, <1>3

(* What Push returns has the type it should have, and a push that throws    *)
(* returns no frame.                                                        *)
LEMMA DrainType ==
  ASSUME NEW a \in Seq(Bytes)
  PROVE  Drain[a] \in Pushes /\ (Drain[a].failed => Drain[a].frames = <<>>)
<1> DEFINE Good(x) == Drain[x] \in Pushes /\ (Drain[x].failed => Drain[x].frames = <<>>)
           T == {k \in Nat : \E b \in Seq(Bytes) : Len(b) = k /\ ~Good(b)}
<1>1. SUFFICES ASSUME T # {} PROVE FALSE
  <2> HIDE DEF Good
  <2>1. Len(a) \in Nat
    OBVIOUS
  <2>2. Good(a)
    BY <2>1
  <2> QED BY <2>2 DEF Good
<1>2. PICK k \in T : \A j \in T : k <= j
  BY <1>1, LeastNumber
<1>3. PICK b \in Seq(Bytes) : Len(b) = k /\ ~Good(b)
  BY <1>2
<1>4. CASE Incomplete(b)
  <2>1. Nothing(b) \in Pushes /\ Nothing(b).frames = <<>>
    BY DEF Nothing, Pushes
  <2> QED BY <1>3, <1>4, <2>1, Outcomes
<1>5. CASE TooLong(b)
  <2>1. Failure(b) \in Pushes /\ Failure(b).frames = <<>>
    BY DEF Failure, Pushes
  <2> QED BY <1>3, <1>5, <2>1, Outcomes
<1>6. CASE Complete(b)
  <2> DEFINE c == Behind(b)
             r == Drain[c]
             p == Payload(b)
  <2>1. /\ c \in Seq(Bytes) /\ Len(c) \in Nat /\ Len(c) < Len(b) /\ Len(b) \in Nat
        /\ p \in Seq(Bytes)
    <3>1. FrameEnd(b) >= 4
      BY <1>6, BehindFrame DEF FrameEnd
    <3> QED BY <1>6, <3>1, BehindFrame
  <2>2. Good(c)
    <3> HIDE DEF Good, c
    <3>1. ~(k <= Len(c))
      BY <1>3, <2>1
    <3> QED BY <1>2, <2>1, <3>1
  <2>3. Drain[b] = [r EXCEPT !.frames = IF r.failed THEN <<>> ELSE <<p>> \o r.frames]
    BY <1>6, Outcomes
  <2> HIDE DEF c, p
  <2>4. r.frames \in Seq(Seq(Bytes)) /\ r.failed \in BOOLEAN /\ r.buffer \in Seq(Bytes)
        /\ r = [frames |-> r.frames, buffer |-> r.buffer, failed |-> r.failed]
    BY <2>2 DEF Pushes
  <2>5. <<p>> \o r.frames \in Seq(Seq(Bytes))
    <3> DEFINE S == Seq(Bytes)
    <3>1. p \in S /\ r.frames \in Seq(S)
      BY <2>1, <2>4
    <3> HIDE DEF S
    <3> QED BY <3>1 DEF S
  <2> HIDE DEF r
  <2>6. Drain[b] = [frames |-> IF r.failed THEN <<>> ELSE <<p>> \o r.frames,
                    buffer |-> r.buffer, failed |-> r.failed]
    BY <2>3, <2>4
  <2>7. (IF r.failed THEN <<>> ELSE <<p>> \o r.frames) \in Seq(Seq(Bytes))
    BY <2>5
  <2>8. Good(b)
    BY <2>4, <2>6, <2>7 DEF Pushes
  <2> QED BY <1>3, <2>8
<1> QED BY <1>3, <1>4, <1>5, <1>6, Outcomes

(* A frame before the frames of two pushes. *)
LEMMA JoinFrames ==
  ASSUME NEW p \in Seq(Bytes), NEW f \in Seq(Seq(Bytes)), NEW g \in Seq(Seq(Bytes))
  PROVE  <<p>> \o (f \o g) = (<<p>> \o f) \o g
<1>1. PICK F : F = Seq(Bytes)
  OBVIOUS
<1>2. \A q1, q2, q3 \in Seq(F) : (q1 \o q2) \o q3 = q1 \o (q2 \o q3)
  <2> SUFFICES ASSUME NEW q1 \in Seq(F), NEW q2 \in Seq(F), NEW q3 \in Seq(F)
               PROVE  (q1 \o q2) \o q3 = q1 \o (q2 \o q3)
    OBVIOUS
  <2> QED BY SMTT(60)
<1>3. p \in F /\ f \in Seq(F) /\ g \in Seq(F) /\ <<p>> \in Seq(F)
  BY <1>1
<1> QED BY <1>2, <1>3

(* Bytes that follow do not change what stands before them. *)
LEMMA BytesFollow ==
  ASSUME NEW a \in Seq(Bytes), NEW b \in Seq(Bytes)
  PROVE  /\ a \o b \in Seq(Bytes) /\ Len(a \o b) = Len(a) + Len(b)
         /\ \A i \in 1..Len(a) : (a \o b)[i] = a[i]
         /\ \A i \in 1..Len(b) : (a \o b)[Len(a) + i] = b[i]
         /\ Len(a) >= 4 => ReadBigEndianLength(a \o b) = ReadBigEndianLength(a)
<1> DEFINE x == a \o b
<1>1. /\ Len(a) \in Nat /\ Len(b) \in Nat
      /\ x \in Seq(Bytes) /\ Len(x) = Len(a) + Len(b)
      /\ \A i \in 1..Len(a) + Len(b) : x[i] = IF i <= Len(a) THEN a[i] ELSE b[i - Len(a)]
  <2> HIDE DEF Bytes
  <2> QED BY ConcatProperties
<1> HIDE DEF x
<1>2. \A i \in 1..Len(a) : x[i] = a[i]
  BY <1>1
<1>3. \A i \in 1..Len(b) : x[Len(a) + i] = b[i]
  <2> SUFFICES ASSUME NEW i \in 1..Len(b) PROVE x[Len(a) + i] = b[i]
    OBVIOUS
  <2>1. Len(a) + i \in 1..Len(a) + Len(b) /\ ~(Len(a) + i <= Len(a)) /\ Len(a) + i - Len(a) = i
    BY <1>1
  <2> QED BY <1>1, <2>1
<1>4. Len(a) >= 4 => x[1] = a[1] /\ x[2] = a[2] /\ x[3] = a[3] /\ x[4] = a[4]
  BY <1>1, <1>2
<1>5. Len(a) >= 4 => ReadBigEndianLength(x) = ReadBigEndianLength(a)
  BY <1>4 DEF ReadBigEndianLength
<1> QED BY <1>1, <1>2, <1>3, <1>5 DEF x

(* See above. *)
LEMMA FrameFollowed ==
  ASSUME NEW a \in Seq(Bytes), NEW b \in Seq(Bytes), Complete(a)
  PROVE  /\ Complete(a \o b) /\ Payload(a \o b) = Payload(a)
         /\ Behind(a \o b) = Behind(a) \o b
<1> DEFINE x == a \o b
           c == Behind(a)
           n == FrameEnd(a)
<1>1. /\ Len(a) \in Nat /\ Len(b) \in Nat /\ Len(a) >= 4
      /\ x \in Seq(Bytes) /\ Len(x) = Len(a) + Len(b)
      /\ \A i \in 1..Len(a) : x[i] = a[i]
      /\ \A i \in 1..Len(b) : x[Len(a) + i] = b[i]
      /\ ReadBigEndianLength(x) = ReadBigEndianLength(a)
  BY BytesFollow DEF Complete
<1>2. /\ n \in Nat /\ n <= Len(a) /\ n = 4 + ReadBigEndianLength(a)
      /\ ReadBigEndianLength(a) \in Nat
      /\ c \in Seq(Bytes) /\ Len(c) = Len(a) - n
      /\ \A i \in 1..(Len(a) - n) : c[i] = a[n + i]
      /\ Payload(a) \in Seq(Bytes) /\ Len(Payload(a)) = ReadBigEndianLength(a)
      /\ \A i \in 1..ReadBigEndianLength(a) : Payload(a)[i] = a[4 + i]
  BY BehindFrame DEF FrameEnd
<1>3. Complete(x) /\ FrameEnd(x) = n
  BY <1>1, <1>2 DEF Complete, FrameEnd
<1> HIDE DEF x, c, n
<1>4. /\ Behind(x) \in Seq(Bytes) /\ Len(Behind(x)) = Len(x) - n
      /\ \A i \in 1..(Len(x) - n) : Behind(x)[i] = x[n + i]
      /\ Payload(x) \in Seq(Bytes) /\ Len(Payload(x)) = ReadBigEndianLength(a)
      /\ \A i \in 1..ReadBigEndianLength(a) : Payload(x)[i] = x[4 + i]
  BY <1>1, <1>3, BehindFrame
<1>5. /\ c \o b \in Seq(Bytes) /\ Len(c \o b) = Len(c) + Len(b)
      /\ \A i \in 1..Len(c) : (c \o b)[i] = c[i]
      /\ \A i \in 1..Len(b) : (c \o b)[Len(c) + i] = b[i]
  BY <1>2, BytesFollow
<1>6. Payload(x) = Payload(a)
  <2>1. ASSUME NEW i \in 1..Len(Payload(x))
        PROVE  Payload(x)[i] = Payload(a)[i]
    <3>1. i \in 1..ReadBigEndianLength(a)
      BY <1>4
    <3>2. 4 + i \in 1..Len(a)
      <4>1. n <= Len(a) /\ n = 4 + ReadBigEndianLength(a) /\ Len(a) \in Nat
            /\ ReadBigEndianLength(a) \in Nat
        BY <1>1, <1>2
      <4> QED BY <3>1, <4>1
    <3>3. x[4 + i] = a[4 + i]
      BY <1>1, <3>2
    <3> QED BY <1>2, <1>4, <3>1, <3>3
  <2>2. Payload(x) \in Seq(Bytes) /\ Payload(a) \in Seq(Bytes) /\ Len(Payload(x)) = Len(Payload(a))
    BY <1>2, <1>4
  <2> HIDE DEF Bytes
  <2> QED BY <2>1, <2>2, SeqEqual
<1>7. Behind(x) = c \o b
  <2>0. /\ Len(a) \in Nat /\ Len(b) \in Nat /\ Len(x) = Len(a) + Len(b)
        /\ n \in Nat /\ n <= Len(a) /\ Len(c) = Len(a) - n /\ Len(c) \in Nat
    BY <1>1, <1>2
  <2>1. ASSUME NEW i \in 1..Len(Behind(x))
        PROVE  Behind(x)[i] = (c \o b)[i]
    <3>1. i \in 1..(Len(x) - n) /\ Behind(x)[i] = x[n + i]
      BY <1>4
    <3>2. CASE i <= Len(c)
      <4>1. i \in 1..Len(c) /\ i \in 1..(Len(a) - n) /\ n + i \in 1..Len(a)
        BY <2>0, <3>1, <3>2
      <4> QED BY <1>1, <1>2, <1>5, <3>1, <4>1
    <3>3. CASE i > Len(c)
      <4> DEFINE j == i - Len(c)
      <4>0. i \in Nat /\ i <= Len(a) + Len(b) - n
        BY <2>0, <3>1
      <4>1. j \in 1..Len(b)
        BY <2>0, <3>3, <4>0
      <4>2. n + i = Len(a) + j /\ i = Len(c) + j
        BY <2>0, <4>0
      <4> HIDE DEF j
      <4> QED BY <1>1, <1>5, <3>1, <4>1, <4>2
    <3>4. i <= Len(c) \/ i > Len(c)
      BY <2>0, <3>1
    <3> QED BY <3>2, <3>3, <3>4
  <2>2. Len(Behind(x)) = Len(c \o b) /\ Behind(x) \in Seq(Bytes) /\ c \o b \in Seq(Bytes)
    BY <1>1, <1>2, <1>4, <1>5
  <2> HIDE DEF Bytes
  <2> QED BY <2>1, <2>2, SeqEqual
<1> QED BY <1>3, <1>6, <1>7 DEF x, c

(* The record a push returns. *)
LEMMA CutRecord ==
  ASSUME NEW a \in Seq(Bytes)
  PROVE  /\ Drain[a].frames \in Seq(Seq(Bytes)) /\ Drain[a].failed \in BOOLEAN
         /\ Drain[a].buffer \in Seq(Bytes)
         /\ Drain[a] = [frames |-> Drain[a].frames, buffer |-> Drain[a].buffer,
                        failed |-> Drain[a].failed]
BY DrainType DEF Pushes

(* What FrameDecoder makes of a stream does not depend on how it is cut:    *)
(* what is left of the first piece and the second give the frames behind    *)
(* those of the first, and a stream too long for one is for the other.      *)
CutAgrees(a, b) ==
  LET first == Drain[a]
      second == Push(first.buffer, b)
      whole == Drain[a \o b]
  IN  /\ first.failed => second.failed /\ whole.failed
      /\ ~first.failed =>
           /\ whole.failed = second.failed /\ whole.buffer = second.buffer
           /\ whole.frames = IF second.failed THEN <<>> ELSE first.frames \o second.frames

(* A frame is whole however the pieces of the stream that carries it are   *)
(* cut: OnDataChunkRecvCallback hands on whatever the socket had.          *)
THEOREM CutsDoNotMatter ==
  ASSUME NEW u \in Seq(Bytes), NEW b \in Seq(Bytes)
  PROVE  CutAgrees(u, b)
<1> DEFINE T == {k \in Nat : \E a \in Seq(Bytes) : Len(a) = k /\ ~CutAgrees(a, b)}
<1>1. SUFFICES ASSUME T # {} PROVE FALSE
  <2>1. Len(u) \in Nat
    OBVIOUS
  <2> QED BY <2>1
<1>2. PICK k \in T : \A j \in T : k <= j
  BY <1>1, LeastNumber
<1>3. PICK a \in Seq(Bytes) : Len(a) = k /\ ~CutAgrees(a, b)
  BY <1>2
<1> DEFINE x == a \o b
<1>4. x \in Seq(Bytes) /\ (Len(a) >= 4 => ReadBigEndianLength(x) = ReadBigEndianLength(a))
      /\ Len(x) = Len(a) + Len(b) /\ Len(a) \in Nat /\ Len(b) \in Nat
  BY BytesFollow
<1>5. CASE Incomplete(a)
  <2>1. Drain[a] = Nothing(a)
    BY <1>5, Outcomes
  <2>2. Drain[a].buffer = a /\ Drain[a].frames = <<>> /\ Drain[a].failed = FALSE
    BY <2>1 DEF Nothing
  <2>3. Drain[x].failed => Drain[x].frames = <<>>
    BY <1>4, DrainType
  <2>4. <<>> \o Drain[x].frames = Drain[x].frames
    <3> DEFINE S == Seq(Bytes)
    <3>1. Drain[x].frames \in Seq(S)
      BY <1>4, CutRecord
    <3> HIDE DEF S
    <3> QED BY <3>1, ConcatEmptySeq
  <2> HIDE DEF x
  <2>5. CutAgrees(a, b)
    BY <2>2, <2>3, <2>4 DEF CutAgrees, Push, x
  <2> QED BY <1>3, <2>5
<1>6. CASE TooLong(a)
  <2>1. Drain[a] = Failure(a)
    BY <1>6, Outcomes
  <2>2. Drain[a].buffer = a /\ Drain[a].failed = TRUE
    BY <2>1 DEF Failure
  <2>3. TooLong(x)
    BY <1>4, <1>6 DEF TooLong
  <2>4. Drain[x] = Failure(x)
    BY <1>4, <2>3, Outcomes
  <2>5. Drain[x].failed
    BY <2>4 DEF Failure
  <2>6. CutAgrees(a, b)
    BY <2>2, <2>5 DEF CutAgrees, Push
  <2> QED BY <1>3, <2>6
<1>7. CASE Complete(a)
  <2> DEFINE c == Behind(a)
             p == Payload(a)
             r == Drain[c]
             s == Push(r.buffer, b)
             y == Drain[c \o b]
  <2>1. /\ c \in Seq(Bytes) /\ Len(c) \in Nat /\ Len(c) < Len(a) /\ p \in Seq(Bytes)
    <3>1. FrameEnd(a) >= 4
      BY <1>7, BehindFrame DEF FrameEnd
    <3> QED BY <1>4, <1>7, <3>1, BehindFrame
  <2>2. CutAgrees(c, b)
    <3>1. ~(k <= Len(c))
      BY <1>3, <2>1
    <3> HIDE DEF c
    <3> QED BY <1>2, <2>1, <3>1
  <2>3. Drain[a] = [r EXCEPT !.frames = IF r.failed THEN <<>> ELSE <<p>> \o r.frames]
    BY <1>7, Outcomes
  <2>4. Drain[x] = [y EXCEPT !.frames = IF y.failed THEN <<>> ELSE <<p>> \o y.frames]
    <3>1. Complete(x) /\ Payload(x) = p /\ Behind(x) = c \o b
      BY <1>7, FrameFollowed
    <3> HIDE DEF x, c, p
    <3> QED BY <1>4, <3>1, Outcomes
  <2>5. c \o b \in Seq(Bytes)
    BY <2>1, BytesFollow
  <2>6. /\ r.frames \in Seq(Seq(Bytes)) /\ r.failed \in BOOLEAN /\ r.buffer \in Seq(Bytes)
        /\ r = [frames |-> r.frames, buffer |-> r.buffer, failed |-> r.failed]
    BY <2>1, CutRecord
  <2>7. /\ y.frames \in Seq(Seq(Bytes)) /\ y.failed \in BOOLEAN /\ y.buffer \in Seq(Bytes)
        /\ y = [frames |-> y.frames, buffer |-> y.buffer, failed |-> y.failed]
    BY <2>5, CutRecord
  <2>8. s.frames \in Seq(Seq(Bytes))
    <3>1. r.buffer \o b \in Seq(Bytes)
      BY <2>6, BytesFollow
    <3> QED BY <3>1, CutRecord DEF Push
  <2>9. <<p>> \o (r.frames \o s.frames) = (<<p>> \o r.frames) \o s.frames
    <3> HIDE DEF p, r, s
    <3> QED BY <2>1, <2>6, <2>8, JoinFrames
  <2>10. /\ r.failed => s.failed /\ y.failed
         /\ ~r.failed => /\ y.failed = s.failed /\ y.buffer = s.buffer
                         /\ y.frames = IF s.failed THEN <<>> ELSE r.frames \o s.frames
    BY <2>2 DEF CutAgrees
  <2> HIDE DEF r, y, c, p
  <2>11. /\ Drain[a].buffer = r.buffer /\ Drain[a].failed = r.failed
         /\ ~r.failed => Drain[a].frames = <<p>> \o r.frames
         /\ Drain[x].buffer = y.buffer /\ Drain[x].failed = y.failed
         /\ Drain[x].frames = IF y.failed THEN <<>> ELSE <<p>> \o y.frames
    BY <2>3, <2>4, <2>6, <2>7
  <2>12. Push(Drain[a].buffer, b) = s
    BY <2>11
  <2> HIDE DEF s, x
  <2>13. CutAgrees(a, b)
    <3>1. r.failed => s.failed /\ Drain[x].failed
      BY <2>10, <2>11
    <3>2. ~r.failed => /\ Drain[x].failed = s.failed /\ Drain[x].buffer = s.buffer
                       /\ Drain[x].frames = IF s.failed THEN <<>> ELSE Drain[a].frames \o s.frames
      BY <2>9, <2>10, <2>11
    <3> QED BY <2>11, <2>12, <3>1, <3>2 DEF CutAgrees, x
  <2> QED BY <1>3, <2>13
<1> QED BY <1>5, <1>6, <1>7, Outcomes

(* A number below 2^32 is its four digits to the base of 256. *)
LEMMA Digits ==
  ASSUME NEW n \in Nat, n <= MaxFrameBytes
  PROVE  LET second == n \div 256
             third == second \div 256
             high == third \div 256
         IN  /\ n % 256 \in Bytes /\ second % 256 \in Bytes
             /\ third % 256 \in Bytes /\ high % 256 \in Bytes
             /\ (((high % 256) * 256 + (third % 256)) * 256 + (second % 256)) * 256
                  + (n % 256) = n
<1> DEFINE second == n \div 256
           third == second \div 256
           high == third \div 256
<1>1. \A x \in Nat : /\ x \div 256 \in Nat /\ x % 256 \in Bytes /\ x % 256 \in Nat
                     /\ x = (x \div 256) * 256 + (x % 256)
  <2>1. \A x \in Nat : x \div 256 \in Nat
    OBVIOUS
  <2>2. \A x \in Nat : x % 256 \in 0..255
    OBVIOUS
  <2>3. \A x \in Nat : x = (x \div 256) * 256 + (x % 256)
    OBVIOUS
  <2> QED BY <2>1, <2>2, <2>3 DEF Bytes
<1>2. \A x, y \in Nat : x <= y => x \div 256 <= y \div 256
  OBVIOUS
<1>3. /\ second \in Nat /\ n = second * 256 + (n % 256)
      /\ third \in Nat /\ second = third * 256 + (second % 256)
      /\ high \in Nat /\ third = high * 256 + (third % 256)
  BY <1>1
<1>4. high < 256
  <2> DEFINE m == MaxFrameBytes
             m2 == m \div 256
             m3 == m2 \div 256
             m4 == m3 \div 256
  <2>1. m \in Nat /\ m4 < 256
    BY FrameLimit
  <2>2. m2 \in Nat /\ m3 \in Nat /\ m4 \in Nat
    BY <1>1, <2>1
  <2>3. second <= m2 /\ third <= m3 /\ high <= m4
    <3>1. second <= m2
      BY <1>2, <2>1
    <3>2. third <= m3
      BY <1>2, <1>3, <2>2, <3>1
    <3>3. high <= m4
      BY <1>2, <1>3, <2>2, <3>2
    <3> QED BY <3>1, <3>2, <3>3
  <2> HIDE DEF high, m4
  <2> QED BY <1>3, <2>1, <2>2, <2>3
<1>5. high % 256 = high
  <2> HIDE DEF high
  <2> QED BY <1>3, <1>4
<1>6. /\ n % 256 \in Bytes /\ second % 256 \in Bytes
      /\ third % 256 \in Bytes /\ high % 256 \in Bytes
  BY <1>1, <1>3
<1> HIDE DEF second, third, high
<1>7. (((high % 256) * 256 + (third % 256)) * 256 + (second % 256)) * 256 + (n % 256) = n
  BY <1>3, <1>5
<1> QED BY <1>6, <1>7 DEF second, third, high

(* EncodeFrame writes what Push takes: the payload comes back, however it   *)
(* is followed.                                                             *)
THEOREM FrameComesBack ==
  ASSUME NEW payload \in Seq(Bytes), Len(payload) <= MaxFrameBytes, NEW b \in Seq(Bytes)
  PROVE  /\ EncodeFrame(payload) \in Seq(Bytes)
         /\ Len(EncodeFrame(payload)) = 4 + Len(payload)
         /\ LET rest == Drain[b]
            IN  Drain[EncodeFrame(payload) \o b] =
                  [rest EXCEPT !.frames = IF rest.failed THEN <<>> ELSE <<payload>> \o @]
<1> DEFINE n == Len(payload)
           second == n \div 256
           third == second \div 256
           high == third \div 256
           d == <<high % 256, third % 256, second % 256, n % 256>>
           e == EncodeFrame(payload)
           x == e \o b
<1>1. /\ n \in Nat
      /\ n % 256 \in Bytes /\ second % 256 \in Bytes
      /\ third % 256 \in Bytes /\ high % 256 \in Bytes
      /\ (((high % 256) * 256 + (third % 256)) * 256 + (second % 256)) * 256 + (n % 256) = n
  BY Digits
<1>2. e = d \o payload
  BY DEF EncodeFrame
<1> HIDE DEF second, third, high
<1>3. /\ d \in Seq(Bytes) /\ Len(d) = 4 /\ d[1] = high % 256 /\ d[2] = third % 256
      /\ d[3] = second % 256 /\ d[4] = n % 256
  BY <1>1
<1>4. ReadBigEndianLength(d) = n
  BY <1>1, <1>3 DEF ReadBigEndianLength
<1> HIDE DEF d, n, e
<1>5. /\ e \in Seq(Bytes) /\ Len(e) = 4 + n /\ ReadBigEndianLength(e) = n
      /\ \A i \in 1..n : e[4 + i] = payload[i]
  <2>1. n = Len(payload)
    BY DEF n
  <2>2. /\ e \in Seq(Bytes) /\ Len(e) = Len(d) + Len(payload)
        /\ \A i \in 1..Len(payload) : e[Len(d) + i] = payload[i]
        /\ ReadBigEndianLength(e) = ReadBigEndianLength(d)
    <3>1. d \in Seq(Bytes) /\ payload \in Seq(Bytes) /\ Len(d) >= 4
      BY <1>3
    <3> QED BY <1>2, <3>1, BytesFollow
  <2> QED BY <1>3, <1>4, <2>1, <2>2
<1>6. Complete(e) /\ FrameEnd(e) = 4 + n
  BY <1>1, <1>5 DEF Complete, FrameEnd, n
<1>7. Payload(e) = payload
  <2>1. Payload(e) \in Seq(Bytes) /\ Len(Payload(e)) = n /\ \A i \in 1..n : Payload(e)[i] = payload[i]
    BY <1>5, <1>6, BehindFrame
  <2> HIDE DEF Bytes
  <2> QED BY <2>1, SeqEqual DEF n
<1>8. Behind(e) = <<>>
  <2>1. Behind(e) \in Seq(Bytes) /\ Len(Behind(e)) = 0
    BY <1>1, <1>5, <1>6, BehindFrame
  <2> QED BY <2>1
<1>9. /\ Complete(x) /\ Payload(x) = payload /\ Behind(x) = b /\ x \in Seq(Bytes)
  <2>1. <<>> \o b = b
    <3> HIDE DEF Bytes
    <3> QED BY ConcatEmptySeq
  <2> QED BY <1>5, <1>6, <1>7, <1>8, <2>1, FrameFollowed, BytesFollow
<1> HIDE DEF x
<1>10. Drain[x] = [Drain[b] EXCEPT !.frames =
                     IF Drain[b].failed THEN <<>> ELSE <<payload>> \o Drain[b].frames]
  BY <1>9, Outcomes
<1> QED BY <1>5, <1>10 DEF x, e, n

----------------------------------------------------------------------------
(* The server: its types.                                                   *)

Handlers == {"accepted", "failed", "marked", "stop", "aborted"}

WorkerFields == {"at", "job", "events", "failed"}

Busy == {"lock", "events", "consume", "upsert"}

(* TypeOK and more, but for what the decoder yields. *)
Types ==
  /\ acceptor \in {"armed", "idle", "closed"}
  /\ sessions \subseteq Connections
  /\ phase \in
       [Connections -> {"away", "knocking", "accepted", "open", "closed", "refused"}]
  /\ owner \in [Connections -> Agents \cup {Nil}]
  /\ DOMAIN pieces = Connections
  /\ received \in [Connections -> Nat]
  /\ reading \in [Connections -> BOOLEAN]
  /\ marking \in [Connections -> BOOLEAN]
  /\ done \in [Connections -> BOOLEAN]
  /\ inbox \in [Connections -> Seq(Handlers)]
  /\ current \in [Agents -> Connections \cup {Nil}]
  /\ tasks \in Seq(Jobs)
  /\ DOMAIN worker = Workers
  /\ \A w \in Workers :
       /\ DOMAIN worker[w] = WorkerFields
       /\ worker[w].at \in {"idle", "ended"} \cup Busy
       /\ worker[w].at \in Busy => worker[w].job \in Jobs
  /\ ran \subseteq Jobs /\ poolRefused \subseteq Jobs
  /\ writes \in Seq(Writes) /\ writing \subseteq Writes
  /\ wrote \in [Writes -> {"", "ok", "rejected", "failed"}]
  /\ token \in [status : {"active", "consumed", "revoked"}, uses : Nat]
  /\ agents \in [Agents -> {"none", "online", "offline"}]
  /\ stopper \in [at : Range(StopPoints), swept : SUBSET Connections,
                  underway : SUBSET Connections, timedOut : BOOLEAN]

(* A piece is handed in once, with the number it was received under. *)
Numbered(j) == j[2] <= received[j[1]]

PiecesOK ==
  /\ \A c \in Connections :
       /\ Len(pieces[c]) \in 0..2 /\ received[c] <= Len(pieces[c])
       /\ phase[c] \in {"away", "knocking", "accepted", "refused"} => received[c] = 0
  /\ \A j \in Jobs : In(tasks, j) \/ j \in ran \cup poolRefused => Numbered(j)
  /\ \A w \in Workers : worker[w].at \in Busy => Numbered(worker[w].job)

(* Nobody submits a write any more when the write actor stops. *)
StopOK == ActorStopping => \A w \in Workers : worker[w].at = "ended"

Basics == Types /\ PiecesOK /\ StopOK

(* The points of Stop, in their order. *)
LEMMA StopOrder ==
  ASSUME stopper.at \in Range(StopPoints)
  PROVE  /\ stopper.at \in {"running", "closing", "waiting", "pool", "db", "stopped"}
         /\ Stopping <=> stopper.at # "running"
         /\ IoStopped <=> stopper.at \in {"pool", "db", "stopped"}
         /\ PoolStopping <=> stopper.at \in {"pool", "db", "stopped"}
         /\ ActorStopping <=> stopper.at \in {"db", "stopped"}
<1> DEFINE N(p) == CHOOSE i \in DOMAIN StopPoints : StopPoints[i] = p
<1>1. /\ DOMAIN StopPoints = 1..6
      /\ StopPoints[1] = "running" /\ StopPoints[2] = "closing"
      /\ StopPoints[3] = "waiting" /\ StopPoints[4] = "pool"
      /\ StopPoints[5] = "db" /\ StopPoints[6] = "stopped"
  BY DEF StopPoints
<1>2. /\ N("running") = 1 /\ N("closing") = 2 /\ N("waiting") = 3
      /\ N("pool") = 4 /\ N("db") = 5 /\ N("stopped") = 6
  BY <1>1
<1>3. stopper.at \in {"running", "closing", "waiting", "pool", "db", "stopped"}
  BY <1>1 DEF Range
<1>4. \A p : Reached(p) <=> N(stopper.at) >= N(p)
  BY DEF Reached
<1> HIDE DEF N
<1> QED BY <1>2, <1>3, <1>4 DEF Stopping, IoStopped, PoolStopping, ActorStopping

(* The same as one formula, to be used of the state after a step. *)
PointsOK ==
  /\ stopper.at \in {"running", "closing", "waiting", "pool", "db", "stopped"}
  /\ Stopping <=> stopper.at # "running"
  /\ IoStopped <=> stopper.at \in {"pool", "db", "stopped"}
  /\ ActorStopping <=> stopper.at \in {"db", "stopped"}

(* See above. *)
LEMMA Points == Types => PointsOK
BY StopOrder DEF Types, PointsOK

(* See above. *)
LEMMA StopOrderNext ==
  ASSUME Types'
  PROVE  /\ stopper'.at \in {"running", "closing", "waiting", "pool", "db", "stopped"}
         /\ Stopping' <=> stopper'.at # "running"
         /\ IoStopped' <=> stopper'.at \in {"pool", "db", "stopped"}
         /\ ActorStopping' <=> stopper'.at \in {"db", "stopped"}
<1>1. PointsOK'
  BY Points, PTL
<1> QED BY <1>1 DEF PointsOK

----------------------------------------------------------------------------
(* What the threads of the pool do. *)

WorkerChange(w, at, job) ==
  /\ DOMAIN worker' = Workers /\ DOMAIN worker'[w] = WorkerFields
  /\ worker'[w].at = at /\ worker'[w].job = job
  /\ \A v \in Workers \ {w} : worker'[v] = worker[v]

(* Connection c becomes its agent's, or nothing changes. *)
Binds(c) ==
  \/ current' = current
  \/ agents[owner[c]] # "none" /\ current' = [current EXCEPT ![owner[c]] = c]
  \/ wrote[Write("upsert", c)] = "ok" /\ current' = [current EXCEPT ![owner[c]] = c]

(* The step of one worker leaves the others where they are. *)
LEMMA WorkerSet ==
  ASSUME Types, NEW w \in Workers, NEW r, NEW at, NEW job,
         DOMAIN r = WorkerFields, r.at = at, r.job = job,
         worker' = [worker EXCEPT ![w] = r]
  PROVE  WorkerChange(w, at, job)
<1>1. /\ DOMAIN worker' = Workers /\ worker'[w] = r
      /\ \A v \in Workers \ {w} : worker'[v] = worker[v]
  BY DEF Types
<1> QED BY <1>1 DEF WorkerChange

(* A worker that moves on with its task. *)
LEMMA WorkerMoves ==
  ASSUME Types, NEW w \in Workers, NEW at, worker' = [worker EXCEPT ![w].at = at]
  PROVE  WorkerChange(w, at, worker[w].job)
<1> DEFINE r == [worker[w] EXCEPT !.at = at]
<1>0. DOMAIN worker[w] = WorkerFields
  BY DEF Types
<1>1. DOMAIN r = WorkerFields /\ r.at = at /\ r.job = worker[w].job
  BY <1>0 DEF WorkerFields
<1>2. worker' = [worker EXCEPT ![w] = r]
  BY DEF Types
<1> HIDE DEF r
<1> QED BY <1>1, <1>2, WorkerSet

(* An event of the loop is over. *)
LEMMA EventDoneEffect ==
  ASSUME Types, NEW w \in Workers, NEW ok \in BOOLEAN, EventDone(w, ok)
  PROVE  /\ WorkerChange(w, "events", worker[w].job)
         /\ current' = IF ok THEN [current EXCEPT ![owner[ConnOf(w)]] = ConnOf(w)]
                       ELSE current
<1> DEFINE r == [worker[w] EXCEPT !.at = "events", !.failed = worker[w].failed \/ ~ok,
                                  !.events = Tail(worker[w].events)]
<1>0. DOMAIN worker[w] = WorkerFields
  BY DEF Types
<1>1. DOMAIN r = WorkerFields /\ r.at = "events" /\ r.job = worker[w].job
  BY <1>0 DEF WorkerFields
<1>2. worker' = [worker EXCEPT ![w] = r]
  <2>1. DOMAIN worker = Workers
    BY DEF Types
  <2>2. worker' = [worker EXCEPT ![w].at = "events",
                                 ![w].failed = @ \/ ~ok,
                                 ![w].events = Tail(@)]
    BY DEF EventDone
  <2> QED BY <2>1, <2>2
<1> HIDE DEF r
<1>3. WorkerChange(w, "events", worker[w].job)
  BY <1>1, <1>2, WorkerSet
<1>4. current' = IF ok THEN [current EXCEPT ![owner[ConnOf(w)]] = ConnOf(w)]
                 ELSE current
  BY DEF EventDone
<1> QED BY <1>3, <1>4

(* A task is taken, and its piece decoded. *)
LEMMA TakeEffect ==
  ASSUME Types, NEW w \in Workers, WorkerTake(w)
  PROVE  /\ WorkerChange(w, "lock", Head(tasks)) /\ tasks' = Tail(tasks)
         /\ worker[w].at = "idle" /\ tasks # <<>>
<1> DEFINE r == [Idle EXCEPT !.at = "lock", !.job = Head(tasks)]
<1>1. DOMAIN r = WorkerFields /\ r.at = "lock" /\ r.job = Head(tasks)
  BY DEF Idle, WorkerFields
<1>2. worker' = [worker EXCEPT ![w] = r]
  BY DEF WorkerTake
<1> HIDE DEF r
<1> QED BY <1>1, <1>2, WorkerSet DEF WorkerTake

(* See above. *)
LEMMA DecodeEffect ==
  ASSUME Types, NEW w \in Workers, WorkerDecode(w)
  PROVE  /\ WorkerChange(w, "events", worker[w].job) /\ worker[w].at = "lock"
         /\ ~ \E v \in Workers : Holds(v, ConnOf(w))
<1> DEFINE c == ConnOf(w)
           result == Push(decoder[c], pieces[c][worker[w].job[2]])
           failed == result.failed
                  \/ \E frame \in Range(result.frames) :
                       Len(frame) # 1 \/ frame[1] \notin DOMAIN Event
           events == IF failed THEN <<>>
                     ELSE [i \in DOMAIN result.frames |-> Event[result.frames[i][1]]]
           r == [worker[w] EXCEPT !.at = "events", !.failed = failed, !.events = events]
<1>1. worker' = [worker EXCEPT ![w].at = "events", ![w].failed = failed,
                               ![w].events = events]
      /\ worker[w].at = "lock" /\ ~ \E v \in Workers : Holds(v, c)
  BY DEF WorkerDecode
<1> HIDE DEF failed, events, c
<1>0. DOMAIN worker = Workers /\ DOMAIN worker[w] = WorkerFields
  BY DEF Types
<1>2. DOMAIN r = WorkerFields /\ r.at = "events" /\ r.job = worker[w].job
  BY <1>0 DEF WorkerFields
<1>3. worker' = [worker EXCEPT ![w] = r]
  BY <1>0, <1>1
<1> HIDE DEF r
<1>4. WorkerChange(w, "events", worker[w].job)
  BY <1>2, <1>3, WorkerSet
<1> QED BY <1>1, <1>4 DEF c

(* A write is queued as long as a thread of the pool is there. *)
LEMMA SubmitEffect ==
  ASSUME Types, StopOK, NEW w \in Workers, worker[w].at # "ended", NEW j, Submit(j)
  PROVE  writes' = Append(writes, j) /\ UNCHANGED <<writing, wrote>>
<1>1. ~ActorStopping
  BY DEF StopOK
<1> QED BY <1>1 DEF Submit

(* The next event of a batch. *)
LEMMA EventEffect ==
  ASSUME Types, StopOK, NEW w \in Workers, WorkerEvent(w)
  PROVE  LET c == ConnOf(w) IN
         /\ worker[w].at = "events"
         /\ \/ /\ WorkerChange(w, "events", worker[w].job)
               /\ Binds(c) /\ UNCHANGED actorVars
            \/ /\ WorkerChange(w, "upsert", worker[w].job)
               /\ agents[owner[c]] # "none" /\ UNCHANGED <<current, writing, wrote>>
               /\ writes' = Append(writes, Write("upsert", c))
            \/ /\ WorkerChange(w, "consume", worker[w].job)
               /\ agents[owner[c]] = "none" /\ UNCHANGED <<current, writing, wrote>>
               /\ writes' = Append(writes, Write("consume", c))
<1> DEFINE c == ConnOf(w)
           known == agents[owner[c]] # "none"
           write == IF known THEN "upsert" ELSE "consume"
<1>0. worker[w].at = "events"
  BY DEF WorkerEvent
<1>1. CASE Head(worker[w].events) = "heartbeat"
  <2>1. EventDone(w, known) /\ UNCHANGED actorVars
    BY <1>1 DEF WorkerEvent
  <2>2. known \in BOOLEAN
    OBVIOUS
  <2>3. /\ WorkerChange(w, "events", worker[w].job)
        /\ current' = IF known THEN [current EXCEPT ![owner[c]] = c] ELSE current
    BY <2>1, <2>2, EventDoneEffect
  <2> QED BY <1>0, <2>1, <2>3 DEF Binds
<1>2. CASE Head(worker[w].events) # "heartbeat"
  <2>1. /\ worker' = [worker EXCEPT ![w].at = write]
        /\ Submit(Write(write, c)) /\ UNCHANGED current
    BY <1>2 DEF WorkerEvent
  <2>2. WorkerChange(w, write, worker[w].job)
    BY <2>1, WorkerMoves
  <2>3. writes' = Append(writes, Write(write, c)) /\ UNCHANGED <<writing, wrote>>
    BY <1>0, <2>1, SubmitEffect
  <2> QED BY <1>0, <2>1, <2>2, <2>3
<1> QED BY <1>1, <1>2

(* The token's answer is there. *)
LEMMA ConsumedEffect ==
  ASSUME Types, StopOK, NEW w \in Workers, WorkerConsumed(w)
  PROVE  LET c == ConnOf(w) IN
         /\ worker[w].at = "consume" /\ wrote[Write("consume", c)] # ""
         /\ \/ /\ WorkerChange(w, "upsert", worker[w].job)
               /\ wrote[Write("consume", c)] = "ok" /\ UNCHANGED <<current, writing, wrote>>
               /\ writes' = Append(writes, Write("upsert", c))
            \/ /\ WorkerChange(w, "events", worker[w].job)
               /\ wrote[Write("consume", c)] # "ok" /\ UNCHANGED <<current, actorVars>>
<1> DEFINE c == ConnOf(w)
           result == wrote[Write("consume", c)]
<1>0. worker[w].at = "consume" /\ result # ""
  BY DEF WorkerConsumed
<1>1. CASE result = "ok"
  <2>1. /\ worker' = [worker EXCEPT ![w].at = "upsert"]
        /\ Submit(Write("upsert", c)) /\ UNCHANGED current
    BY <1>1 DEF WorkerConsumed
  <2>2. WorkerChange(w, "upsert", worker[w].job)
    BY <2>1, WorkerMoves
  <2>3. writes' = Append(writes, Write("upsert", c)) /\ UNCHANGED <<writing, wrote>>
    BY <1>0, <2>1, SubmitEffect
  <2> QED BY <1>0, <1>1, <2>1, <2>2, <2>3
<1>2. CASE result # "ok"
  <2>1. EventDone(w, FALSE) /\ UNCHANGED actorVars
    BY <1>2 DEF WorkerConsumed
  <2>2. WorkerChange(w, "events", worker[w].job) /\ current' = current
    BY <2>1, EventDoneEffect
  <2> QED BY <1>0, <1>2, <2>1, <2>2
<1> QED BY <1>1, <1>2

(* The row of the agent is written. *)
LEMMA UpsertedEffect ==
  ASSUME Types, NEW w \in Workers, WorkerUpserted(w)
  PROVE  LET c == ConnOf(w) IN
         /\ worker[w].at = "upsert" /\ wrote[Write("upsert", c)] # ""
         /\ WorkerChange(w, "events", worker[w].job)
         /\ Binds(c) /\ UNCHANGED actorVars
<1> DEFINE c == ConnOf(w)
           ok == wrote[Write("upsert", c)] = "ok"
<1>1. worker[w].at = "upsert" /\ wrote[Write("upsert", c)] # "" /\ UNCHANGED actorVars
      /\ EventDone(w, ok)
  BY DEF WorkerUpserted
<1>2. ok \in BOOLEAN
  OBVIOUS
<1>3. /\ WorkerChange(w, "events", worker[w].job)
      /\ current' = IF ok THEN [current EXCEPT ![owner[c]] = c] ELSE current
  BY <1>1, <1>2, EventDoneEffect
<1> QED BY <1>1, <1>3 DEF Binds

(* A task returns, a thread ends. *)
LEMMA FinishEffect ==
  ASSUME Types, NEW w \in Workers, WorkerFinish(w)
  PROVE  /\ WorkerChange(w, "idle", Nil) /\ worker[w].at = "events"
         /\ ran' = ran \cup {worker[w].job}
         /\ \E h \in {"failed", "accepted"} : Post(ConnOf(w), h)
<1>1. DOMAIN Idle = WorkerFields /\ Idle.at = "idle" /\ Idle.job = Nil
  BY DEF Idle, WorkerFields
<1>2. worker' = [worker EXCEPT ![w] = Idle] /\ worker[w].at = "events"
      /\ ran' = ran \cup {worker[w].job}
      /\ \E h \in {"failed", "accepted"} : Post(ConnOf(w), h)
  BY DEF WorkerFinish
<1>3. WorkerChange(w, "idle", Nil)
  <2> HIDE DEF Idle
  <2> QED BY <1>1, <1>2, WorkerSet
<1> QED BY <1>2, <1>3

(* See above. *)
LEMMA EndEffect ==
  ASSUME Types, NEW w \in Workers, WorkerEnd(w)
  PROVE  /\ WorkerChange(w, "ended", worker[w].job) /\ worker[w].at = "idle"
         /\ tasks = <<>> /\ PoolStopping
BY WorkerMoves DEF WorkerEnd

----------------------------------------------------------------------------
(* What a session and the write actor do. *)

(* A handler is appended, unless the io is stopped. *)
LEMMA PostEffect ==
  ASSUME Types, NEW c \in Connections, NEW h \in Handlers, Post(c, h)
  PROVE  /\ inbox' \in [Connections -> Seq(Handlers)]
         /\ inbox'[c] = IF IoStopped THEN inbox[c] ELSE Append(inbox[c], h)
         /\ \A d \in Connections \ {c} : inbox'[d] = inbox[d]
<1>1. inbox \in [Connections -> Seq(Handlers)] /\ inbox[c] \in Seq(Handlers)
  BY DEF Types
<1>2. Append(inbox[c], h) \in Seq(Handlers)
  BY <1>1
<1> QED BY <1>1, <1>2 DEF Post

(* A batch comes in at most two pieces. *)
LEMMA PiecesLength ==
  ASSUME NEW cut
  PROVE  Len(Pieces(cut)) \in 0..2
<1> DEFINE a == SubSeq(Batch, 1, cut)
           b == SubSeq(Batch, cut + 1, Len(Batch))
<1>1. Pieces(cut) \in {<<>>, <<a, b>>, <<Batch>>}
  BY DEF Pieces
<1> HIDE DEF a, b
<1>2. Len(<<>>) = 0 /\ Len(<<a, b>>) = 2 /\ Len(<<Batch>>) = 1
  OBVIOUS
<1> QED BY <1>1, <1>2

(* Close, before the io stops: the offline mark is queued. *)
LEMMA CloseEffect ==
  ASSUME Types, NEW c \in Connections, NEW still \in BOOLEAN,
         NEW rest \in Seq(Handlers), ~IoStopped, Close(c, still, rest)
  PROVE  LET mine == current[owner[c]] = c IN
         /\ phase' = [phase EXCEPT ![c] = "closed"]
         /\ reading' = [reading EXCEPT ![c] = still]
         /\ marking' = [marking EXCEPT ![c] = mine]
         /\ done' = [done EXCEPT ![c] = done[c] \/ (~still /\ ~mine)]
         /\ inbox' \in [Connections -> Seq(Handlers)]
         /\ inbox'[c] = rest \/ inbox'[c] = Append(rest, "aborted")
         /\ \A d \in Connections \ {c} : inbox'[d] = inbox[d]
         /\ current' = current \/ current' = [current EXCEPT ![owner[c]] = Nil]
         /\ writes' = IF mine THEN Append(writes, Write("offline", c)) ELSE writes
         /\ UNCHANGED <<writing, wrote>>
<1> DEFINE mine == current[owner[c]] = c
           new == rest \o (IF still THEN <<"aborted">> ELSE <<>>)
<1>1. ~ActorStopping
  BY StopOrder DEF Types
<1>2. new = IF still THEN Append(rest, "aborted") ELSE rest
  OBVIOUS
<1>3. inbox' = [inbox EXCEPT ![c] = new] /\ new \in Seq(Handlers)
  <2>1. inbox' = [inbox EXCEPT ![c] = new]
    BY DEF Close
  <2>2. "aborted" \in Handlers
    BY DEF Handlers
  <2>3. Append(rest, "aborted") \in Seq(Handlers)
    BY <2>2
  <2> HIDE DEF new
  <2> QED BY <1>2, <2>1, <2>3
<1>4. /\ inbox' \in [Connections -> Seq(Handlers)] /\ inbox'[c] = new
      /\ \A d \in Connections \ {c} : inbox'[d] = inbox[d]
  <2> HIDE DEF new
  <2> QED BY <1>3 DEF Types
<1>5. current' = current \/ current' = [current EXCEPT ![owner[c]] = Nil]
  <2>1. current' = [current EXCEPT ![owner[c]] = IF mine THEN Nil ELSE @]
    BY DEF Close
  <2>2. ~mine => current' = current
    BY <2>1 DEF Types
  <2> QED BY <2>1, <2>2
<1>6. /\ writes' = IF mine THEN Append(writes, Write("offline", c)) ELSE writes
      /\ UNCHANGED <<writing, wrote>>
  BY <1>1 DEF Close, Submit, actorVars
<1>7. /\ phase' = [phase EXCEPT ![c] = "closed"]
      /\ reading' = [reading EXCEPT ![c] = still]
      /\ marking' = [marking EXCEPT ![c] = mine]
      /\ done' = [done EXCEPT ![c] = done[c] \/ (~still /\ ~mine)]
  BY DEF Close, Done, Types
<1> HIDE DEF mine, new
<1> QED BY <1>2, <1>4, <1>5, <1>6, <1>7 DEF mine

(* The sessions' steps that end one: the end of the connection, or Stop. *)
LEMMA CloseSteps ==
  ASSUME Types, NEW c \in Connections,
         OnEof(c) \/ (OnStop(c) /\ phase[c] # "closed")
  PROVE  \E still \in BOOLEAN, rest \in Seq(Handlers) :
           /\ Close(c, still, rest) /\ ~IoStopped
           /\ UNCHANGED <<acceptVars, peerVars, received, pending, hasError,
                          answer, poolVars, dbVars, stopper>>
           /\ \/ phase[c] = "open" /\ rest = inbox[c]
              \/ /\ rest = Tail(inbox[c]) /\ inbox[c] # <<>>
                 /\ Head(inbox[c]) = "stop" /\ phase[c] # "closed"
<1>1. inbox[c] \in Seq(Handlers)
  BY DEF Types
<1>2. inbox[c] # <<>> => Tail(inbox[c]) \in Seq(Handlers)
  BY <1>1
<1> QED BY <1>1, <1>2 DEF OnEof, OnStop

(* What the write actor does with a write. *)
LEMMA RunEffect ==
  ASSUME Types, ActorRun
  PROVE  \E j \in writing :
           /\ writing' = {} /\ UNCHANGED writes
           /\ wrote' \in [Writes -> {"", "ok", "rejected", "failed"}]
           /\ \A i \in Writes \ {j} : wrote'[i] = wrote[i]
           /\ inbox' \in [Connections -> Seq(Handlers)]
           /\ \A d \in Connections :
                inbox'[d] = IF d = j.conn /\ j.op = "offline" /\ ~IoStopped
                            THEN Append(inbox[d], "marked") ELSE inbox[d]
           /\ \/ /\ j.op = "consume" /\ UNCHANGED agents
                 /\ \/ /\ token.status = "active" /\ token.uses < MaxUses
                       /\ wrote'[j] = "ok" /\ token'.uses = token.uses + 1
                       /\ token' \in [status : {"active", "consumed", "revoked"}, uses : Nat]
                    \/ wrote'[j] = "rejected" /\ UNCHANGED token
              \/ /\ j.op = "upsert" /\ wrote'[j] = "ok" /\ UNCHANGED token
                 /\ agents' = [agents EXCEPT ![owner[j.conn]] = "online"]
              \/ /\ j.op = "offline" /\ wrote'[j] = "ok" /\ UNCHANGED token
                 /\ agents' = [agents EXCEPT ![owner[j.conn]] = "offline"]
              \/ wrote'[j] = "failed" /\ UNCHANGED <<token, agents>>
<1>1. PICK j \in writing :
    /\ writing' = {} /\ UNCHANGED writes
    /\ \/ /\ j.op = "consume"
          /\ ConsumeRegistrationToken(j.conn) /\ UNCHANGED agents
       \/ /\ j.op # "consume"
          /\ agents' = [agents EXCEPT ![owner[j.conn]] =
                          IF j.op = "upsert" THEN "online" ELSE "offline"]
          /\ wrote' = [wrote EXCEPT ![j] = "ok"] /\ UNCHANGED token
       \/ wrote' = [wrote EXCEPT ![j] = "failed"] /\ UNCHANGED <<token, agents>>
    /\ IF j.op = "offline" THEN Post(j.conn, "marked") ELSE UNCHANGED inbox
  BY DEF ActorRun, dbVars
<1>2. /\ j \in Writes /\ j.conn \in Connections /\ j = Write(j.op, j.conn)
      /\ j.op \in {"consume", "upsert", "offline"}
  BY <1>1 DEF Types, Writes, Write
<1>3. /\ wrote \in [Writes -> {"", "ok", "rejected", "failed"}]
      /\ inbox \in [Connections -> Seq(Handlers)]
      /\ token \in [status : {"active", "consumed", "revoked"}, uses : Nat]
  BY DEF Types
<1>4. /\ inbox' \in [Connections -> Seq(Handlers)]
      /\ \A d \in Connections :
           inbox'[d] = IF d = j.conn /\ j.op = "offline" /\ ~IoStopped
                       THEN Append(inbox[d], "marked") ELSE inbox[d]
  <2>1. CASE j.op = "offline"
    BY <1>1, <1>2, <2>1, PostEffect DEF Handlers
  <2>2. CASE j.op # "offline"
    BY <1>1, <1>3, <2>2
  <2> QED BY <2>1, <2>2
<1>5. ASSUME NEW result \in {"ok", "rejected", "failed"},
             wrote' = [wrote EXCEPT ![j] = result]
      PROVE  /\ wrote' \in [Writes -> {"", "ok", "rejected", "failed"}] /\ wrote'[j] = result
             /\ \A i \in Writes \ {j} : wrote'[i] = wrote[i]
  BY <1>2, <1>3, <1>5
<1>6. CASE j.op = "consume" /\ ConsumeRegistrationToken(j.conn) /\ UNCHANGED agents
  <2>1. CASE token.status = "active" /\ token.uses < MaxUses
    <3>1. /\ token' = [token EXCEPT
                      !.uses = @ + 1,
                      !.status = IF token.uses + 1 >= MaxUses
                                 THEN "consumed" ELSE @]
          /\ wrote' = [wrote EXCEPT ![j] = "ok"]
      BY <1>2, <1>6, <2>1 DEF ConsumeRegistrationToken
    <3>2. /\ token'.uses = token.uses + 1
          /\ token' \in [status : {"active", "consumed", "revoked"}, uses : Nat]
      <4> DEFINE s == IF token.uses + 1 >= MaxUses THEN "consumed" ELSE token.status
      <4>1. token' = [token EXCEPT !.uses = token.uses + 1, !.status = s]
        BY <1>3, <3>1
      <4>2. s \in {"active", "consumed", "revoked"} /\ token.uses + 1 \in Nat
        <5>1. token.status \in {"active", "consumed", "revoked"} /\ token.uses \in Nat
          BY <1>3
        <5> QED BY <5>1
      <4> HIDE DEF s
      <4> QED BY <1>3, <4>1, <4>2
    <3>3. /\ wrote' \in [Writes -> {"", "ok", "rejected", "failed"}] /\ wrote'[j] = "ok"
          /\ \A i \in Writes \ {j} : wrote'[i] = wrote[i]
      BY <1>5, <3>1
    <3> QED BY <1>1, <1>4, <1>6, <2>1, <3>2, <3>3
  <2>2. CASE ~(token.status = "active" /\ token.uses < MaxUses)
    <3>1. wrote' = [wrote EXCEPT ![j] = "rejected"] /\ UNCHANGED token
      BY <1>2, <1>6, <2>2 DEF ConsumeRegistrationToken
    <3>2. /\ wrote' \in [Writes -> {"", "ok", "rejected", "failed"}] /\ wrote'[j] = "rejected"
          /\ \A i \in Writes \ {j} : wrote'[i] = wrote[i]
      BY <1>5, <3>1
    <3> QED BY <1>1, <1>4, <1>6, <3>1, <3>2
  <2> QED BY <2>1, <2>2
<1>7. CASE /\ j.op # "consume"
           /\ agents' = [agents EXCEPT ![owner[j.conn]] =
                           IF j.op = "upsert" THEN "online" ELSE "offline"]
           /\ wrote' = [wrote EXCEPT ![j] = "ok"] /\ UNCHANGED token
  <2>1. /\ wrote' \in [Writes -> {"", "ok", "rejected", "failed"}] /\ wrote'[j] = "ok"
        /\ \A i \in Writes \ {j} : wrote'[i] = wrote[i]
    BY <1>5, <1>7
  <2>2. \/ j.op = "upsert" /\ agents' = [agents EXCEPT ![owner[j.conn]] = "online"]
        \/ j.op = "offline" /\ agents' = [agents EXCEPT ![owner[j.conn]] = "offline"]
    BY <1>2, <1>7
  <2> QED BY <1>1, <1>4, <1>7, <2>1, <2>2
<1>8. CASE wrote' = [wrote EXCEPT ![j] = "failed"] /\ UNCHANGED <<token, agents>>
  <2>1. /\ wrote' \in [Writes -> {"", "ok", "rejected", "failed"}] /\ wrote'[j] = "failed"
        /\ \A i \in Writes \ {j} : wrote'[i] = wrote[i]
    BY <1>5, <1>8
  <2> QED BY <1>1, <1>4, <1>8, <2>1
<1> QED BY <1>1, <1>6, <1>7, <1>8

----------------------------------------------------------------------------
(* Types, numbers of pieces and the order of Stop, along every step. *)

(* What the steps of workers leave alone. *)
WorkerFrame ==
  UNCHANGED <<acceptVars, peerVars, sessionVars, poolRefused, dbVars, stopper>>

(* A worker's own entry, after its step. *)
LEMMA WorkerTypes ==
  ASSUME Types, NEW w \in Workers, NEW at \in {"idle", "ended"} \cup Busy, NEW job,
         at \in Busy => job \in Jobs, WorkerChange(w, at, job), WorkerFrame,
         inbox' \in [Connections -> Seq(Handlers)],
         current' \in [Agents -> Connections \cup {Nil}],
         tasks' \in Seq(Jobs), ran' \subseteq Jobs,
         writes' \in Seq(Writes), UNCHANGED <<writing, wrote>>
  PROVE  Types'
<1>1. \A v \in Workers :
        /\ DOMAIN worker'[v] = WorkerFields
        /\ worker'[v].at \in {"idle", "ended"} \cup Busy
        /\ worker'[v].at \in Busy => worker'[v].job \in Jobs
  BY DEF Types, WorkerChange
<1>2. DOMAIN worker' = Workers
  BY DEF WorkerChange
<1> QED BY <1>1, <1>2
        DEF Types, WorkerFrame, acceptVars, peerVars, sessionVars, dbVars

(* A binding is to a connection. *)
LEMMA BindsType ==
  ASSUME Types, NEW c \in Connections, Binds(c)
  PROVE  current' \in [Agents -> Connections \cup {Nil}]
BY DEF Types, Binds

(* The steps of a worker of the pool. *)
LEMMA WorkerBasics ==
  ASSUME Basics, NEW w \in Workers, WorkerStep(w)
  PROVE  Basics' /\ WorkerFrame
<1>0. /\ Types /\ PiecesOK /\ StopOK /\ WorkerFrame
      /\ WorkerFinish(w) \/ UNCHANGED <<inbox, ran>>
      /\ WorkerTake(w) \/ UNCHANGED tasks
  BY DEF Basics, WorkerStep, WorkerTake, WorkerDecode, WorkerEvent, WorkerConsumed,
         WorkerUpserted, WorkerFinish, WorkerEnd, WorkerFrame, poolVars
<1>1. /\ inbox \in [Connections -> Seq(Handlers)] /\ tasks \in Seq(Jobs)
      /\ current \in [Agents -> Connections \cup {Nil}] /\ ran \subseteq Jobs
      /\ writes \in Seq(Writes)
      /\ worker[w].at \in Busy => worker[w].job \in Jobs /\ ConnOf(w) \in Connections
      /\ \A op \in {"consume", "upsert", "offline"}, c \in Connections : Write(op, c) \in Writes
  BY <1>0 DEF Types, ConnOf, Jobs, Write, Writes
<1>2. ASSUME \A v \in Workers : worker'[v].at \in Busy =>
               \/ worker[v].at \in Busy /\ worker'[v].job = worker[v].job
               \/ In(tasks, worker'[v].job) /\ worker'[v].job \in Jobs,
             worker[w].at # "ended",
             \A j \in Jobs : In(tasks', j) => In(tasks, j),
             \/ ran' = ran
             \/ worker[w].at \in Busy /\ ran' = ran \cup {worker[w].job},
             Types'
      PROVE  Basics'
  <2>1. PiecesOK'
    <3>1. /\ \A j \in Jobs : In(tasks, j) \/ j \in ran \cup poolRefused => Numbered(j)
          /\ \A v \in Workers : worker[v].at \in Busy => Numbered(worker[v].job)
          /\ received' = received /\ poolRefused' = poolRefused
      BY <1>0 DEF PiecesOK, WorkerFrame, sessionVars
    <3>2. \A j \in Jobs : In(tasks', j) \/ j \in ran' \cup poolRefused' => Numbered(j)
      BY <1>2, <3>1
    <3>3. \A v \in Workers : worker'[v].at \in Busy => worker'[v].job[2] <= received[worker'[v].job[1]]
      BY <1>2, <3>1 DEF Numbered
    <3> QED BY <1>0, <3>1, <3>2, <3>3
            DEF PiecesOK, Numbered, WorkerFrame, peerVars, sessionVars
  <2>2. StopOK'
    <3>1. ActorStopping' <=> ActorStopping
      BY <1>0 DEF WorkerFrame, ActorStopping, Reached
    <3>2. ~ActorStopping
      BY <1>0, <1>2 DEF StopOK
    <3> QED BY <3>1, <3>2 DEF StopOK
  <2> QED BY <1>0, <1>2, <2>1, <2>2 DEF Basics
<1>4. CASE WorkerTake(w)
  <2>1. /\ WorkerChange(w, "lock", Head(tasks)) /\ tasks' = Tail(tasks)
        /\ worker[w].at = "idle" /\ tasks # <<>>
    BY <1>0, <1>4, TakeEffect
  <2>2. /\ In(tasks, Head(tasks)) /\ Head(tasks) \in Jobs
        /\ \A j : In(tasks', j) => In(tasks, j)
    BY <1>1, <2>1, TailOfQueue
  <2>3. tasks' \in Seq(Jobs)
    BY <1>1, <2>1
  <2>5. UNCHANGED <<inbox, current, ran, writes, writing, wrote>>
    BY <1>4 DEF WorkerTake, actorVars
  <2>6. Types'
    BY <1>0, <1>1, <2>1, <2>2, <2>3, <2>5, WorkerTypes DEF Busy
  <2>9. \A v \in Workers : worker'[v].at \in Busy =>
          \/ worker[v].at \in Busy /\ worker'[v].job = worker[v].job
          \/ In(tasks, worker'[v].job) /\ worker'[v].job \in Jobs
    BY <2>1, <2>2 DEF WorkerChange, Busy
  <2> QED BY <1>0, <1>2, <2>1, <2>2, <2>5, <2>6, <2>9
<1>5. CASE WorkerDecode(w)
  <2>1. WorkerChange(w, "events", worker[w].job) /\ worker[w].at = "lock"
    BY <1>0, <1>5, DecodeEffect
  <2>2. UNCHANGED <<inbox, current, tasks, ran, writes, writing, wrote>>
    BY <1>5 DEF WorkerDecode, actorVars
  <2>3. Types'
    BY <1>0, <1>1, <2>1, <2>2, WorkerTypes DEF Busy
  <2>9. \A v \in Workers : worker'[v].at \in Busy =>
          \/ worker[v].at \in Busy /\ worker'[v].job = worker[v].job
          \/ In(tasks, worker'[v].job) /\ worker'[v].job \in Jobs
    BY <2>1 DEF WorkerChange, Busy
  <2> QED BY <1>0, <1>2, <2>1, <2>2, <2>3, <2>9 DEF Busy
<1>6. CASE WorkerEvent(w)
  <2>1. PICK at \in {"events", "upsert", "consume"} :
          /\ WorkerChange(w, at, worker[w].job) /\ worker[w].at = "events"
          /\ Binds(ConnOf(w)) \/ UNCHANGED current
          /\ \/ UNCHANGED writes
             \/ \E op \in {"upsert", "consume"} : writes' = Append(writes, Write(op, ConnOf(w)))
          /\ UNCHANGED <<writing, wrote>>
    BY <1>0, <1>6, EventEffect DEF actorVars
  <2>2. writes' \in Seq(Writes) /\ current' \in [Agents -> Connections \cup {Nil}]
    <3>1. ConnOf(w) \in Connections
      BY <1>1, <2>1 DEF Busy
    <3>2. writes' \in Seq(Writes)
      <4>1. \A op \in {"upsert", "consume"} : Append(writes, Write(op, ConnOf(w))) \in Seq(Writes)
        BY <1>1, <3>1
      <4> QED BY <1>1, <2>1, <4>1
    <3> QED BY <1>0, <1>1, <2>1, <3>1, <3>2, BindsType
  <2>3. Types'
    BY <1>0, <1>1, <1>6, <2>1, <2>2, WorkerTypes DEF Busy, WorkerEvent
  <2> QED BY <1>0, <1>2, <1>6, <2>1, <2>3 DEF Busy, WorkerChange, WorkerEvent
<1>7. CASE WorkerConsumed(w)
  <2>1. PICK at \in {"events", "upsert"} :
          /\ WorkerChange(w, at, worker[w].job) /\ worker[w].at = "consume"
          /\ UNCHANGED current
          /\ writes' = writes \/ writes' = Append(writes, Write("upsert", ConnOf(w)))
          /\ UNCHANGED <<writing, wrote>>
    BY <1>0, <1>7, ConsumedEffect DEF actorVars
  <2>2. writes' \in Seq(Writes)
    <3>1. Write("upsert", ConnOf(w)) \in Writes
      BY <1>1, <2>1 DEF Busy
    <3>2. \A q \in Seq(Writes), j \in Writes : Append(q, j) \in Seq(Writes)
      OBVIOUS
    <3>3. writes \in Seq(Writes) /\ (writes' = writes \/ writes' = Append(writes, Write("upsert", ConnOf(w))))
      BY <1>1, <2>1
    <3> HIDE <1>1, <2>1
    <3> QED BY <3>1, <3>2, <3>3
  <2>3. Types'
    BY <1>0, <1>1, <1>7, <2>1, <2>2, WorkerTypes DEF Busy, WorkerConsumed
  <2> QED BY <1>0, <1>2, <1>7, <2>1, <2>3 DEF Busy, WorkerChange, WorkerConsumed
<1>8. CASE WorkerUpserted(w)
  <2>1. /\ WorkerChange(w, "events", worker[w].job) /\ worker[w].at = "upsert"
        /\ Binds(ConnOf(w)) /\ UNCHANGED <<writes, writing, wrote>>
    BY <1>0, <1>8, UpsertedEffect DEF actorVars
  <2>2. current' \in [Agents -> Connections \cup {Nil}]
    BY <1>0, <1>1, <2>1, BindsType DEF Busy
  <2>3. Types'
    BY <1>0, <1>1, <1>8, <2>1, <2>2, WorkerTypes DEF Busy, WorkerUpserted
  <2> QED BY <1>0, <1>2, <1>8, <2>1, <2>3 DEF Busy, WorkerChange, WorkerUpserted
<1>9. CASE WorkerFinish(w)
  <2>1. /\ WorkerChange(w, "idle", Nil) /\ worker[w].at = "events"
        /\ ran' = ran \cup {worker[w].job}
        /\ \E h \in {"failed", "accepted"} : Post(ConnOf(w), h)
    BY <1>0, <1>9, FinishEffect
  <2>2. inbox' \in [Connections -> Seq(Handlers)]
    BY <1>0, <1>1, <2>1, PostEffect DEF Busy, Handlers
  <2>3. UNCHANGED <<current, tasks, writes, writing, wrote>>
    BY <1>9 DEF WorkerFinish, actorVars
  <2>4. ran' \subseteq Jobs
    BY <1>1, <2>1 DEF Busy
  <2>5. Types'
    BY <1>0, <1>1, <2>1, <2>2, <2>3, <2>4, WorkerTypes DEF Busy
  <2>9. \A v \in Workers : worker'[v].at \in Busy =>
          \/ worker[v].at \in Busy /\ worker'[v].job = worker[v].job
          \/ In(tasks, worker'[v].job) /\ worker'[v].job \in Jobs
    BY <2>1 DEF WorkerChange, Busy
  <2> QED BY <1>0, <1>2, <2>1, <2>3, <2>5, <2>9 DEF Busy
<1>10. CASE WorkerEnd(w)
  <2>1. /\ WorkerChange(w, "ended", worker[w].job) /\ worker[w].at = "idle"
        /\ tasks = <<>> /\ PoolStopping
    BY <1>0, <1>10, EndEffect
  <2>2. UNCHANGED <<inbox, current, tasks, ran, writes, writing, wrote>>
    BY <1>10 DEF WorkerEnd, actorVars
  <2>3. Types'
    BY <1>0, <1>1, <2>1, <2>2, WorkerTypes DEF Busy
  <2>9. \A v \in Workers : worker'[v].at \in Busy =>
          \/ worker[v].at \in Busy /\ worker'[v].job = worker[v].job
          \/ In(tasks, worker'[v].job) /\ worker'[v].job \in Jobs
    BY <2>1 DEF WorkerChange, Busy
  <2> QED BY <1>0, <1>2, <2>1, <2>2, <2>3, <2>9 DEF Busy
<1>11. Basics'
  BY <1>4, <1>5, <1>6, <1>7, <1>8, <1>9, <1>10 DEF WorkerStep
<1> QED BY <1>0, <1>11

(* A step that leaves the pieces and the pool alone. *)
LEMMA PoolFrame ==
  ASSUME Basics, Types',
         \A c \in Connections :
           /\ pieces'[c] = pieces[c] \/ (phase[c] = "away" /\ Len(pieces'[c]) \in 0..2)
           /\ phase'[c] \in {"away", "knocking", "accepted", "refused"} =>
                phase[c] \in {"away", "knocking", "accepted", "refused"},
         UNCHANGED <<received, tasks, worker, ran, poolRefused>>,
         ActorStopping' => ActorStopping \/ \A w \in Workers : worker[w].at = "ended"
  PROVE  Basics'
<1>1. PiecesOK /\ StopOK
  BY DEF Basics
<1>2. PiecesOK'
  <2>1. ASSUME NEW c \in Connections
        PROVE  /\ Len(pieces'[c]) \in 0..2 /\ received'[c] <= Len(pieces'[c])
               /\ phase'[c] \in {"away", "knocking", "accepted", "refused"} => received'[c] = 0
    <3>1. Len(pieces[c]) \in 0..2 /\ received[c] <= Len(pieces[c])
          /\ (phase[c] \in {"away", "knocking", "accepted", "refused"} => received[c] = 0)
      BY <1>1 DEF PiecesOK
    <3> QED BY <3>1
  <2>2. \A j \in Jobs : In(tasks, j) \/ j \in ran \cup poolRefused => j[2] <= received[j[1]]
    BY <1>1 DEF PiecesOK, Numbered
  <2>3. \A w \in Workers : worker[w].at \in Busy => worker[w].job[2] <= received[worker[w].job[1]]
    BY <1>1 DEF PiecesOK, Numbered
  <2> QED BY <2>1, <2>2, <2>3 DEF PiecesOK, Numbered
<1>3. StopOK'
  BY <1>1 DEF StopOK
<1> QED BY <1>2, <1>3 DEF Basics

(* The point Stop has reached, when it does not move. *)
LEMMA SamePoint ==
  ASSUME stopper'.at = stopper.at
  PROVE  /\ Stopping' = Stopping /\ IoStopped' = IoStopped
         /\ PoolStopping' = PoolStopping /\ ActorStopping' = ActorStopping
BY DEF Reached, Stopping, IoStopped, PoolStopping, ActorStopping

(* The acceptor's steps. *)
LEMMA AcceptBasics ==
  ASSUME Basics, NEW c \in Connections, Connect(c) \/ CompleteAccept(c) \/ Accept(c)
  PROVE  Basics'
<1>0. Types /\ PiecesOK
  BY DEF Basics
<1>1. UNCHANGED <<received, marking, done, inbox, current, tasks, worker, ran, poolRefused,
                  writes, writing, wrote, token, agents, stopper>>
  BY DEF Connect, CompleteAccept, Accept, poolVars, actorVars, dbVars
<1>2. ActorStopping' = ActorStopping
  BY <1>1, SamePoint
<1>3. CASE Connect(c)
  <2>1. PICK a \in Agents, cut \in Cuts[c] :
          /\ owner' = [owner EXCEPT ![c] = a]
          /\ pieces' = [pieces EXCEPT ![c] = Pieces(cut)]
    BY <1>3 DEF Connect
  <2>2. /\ phase' = [phase EXCEPT ![c] = "knocking"] /\ phase[c] = "away"
        /\ UNCHANGED <<acceptor, sessions, reading>>
    BY <1>3 DEF Connect, acceptVars
  <2>3. Types'
    BY <1>0, <1>1, <2>1, <2>2 DEF Types
  <2>4. /\ pieces'[c] = Pieces(cut) /\ \A d \in Connections \ {c} : pieces'[d] = pieces[d]
    BY <1>0, <2>1 DEF Types
  <2>5. Len(pieces'[c]) \in 0..2
    BY <2>4, PiecesLength
  <2>6. \A d \in Connections : phase'[d] \in {"away", "knocking", "accepted", "refused"} =>
                                 phase[d] \in {"away", "knocking", "accepted", "refused"}
    BY <1>0, <2>2 DEF Types
  <2> QED BY <1>1, <1>2, <2>2, <2>3, <2>4, <2>5, <2>6, PoolFrame
<1>4. CASE Accept(c)
  <2>1. /\ phase' \in {[phase EXCEPT ![c] = "refused"], [phase EXCEPT ![c] = "open"]}
        /\ phase[c] = "accepted"
        /\ sessions' \subseteq sessions \cup {c}
        /\ acceptor' \in {acceptor, "armed"} /\ UNCHANGED <<owner, pieces>>
    BY <1>4 DEF Accept, peerVars
  <2>2. reading' \in [Connections -> BOOLEAN]
    BY <1>0, <1>4 DEF Accept, Types
  <2>3. Types'
    <3>1. phase' \in [Connections -> {"away", "knocking", "accepted", "open", "closed", "refused"}]
      <4>1. phase \in [Connections -> {"away", "knocking", "accepted", "open", "closed", "refused"}]
        BY <1>0 DEF Types
      <4> QED BY <2>1, <4>1
    <3>2. sessions' \subseteq Connections
      <4>1. sessions \subseteq Connections
        BY <1>0 DEF Types
      <4> QED BY <2>1, <4>1
    <3> QED BY <1>0, <1>1, <2>1, <2>2, <3>1, <3>2 DEF Types
  <2>4. \A d \in Connections : phase'[d] \in {"away", "knocking", "accepted", "refused"} =>
                                 phase[d] \in {"away", "knocking", "accepted", "refused"}
    BY <1>0, <2>1 DEF Types
  <2> QED BY <1>1, <1>2, <2>1, <2>3, <2>4, PoolFrame
<1>5. CASE CompleteAccept(c)
  <2>1. /\ phase' = [phase EXCEPT ![c] = "accepted"] /\ phase[c] = "knocking"
        /\ acceptor' = "idle" /\ UNCHANGED <<owner, pieces, sessions, reading>>
    BY <1>5 DEF CompleteAccept, peerVars
  <2>2. Types'
    BY <1>0, <1>1, <2>1 DEF Types
  <2>3. \A d \in Connections : phase'[d] \in {"away", "knocking", "accepted", "refused"} =>
                                 phase[d] \in {"away", "knocking", "accepted", "refused"}
    BY <1>0, <2>1 DEF Types
  <2> QED BY <1>1, <1>2, <2>1, <2>2, <2>3, PoolFrame
<1> QED BY <1>3, <1>4, <1>5

(* A piece is received and handed in, or refused. *)
LEMMA DataEffect ==
  ASSUME Basics, NEW c \in Connections, OnData(c)
  PROVE  LET j == <<c, received[c] + 1>> IN
         /\ j \in Jobs /\ ~Numbered(j) /\ phase[c] = "open"
         /\ received' = [received EXCEPT ![c] = received[c] + 1]
         /\ \/ /\ PoolStopping /\ poolRefused' = poolRefused \cup {j} /\ UNCHANGED <<inbox, tasks>>
            \/ /\ ~PoolStopping /\ tasks' = Append(tasks, j) /\ UNCHANGED <<poolRefused, inbox>>
         /\ stopper' = [stopper EXCEPT !.underway = @ \ {c}] /\ stopper'.at = stopper.at
         /\ UNCHANGED <<acceptVars, peerVars, phase, reading, marking,
                     done, current, decoder, pushed, handled, worker, ran, actorVars,
                     dbVars>>
<1> DEFINE j == <<c, received[c] + 1>>
<1>0. Types /\ PiecesOK
  BY DEF Basics
<1>1. /\ received[c] # Len(pieces[c]) /\ phase[c] = "open"
      /\ received' = [received EXCEPT ![c] = received[c] + 1]
      /\ stopper' = [stopper EXCEPT !.underway = @ \ {c}]
      /\ IF PoolStopping
         THEN /\ poolRefused' = poolRefused \cup {j}
              /\ Post(c, "failed") /\ UNCHANGED tasks
         ELSE /\ tasks' = Append(tasks, j)
              /\ UNCHANGED <<poolRefused, inbox>>
      /\ UNCHANGED <<acceptVars, peerVars, phase, reading, marking,
                     done, current, decoder, pushed, handled, worker, ran, actorVars,
                     dbVars>>
  BY DEF OnData, AllReceived
<1>2. PoolStopping /\ Post(c, "failed") => UNCHANGED inbox
  BY DEF Post, PoolStopping
<1>3. received[c] \in Nat /\ Len(pieces[c]) \in 0..2 /\ received[c] <= Len(pieces[c])
  BY <1>0 DEF Types, PiecesOK
<1>4. received[c] + 1 \in 1..2
  <2>1. PICK n \in 0..2 : n = Len(pieces[c])
    BY <1>3
  <2>2. received[c] # n /\ received[c] <= n /\ received[c] \in Nat
    BY <1>1, <1>3, <2>1
  <2>3. \A m \in Nat : m # n /\ m <= n => m + 1 \in 1..2
    OBVIOUS
  <2> QED BY <2>2, <2>3
<1>5. j \in Jobs /\ ~Numbered(j)
  BY <1>3, <1>4 DEF Jobs, Numbered
<1>6. stopper'.at = stopper.at
  BY <1>0, <1>1 DEF Types
<1> HIDE DEF j
<1> QED BY <1>1, <1>2, <1>5, <1>6 DEF j

(* See above. *)
LEMMA DataBasics ==
  ASSUME Basics, NEW c \in Connections, OnData(c)
  PROVE  Basics'
<1> DEFINE j == <<c, received[c] + 1>>
<1>0. Types /\ PiecesOK /\ StopOK
  BY DEF Basics
<1>1. /\ j \in Jobs /\ phase[c] = "open" /\ j[1] = c /\ j[2] = received[c] + 1
      /\ received' = [received EXCEPT ![c] = received[c] + 1]
      /\ \/ poolRefused' = poolRefused \cup {j} /\ UNCHANGED <<inbox, tasks>>
         \/ tasks' = Append(tasks, j) /\ UNCHANGED <<poolRefused, inbox>>
      /\ stopper' = [stopper EXCEPT !.underway = @ \ {c}] /\ stopper'.at = stopper.at
      /\ UNCHANGED <<acceptVars, peerVars, phase, reading, marking,
                     done, current, worker, ran, actorVars, dbVars>>
  BY DataEffect
<1> HIDE DEF j
<1>2. /\ received[c] \in Nat /\ received'[c] = received[c] + 1
      /\ \A d \in Connections \ {c} : received'[d] = received[d]
      /\ \A d \in Connections : received[d] \in Nat
      /\ received[c] # Len(pieces[c])
  BY <1>0, <1>1 DEF Types, OnData, AllReceived
<1>3. /\ tasks' \in Seq(Jobs) /\ poolRefused' \subseteq Jobs
      /\ \A i : In(tasks', i) \/ i \in poolRefused' => In(tasks, i) \/ i \in poolRefused \/ i = j
  <2>1. tasks \in Seq(Jobs) /\ poolRefused \subseteq Jobs
    BY <1>0 DEF Types
  <2>2. Append(tasks, j) \in Seq(Jobs)
        /\ \A i : In(Append(tasks, j), i) => In(tasks, i) \/ i = j
    BY <1>1, <2>1, AppendToQueue
  <2> QED BY <1>1, <2>1, <2>2
<1>4. stopper' \in [at : Range(StopPoints), swept : SUBSET Connections,
                    underway : SUBSET Connections, timedOut : BOOLEAN]
  <2>1. stopper \in [at : Range(StopPoints), swept : SUBSET Connections,
                     underway : SUBSET Connections, timedOut : BOOLEAN]
    BY <1>0 DEF Types
  <2>2. stopper.underway \ {c} \in SUBSET Connections
    BY <2>1
  <2> QED BY <1>1, <2>1, <2>2
<1>5. Types'
  <2>1. received' \in [Connections -> Nat]
    <3>1. received \in [Connections -> Nat]
      BY <1>0 DEF Types
    <3>2. received[c] + 1 \in Nat
      BY <1>2
    <3> QED BY <1>1, <3>1, <3>2
  <2> QED BY <1>0, <1>1, <1>3, <1>4, <2>1 DEF Types, acceptVars, peerVars, actorVars, dbVars
<1>6. \A i \in Jobs : i[1] \in Connections /\ (Numbered(i) => i[2] <= received'[i[1]])
  <2>1. \A i \in Jobs : i[1] \in Connections /\ i[2] \in Nat
    BY DEF Jobs
  <2> QED BY <1>2, <2>1 DEF Numbered
<1>7. PiecesOK'
  <2>1. ASSUME NEW d \in Connections
        PROVE  /\ Len(pieces'[d]) \in 0..2 /\ received'[d] <= Len(pieces'[d])
               /\ phase'[d] \in {"away", "knocking", "accepted", "refused"} => received'[d] = 0
    <3>1. /\ Len(pieces[d]) \in 0..2 /\ received[d] <= Len(pieces[d])
          /\ phase[d] \in {"away", "knocking", "accepted", "refused"} => received[d] = 0
          /\ pieces'[d] = pieces[d] /\ phase'[d] = phase[d]
      BY <1>0, <1>1 DEF PiecesOK, peerVars
    <3>2. CASE d = c
      BY <1>1, <1>2, <3>1, <3>2
    <3>3. CASE d # c
      BY <1>2, <3>1, <3>3
    <3> QED BY <3>2, <3>3
  <2>2. \A i \in Jobs : In(tasks', i) \/ i \in ran \cup poolRefused' => i[2] <= received'[i[1]]
    <3>1. j[2] <= received'[j[1]]
      BY <1>1, <1>2
    <3>2. \A i \in Jobs : In(tasks, i) \/ i \in ran \cup poolRefused => Numbered(i)
      BY <1>0 DEF PiecesOK
    <3> QED BY <1>3, <1>6, <3>1, <3>2
  <2>3. \A w \in Workers : worker[w].at \in Busy => worker[w].job[2] <= received'[worker[w].job[1]]
    BY <1>0, <1>6 DEF PiecesOK, Types
  <2> QED BY <1>1, <2>1, <2>2, <2>3 DEF PiecesOK, Numbered
<1>8. StopOK'
  <2>1. ActorStopping' = ActorStopping
    BY <1>1, SamePoint
  <2> QED BY <1>0, <1>1, <2>1 DEF StopOK
<1> QED BY <1>5, <1>7, <1>8 DEF Basics

(* A session that is closed queues its offline mark. *)
LEMMA CloseBasics ==
  ASSUME Basics, NEW c \in Connections,
         OnEof(c) \/ (OnStop(c) /\ phase[c] # "closed")
  PROVE  Basics'
<1>0. Types
  BY DEF Basics
<1>1. PICK still \in BOOLEAN, rest \in Seq(Handlers) :
        /\ Close(c, still, rest) /\ ~IoStopped
        /\ UNCHANGED <<acceptVars, peerVars, received, pending, hasError,
                       answer, poolVars, dbVars, stopper>>
  BY <1>0, CloseSteps
<1>2. /\ phase' = [phase EXCEPT ![c] = "closed"]
      /\ reading' = [reading EXCEPT ![c] = still]
      /\ \E b \in BOOLEAN : marking' = [marking EXCEPT ![c] = b]
      /\ \E b \in BOOLEAN : done' = [done EXCEPT ![c] = b]
      /\ inbox' \in [Connections -> Seq(Handlers)]
      /\ current' = current \/ current' = [current EXCEPT ![owner[c]] = Nil]
      /\ writes' = Append(writes, Write("offline", c)) \/ writes' = writes
      /\ UNCHANGED <<writing, wrote>>
  <2> DEFINE mine == current[owner[c]] = c
  <2>1. /\ phase' = [phase EXCEPT ![c] = "closed"]
        /\ reading' = [reading EXCEPT ![c] = still]
        /\ marking' = [marking EXCEPT ![c] = mine]
        /\ done' = [done EXCEPT ![c] = done[c] \/ (~still /\ ~mine)]
        /\ inbox' \in [Connections -> Seq(Handlers)]
        /\ current' = current \/ current' = [current EXCEPT ![owner[c]] = Nil]
        /\ writes' = IF mine THEN Append(writes, Write("offline", c)) ELSE writes
        /\ UNCHANGED <<writing, wrote>>
    BY <1>0, <1>1, CloseEffect
  <2>2. mine \in BOOLEAN /\ done[c] \in BOOLEAN
    BY <1>0 DEF Types
  <2>3. (done[c] \/ (~still /\ ~mine)) \in BOOLEAN
    BY <2>2
  <2> HIDE DEF mine
  <2> QED BY <2>1, <2>2, <2>3
<1>3. /\ phase' \in [Connections -> {"away", "knocking", "accepted", "open", "closed", "refused"}]
      /\ reading' \in [Connections -> BOOLEAN] /\ marking' \in [Connections -> BOOLEAN]
      /\ done' \in [Connections -> BOOLEAN]
  <2>1. /\ phase \in [Connections -> {"away", "knocking", "accepted", "open", "closed", "refused"}]
        /\ reading \in [Connections -> BOOLEAN] /\ marking \in [Connections -> BOOLEAN]
        /\ done \in [Connections -> BOOLEAN]
    BY <1>0 DEF Types
  <2>2. \A f \in [Connections -> BOOLEAN], b \in BOOLEAN :
          [f EXCEPT ![c] = b] \in [Connections -> BOOLEAN]
    OBVIOUS
  <2>3. phase' \in [Connections -> {"away", "knocking", "accepted", "open", "closed", "refused"}]
    BY <1>2, <2>1
  <2>4. reading' \in [Connections -> BOOLEAN]
    BY <1>2, <2>1, <2>2
  <2>5. marking' \in [Connections -> BOOLEAN] /\ done' \in [Connections -> BOOLEAN]
    BY <1>2, <2>1, <2>2
  <2> QED BY <2>3, <2>4, <2>5
<1>4. writes' \in Seq(Writes)
  <2>1. writes \in Seq(Writes) /\ Write("offline", c) \in Writes
    BY <1>0 DEF Types, Write, Writes
  <2>2. Append(writes, Write("offline", c)) \in Seq(Writes)
    BY <2>1
  <2> QED BY <1>2, <2>1, <2>2
<1>5. current' \in [Agents -> Connections \cup {Nil}]
  <2>1. current \in [Agents -> Connections \cup {Nil}]
    BY <1>0 DEF Types
  <2> QED BY <1>2, <2>1
<1>6. Types'
  BY <1>0, <1>1, <1>2, <1>3, <1>4, <1>5 DEF Types, acceptVars, peerVars, poolVars, dbVars
<1>7. \A d \in Connections : phase'[d] \in {"away", "knocking", "accepted", "refused"} =>
                               phase[d] \in {"away", "knocking", "accepted", "refused"}
  BY <1>0, <1>2 DEF Types
<1>8. ActorStopping' = ActorStopping
  BY <1>1, SamePoint
<1> QED BY <1>1, <1>6, <1>7, <1>8, PoolFrame DEF peerVars, poolVars

(* The other handlers of a session. *)
LEMMA HandlerBasics ==
  ASSUME Basics, NEW c \in Connections,
         \/ OnPieceDone(c) \/ OnMarked(c) \/ OnAborted(c)
         \/ OnStop(c) /\ phase[c] = "closed"
  PROVE  Basics'
<1>0. Types
  BY DEF Basics
<1>1. /\ inbox[c] # <<>> /\ inbox' = [inbox EXCEPT ![c] = Tail(inbox[c])]
      /\ UNCHANGED <<acceptVars, peerVars, phase, received, current, poolVars, actorVars,
                     dbVars, stopper>>
      /\ \/ UNCHANGED <<reading, marking, done>>
         \/ marking' = [marking EXCEPT ![c] = FALSE] /\ UNCHANGED reading
            /\ Done(c, reading[c], FALSE)
         \/ reading' = [reading EXCEPT ![c] = FALSE] /\ UNCHANGED marking
            /\ Done(c, FALSE, marking[c])
  BY DEF OnPieceDone, OnMarked, OnAborted, OnStop
<1>2. inbox' \in [Connections -> Seq(Handlers)]
  <2>1. inbox \in [Connections -> Seq(Handlers)] /\ inbox[c] \in Seq(Handlers)
    BY <1>0 DEF Types
  <2>2. Tail(inbox[c]) \in Seq(Handlers)
    BY <1>1, <2>1
  <2> QED BY <1>1, <2>1, <2>2
<1>3. /\ reading' \in [Connections -> BOOLEAN] /\ marking' \in [Connections -> BOOLEAN]
      /\ done' \in [Connections -> BOOLEAN]
  <2>1. /\ reading \in [Connections -> BOOLEAN] /\ marking \in [Connections -> BOOLEAN]
        /\ done \in [Connections -> BOOLEAN]
    BY <1>0 DEF Types
  <2>2. \A r, m \in BOOLEAN : Done(c, r, m) => done' \in [Connections -> BOOLEAN]
    BY <2>1 DEF Done
  <2>3. reading[c] \in BOOLEAN /\ marking[c] \in BOOLEAN
    BY <2>1
  <2> QED BY <1>1, <2>1, <2>2, <2>3
<1>4. Types'
  BY <1>0, <1>1, <1>2, <1>3 DEF Types, acceptVars, peerVars, poolVars, actorVars, dbVars
<1>5. ActorStopping' = ActorStopping
  BY <1>1, SamePoint
<1> QED BY <1>1, <1>4, <1>5, PoolFrame DEF peerVars, poolVars

(* The steps of the write actor, and a revocation. *)
LEMMA ActorBasics ==
  ASSUME Basics, ActorTake \/ ActorRun \/ Revoke
  PROVE  Basics'
<1>0. Types
  BY DEF Basics
<1>1. UNCHANGED <<acceptVars, peerVars, sessionVars, current, poolVars, stopper>>
  BY DEF ActorTake, ActorRun, Revoke
<1>2. ASSUME ActorTake
      PROVE  Types'
  <2>1. /\ writing' = {Head(writes)} /\ writes' = Tail(writes) /\ writes # <<>>
        /\ UNCHANGED <<inbox, wrote, dbVars>>
    BY <1>2 DEF ActorTake
  <2>2. writes \in Seq(Writes)
    BY <1>0 DEF Types
  <2>3. Head(writes) \in Writes /\ Tail(writes) \in Seq(Writes)
    BY <2>1, <2>2
  <2> QED BY <1>0, <1>1, <2>1, <2>3
          DEF Types, acceptVars, peerVars, sessionVars, poolVars, dbVars
<1>3. ASSUME ActorRun
      PROVE  Types'
  <2>1. PICK j \in writing :
           /\ writing' = {} /\ UNCHANGED writes
           /\ wrote' \in [Writes -> {"", "ok", "rejected", "failed"}]
           /\ inbox' \in [Connections -> Seq(Handlers)]
           /\ \/ UNCHANGED agents
              \/ \E a, s : agents' = [agents EXCEPT ![a] = s] /\ s \in {"online", "offline"}
           /\ token' \in [status : {"active", "consumed", "revoked"}, uses : Nat]
    <3>1. token \in [status : {"active", "consumed", "revoked"}, uses : Nat]
      BY <1>0 DEF Types
    <3> QED BY <1>0, <1>3, <3>1, RunEffect
  <2>2. agents' \in [Agents -> {"none", "online", "offline"}]
    <3>1. agents \in [Agents -> {"none", "online", "offline"}]
      BY <1>0 DEF Types
    <3> QED BY <2>1, <3>1
  <2> QED BY <1>0, <1>1, <2>1, <2>2
          DEF Types, acceptVars, peerVars, sessionVars, poolVars
<1>4. ASSUME Revoke
      PROVE  Types'
  <2>1. /\ token' = [token EXCEPT !.status = "revoked"]
        /\ UNCHANGED <<inbox, actorVars, agents>>
    BY <1>4 DEF Revoke
  <2>2. token' \in [status : {"active", "consumed", "revoked"}, uses : Nat]
    BY <1>0, <2>1 DEF Types
  <2> QED BY <1>0, <1>1, <2>1, <2>2
          DEF Types, acceptVars, peerVars, sessionVars, poolVars, actorVars
<1>5. Types'
  BY <1>2, <1>3, <1>4
<1>6. ActorStopping' = ActorStopping
  BY <1>1, SamePoint
<1> QED BY <1>1, <1>5, <1>6, PoolFrame DEF peerVars, sessionVars, poolVars

(* What the steps of Stop do to its record. *)
LEMMA StopEffect ==
  ASSUME Types, StopBegin \/ StopThread \/ ActorEnd
  PROVE  /\ stopper' \in [at : Range(StopPoints), swept : SUBSET Connections,
                          underway : SUBSET Connections, timedOut : BOOLEAN]
         /\ StopBegin => stopper'.at = "closing" /\ stopper'.timedOut = stopper.timedOut
         /\ StopSessions => /\ stopper'.at = "waiting" /\ stopper'.swept = sessions
                            /\ stopper'.timedOut = (acceptor # "closed")
         /\ StopPool =>
              /\ stopper'.at = "pool"
              /\ stopper'.timedOut =
                   (stopper.timedOut \/ \E c \in stopper.swept : ~done[c])
         /\ StopDatabase => stopper'.at = "db" /\ stopper'.timedOut = stopper.timedOut
         /\ ActorEnd => stopper'.at = "stopped" /\ stopper'.timedOut = stopper.timedOut
<1> DEFINE T == [at : Range(StopPoints), swept : SUBSET Connections,
                 underway : SUBSET Connections, timedOut : BOOLEAN]
<1>1. stopper \in T /\ sessions \subseteq Connections
  BY DEF Types
<1>2. {"closing", "waiting", "pool", "db", "stopped"} \subseteq Range(StopPoints)
  <2>1. /\ DOMAIN StopPoints = 1..6
        /\ StopPoints[2] = "closing" /\ StopPoints[3] = "waiting"
        /\ StopPoints[4] = "pool" /\ StopPoints[5] = "db" /\ StopPoints[6] = "stopped"
    BY DEF StopPoints
  <2> QED BY <2>1 DEF Range
<1>3. CASE StopBegin
  <2>1. stopper' = [stopper EXCEPT !.at = "closing"] /\ stopper.at = "running"
    BY <1>3 DEF StopBegin
  <2>2. stopper' \in T /\ stopper'.at = "closing" /\ stopper'.timedOut = stopper.timedOut
    BY <1>1, <1>2, <2>1
  <2> QED BY <2>1, <2>2 DEF StopSessions, StopPool, StopDatabase, ActorEnd
<1>4. CASE StopSessions
  <2>1. stopper' = [stopper EXCEPT !.at = "waiting", !.swept = sessions,
                                   !.timedOut = (acceptor # "closed")]
        /\ stopper.at = "closing"
    BY <1>4 DEF StopSessions
  <2>2. /\ stopper' \in T /\ stopper'.at = "waiting" /\ stopper'.swept = sessions
        /\ stopper'.timedOut = (acceptor # "closed")
    BY <1>1, <1>2, <2>1
  <2> QED BY <2>1, <2>2 DEF StopBegin, StopPool, StopDatabase, ActorEnd
<1>5. CASE StopPool
  <2> DEFINE out == stopper.timedOut \/ \E c \in stopper.swept : ~done[c]
  <2>1. PICK u \in SUBSET Connections :
          stopper' = [stopper EXCEPT !.at = "pool", !.swept = {}, !.underway = u,
                                     !.timedOut = out]
    BY <1>5 DEF StopPool
  <2>2. out \in BOOLEAN
    OBVIOUS
  <2>3. stopper.at = "waiting"
    BY <1>5 DEF StopPool
  <2> HIDE DEF out
  <2>4. stopper' \in T /\ stopper'.at = "pool" /\ stopper'.timedOut = out
    BY <1>1, <1>2, <2>1, <2>2
  <2> QED BY <2>3, <2>4 DEF out, StopBegin, StopSessions, StopDatabase, ActorEnd
<1>6. CASE StopDatabase
  <2>1. stopper' = [stopper EXCEPT !.at = "db"] /\ stopper.at = "pool"
    BY <1>6 DEF StopDatabase
  <2>2. stopper' \in T /\ stopper'.at = "db" /\ stopper'.timedOut = stopper.timedOut
    BY <1>1, <1>2, <2>1
  <2> QED BY <2>1, <2>2 DEF StopBegin, StopSessions, StopPool, ActorEnd
<1>7. CASE ActorEnd
  <2>1. stopper' = [stopper EXCEPT !.at = "stopped"] /\ stopper.at = "db"
    BY <1>7 DEF ActorEnd
  <2>2. stopper' \in T /\ stopper'.at = "stopped" /\ stopper'.timedOut = stopper.timedOut
    BY <1>1, <1>2, <2>1
  <2> QED BY <2>1, <2>2 DEF StopBegin, StopSessions, StopPool, StopDatabase
<1> QED BY <1>3, <1>4, <1>5, <1>6, <1>7 DEF StopThread

(* The steps of Stop. *)
LEMMA StopBasics ==
  ASSUME Basics, StopBegin \/ CloseAcceptor \/ StopThread \/ ActorEnd
  PROVE  Basics'
<1>0. Types /\ StopOK
  BY DEF Basics
<1>1. UNCHANGED <<peerVars, sessionVars, current, poolVars, actorVars, dbVars>>
  BY DEF StopBegin, CloseAcceptor, StopThread, StopSessions, StopPool, StopDatabase, ActorEnd
<1>2. /\ acceptor' \in {"armed", "idle", "closed"} /\ sessions' \subseteq Connections
  BY <1>0 DEF Types, StopBegin, CloseAcceptor, StopThread, StopSessions, StopPool,
              StopDatabase, ActorEnd, acceptVars
<1>3. inbox' \in [Connections -> Seq(Handlers)]
  <2>1. inbox \in [Connections -> Seq(Handlers)]
    BY <1>0 DEF Types
  <2>2. CASE StopSessions
    <3>1. inbox' = [c \in Connections |->
                     IF c \in sessions THEN Append(inbox[c], "stop") ELSE inbox[c]]
      BY <2>2 DEF StopSessions
    <3>2. \A c \in Connections : Append(inbox[c], "stop") \in Seq(Handlers)
      <4>1. "stop" \in Handlers
        BY DEF Handlers
      <4>2. \A s \in Seq(Handlers) : Append(s, "stop") \in Seq(Handlers)
        BY <4>1
      <4> QED BY <2>1, <4>2
    <3> QED BY <2>1, <3>1, <3>2
  <2>3. CASE ~StopSessions
    BY <2>1, <2>3 DEF StopBegin, CloseAcceptor, StopThread, StopPool, StopDatabase, ActorEnd
  <2> QED BY <2>2, <2>3
<1>4. stopper' \in [at : Range(StopPoints), swept : SUBSET Connections,
                    underway : SUBSET Connections, timedOut : BOOLEAN]
  <2>1. CASE CloseAcceptor
    BY <1>0, <2>1 DEF CloseAcceptor, Types
  <2> QED BY <1>0, <2>1, StopEffect
<1>5. Types'
  BY <1>0, <1>1, <1>2, <1>3, <1>4
     DEF Types, peerVars, sessionVars, poolVars, actorVars, dbVars
<1>6. ActorStopping' => ActorStopping \/ \A w \in Workers : worker[w].at = "ended"
  <2>1. CASE CloseAcceptor
    <3>1. stopper' = stopper
      BY <2>1 DEF CloseAcceptor
    <3> QED BY <3>1, SamePoint
  <2>2. CASE StopDatabase
    BY <2>2 DEF StopDatabase
  <2>3. CASE ActorEnd
    <3>1. stopper.at = "db"
      BY <2>3 DEF ActorEnd
    <3> QED BY <1>0, <3>1, StopOrder DEF Types
  <2>4. CASE StopBegin \/ StopSessions \/ StopPool
    <3>1. stopper'.at \in {"closing", "waiting", "pool"}
      BY <1>0, <2>4, StopEffect DEF StopThread
    <3> QED BY <1>5, <3>1, StopOrderNext
  <2> QED BY <2>1, <2>2, <2>3, <2>4 DEF StopThread
<1> QED BY <1>1, <1>5, <1>6, PoolFrame DEF peerVars, sessionVars, poolVars

(* The invariant holds when the server starts. *)
LEMMA BasicsInit == Init => Basics
<1> SUFFICES ASSUME Init PROVE Basics
  OBVIOUS
<1>1. stopper = [at |-> "running", swept |-> {}, underway |-> {}, timedOut |-> FALSE]
  BY DEF Init
<1>2. "running" \in Range(StopPoints)
  <2>1. 1 \in DOMAIN StopPoints /\ StopPoints[1] = "running"
    BY DEF StopPoints
  <2> QED BY <2>1 DEF Range
<1>3. stopper \in [at : Range(StopPoints), swept : SUBSET Connections,
                   underway : SUBSET Connections, timedOut : BOOLEAN]
  BY <1>1, <1>2
<1>4. \A w \in Workers : DOMAIN worker[w] = WorkerFields /\ worker[w].at = "idle"
  BY DEF Init, Idle, WorkerFields
<1>5. <<>> \in Seq(Handlers) /\ <<>> \in Seq(Jobs) /\ <<>> \in Seq(Writes)
      /\ \A j : ~In(<<>>, j)
  BY DEF In
<1>6. token \in [status : {"active", "consumed", "revoked"}, uses : Nat]
  BY DEF Init
<1>7. Types
  <2>1. /\ inbox \in [Connections -> Seq(Handlers)] /\ tasks \in Seq(Jobs)
        /\ writes \in Seq(Writes)
    BY <1>5 DEF Init
  <2>2. /\ received \in [Connections -> Nat] /\ DOMAIN pieces = Connections
        /\ reading \in [Connections -> BOOLEAN] /\ marking \in [Connections -> BOOLEAN]
        /\ done \in [Connections -> BOOLEAN]
        /\ owner \in [Connections -> Agents \cup {Nil}]
        /\ current \in [Agents -> Connections \cup {Nil}]
    BY DEF Init
  <2>3. /\ phase \in [Connections -> {"away", "knocking", "accepted", "open", "closed", "refused"}]
        /\ agents \in [Agents -> {"none", "online", "offline"}]
        /\ wrote \in [Writes -> {"", "ok", "rejected", "failed"}]
    BY DEF Init
  <2>4. /\ acceptor \in {"armed", "idle", "closed"} /\ sessions \subseteq Connections
        /\ ran \subseteq Jobs /\ poolRefused \subseteq Jobs /\ writing \subseteq Writes
        /\ DOMAIN worker = Workers
    BY DEF Init
  <2> QED BY <1>3, <1>4, <1>6, <2>1, <2>2, <2>3, <2>4 DEF Types, Busy
<1>8. PiecesOK
  <2>1. \A c \in Connections : pieces[c] = <<>> /\ received[c] = 0
    BY DEF Init
  <2>2. Len(<<>>) = 0 /\ 0 \in 0..2 /\ 0 <= 0
    OBVIOUS
  <2>3. tasks = <<>> /\ ran = {} /\ poolRefused = {}
    BY DEF Init
  <2>4. \A c \in Connections : Len(pieces[c]) = 0
    BY <2>1, <2>2
  <2> QED BY <1>4, <1>5, <2>1, <2>2, <2>3, <2>4 DEF PiecesOK, Busy
<1>9. StopOK
  BY <1>1, <1>2, StopOrder DEF StopOK
<1> QED BY <1>7, <1>8, <1>9 DEF Basics

(* No step breaks it. *)
LEMMA BasicsStep == Basics /\ [Next]_vars => Basics'
<1> SUFFICES ASSUME Basics, [Next]_vars PROVE Basics'
  OBVIOUS
<1>1. CASE UNCHANGED vars
  BY <1>1 DEF vars, acceptVars, peerVars, sessionVars, poolVars, actorVars, dbVars, Basics,
     Types, PiecesOK, StopOK, Numbered, ActorStopping, Reached
<1>2. ASSUME NEW c \in Connections,
             Connect(c) \/ CompleteAccept(c) \/ Accept(c) \/ OnData(c) \/ OnEof(c) \/ OnPosted(c)
      PROVE  Basics'
  BY <1>2, AcceptBasics, DataBasics, CloseBasics, HandlerBasics DEF OnPosted
<1>3. ASSUME NEW w \in Workers, WorkerStep(w)
      PROVE  Basics'
  BY <1>3, WorkerBasics
<1>4. CASE ActorTake \/ ActorRun \/ Revoke
  BY <1>4, ActorBasics
<1>5. CASE StopBegin \/ CloseAcceptor \/ StopThread \/ ActorEnd
  BY <1>5, StopBasics
<1> QED BY <1>1, <1>2, <1>3, <1>4, <1>5 DEF Next

(* Types, numbers of pieces and the order of Stop hold in every state. *)
THEOREM BasicsInvariant == Spec => []Basics
BY BasicsInit, BasicsStep, PTL DEF Spec

----------------------------------------------------------------------------
(* The worker pool implements a work queue. *)

RunningJobs ==
  [w \in Workers |-> IF worker[w].at \in {"idle", "ended"} THEN {} ELSE {worker[w].job}]

EndedWorkers == {w \in Workers : worker[w].at = "ended"}

(* What of the pool the work queue sees, when nothing of it changes. *)
PoolStutters ==
  /\ UNCHANGED <<tasks, ran, poolRefused>> /\ RunningJobs' = RunningJobs
  /\ EndedWorkers' = EndedWorkers /\ PoolStopping' = PoolStopping

(* See above. *)
LEMMA PoolStutter == PoolStutters => UNCHANGED Pool!vars
BY DEF PoolStutters, Pool!vars, RunningJobs, EndedWorkers

(* The step of one worker, as the work queue sees it. *)
LEMMA RunningChange ==
  ASSUME Types, NEW w \in Workers, NEW at, NEW job, WorkerChange(w, at, job)
  PROVE  /\ at \in Busy => RunningJobs' = [RunningJobs EXCEPT ![w] = {job}]
         /\ at \in {"idle", "ended"} => RunningJobs' = [RunningJobs EXCEPT ![w] = {}]
         /\ at = "ended" => EndedWorkers' = EndedWorkers \cup {w}
         /\ at # "ended" => EndedWorkers' = EndedWorkers \ {w}
         /\ worker[w].at \in Busy => RunningJobs[w] = {worker[w].job}
         /\ worker[w].at \in {"idle", "ended"} => RunningJobs[w] = {}
         /\ worker[w].at \in Busy /\ at \in Busy /\ job = worker[w].job =>
              RunningJobs' = RunningJobs /\ EndedWorkers' = EndedWorkers
<1> DEFINE R(p) == IF p.at \in {"idle", "ended"} THEN {} ELSE {p.job}
<1>1. /\ worker'[w].at = at /\ worker'[w].job = job
      /\ \A v \in Workers \ {w} : worker'[v] = worker[v]
  BY DEF WorkerChange
<1>2. /\ RunningJobs = [v \in Workers |-> R(worker[v])]
      /\ RunningJobs' = [v \in Workers |-> R(worker'[v])]
  BY DEF RunningJobs
<1>3. /\ worker[w].at \in Busy => R(worker[w]) = {worker[w].job}
      /\ at \in Busy => R(worker'[w]) = {job}
      /\ worker[w].at \in {"idle", "ended"} => R(worker[w]) = {}
      /\ at \in {"idle", "ended"} => R(worker'[w]) = {}
  BY <1>1 DEF Busy
<1> HIDE DEF R
<1>4. /\ at \in Busy => RunningJobs' = [RunningJobs EXCEPT ![w] = {job}]
      /\ at \in {"idle", "ended"} => RunningJobs' = [RunningJobs EXCEPT ![w] = {}]
      /\ worker[w].at \in Busy => RunningJobs[w] = {worker[w].job}
      /\ worker[w].at \in {"idle", "ended"} => RunningJobs[w] = {}
  BY <1>1, <1>2, <1>3
<1>5. /\ at = "ended" => EndedWorkers' = EndedWorkers \cup {w}
      /\ at # "ended" => EndedWorkers' = EndedWorkers \ {w}
  BY <1>1 DEF EndedWorkers
<1>6. worker[w].at \in Busy => w \notin EndedWorkers
  BY DEF EndedWorkers, Busy
<1>7. at \in Busy => at # "ended"
  BY DEF Busy
<1>8. worker[w].at \in Busy /\ at \in Busy /\ job = worker[w].job =>
        RunningJobs' = RunningJobs /\ EndedWorkers' = EndedWorkers
  <2> SUFFICES ASSUME worker[w].at \in Busy, at \in Busy, job = worker[w].job
               PROVE  RunningJobs' = RunningJobs /\ EndedWorkers' = EndedWorkers
    OBVIOUS
  <2>1. RunningJobs' = RunningJobs
    BY <1>1, <1>2, <1>3
  <2> QED BY <2>1, <1>5, <1>6, <1>7
<1> QED BY <1>4, <1>5, <1>8

(* A step that does not touch the pool. *)
LEMMA PoolUntouched ==
  ASSUME UNCHANGED <<tasks, worker, ran, poolRefused>>, PoolStopping' = PoolStopping
  PROVE  PoolStutters
BY DEF PoolStutters, RunningJobs, EndedWorkers

(* The steps of a worker. *)
LEMMA WorkerPool ==
  ASSUME Basics, NEW w \in Workers, WorkerStep(w)
  PROVE  [Pool!Next]_(Pool!vars)
<1>0. Types /\ StopOK /\ WorkerFrame
  BY WorkerBasics DEF Basics
<1>1. PoolStopping' = PoolStopping /\ poolRefused' = poolRefused
  BY <1>0, SamePoint DEF WorkerFrame
<1>2. CASE WorkerTake(w)
  <2>1. /\ WorkerChange(w, "lock", Head(tasks)) /\ tasks' = Tail(tasks)
        /\ worker[w].at = "idle" /\ tasks # <<>> /\ ran' = ran
    BY <1>0, <1>2, TakeEffect DEF WorkerTake
  <2>2. /\ RunningJobs' = [RunningJobs EXCEPT ![w] = {Head(tasks)}]
        /\ EndedWorkers' = EndedWorkers \ {w} /\ RunningJobs[w] = {}
    BY <1>0, <2>1, RunningChange DEF Busy
  <2>3. w \notin EndedWorkers
    BY <2>1 DEF EndedWorkers
  <2>4. Pool!Take(w)
    BY <1>1, <2>1, <2>2, <2>3 DEF Pool!Take, RunningJobs, EndedWorkers
  <2> QED BY <2>4 DEF Pool!Next
<1>3. ASSUME WorkerChange(w, "events", worker[w].job), worker[w].at \in Busy,
             UNCHANGED <<tasks, ran>>
      PROVE  [Pool!Next]_(Pool!vars)
  <2>1. RunningJobs' = RunningJobs /\ EndedWorkers' = EndedWorkers
    BY <1>0, <1>3, RunningChange DEF Busy
  <2> QED BY <1>1, <1>3, <2>1, PoolStutter DEF PoolStutters
<1>4. CASE WorkerDecode(w)
  BY <1>0, <1>3, <1>4, DecodeEffect DEF WorkerDecode, Busy
<1>5. ASSUME NEW at \in {"events", "upsert", "consume"},
             WorkerChange(w, at, worker[w].job), worker[w].at \in Busy,
             UNCHANGED <<tasks, ran>>
      PROVE  [Pool!Next]_(Pool!vars)
  <2>1. RunningJobs' = RunningJobs /\ EndedWorkers' = EndedWorkers
    BY <1>0, <1>5, RunningChange DEF Busy
  <2> QED BY <1>1, <1>5, <2>1, PoolStutter DEF PoolStutters
<1>6. CASE WorkerEvent(w)
  <2>1. \E at \in {"events", "upsert", "consume"} : WorkerChange(w, at, worker[w].job)
    BY <1>0, <1>6, EventEffect
  <2> QED BY <1>5, <1>6, <2>1 DEF WorkerEvent, Busy
<1>7. CASE WorkerConsumed(w)
  <2>1. \E at \in {"events", "upsert", "consume"} : WorkerChange(w, at, worker[w].job)
    BY <1>0, <1>7, ConsumedEffect
  <2> QED BY <1>5, <1>7, <2>1 DEF WorkerConsumed, Busy
<1>8. CASE WorkerUpserted(w)
  <2>1. WorkerChange(w, "events", worker[w].job)
    BY <1>0, <1>8, UpsertedEffect
  <2> QED BY <1>5, <1>8, <2>1 DEF WorkerUpserted, Busy
<1>9. CASE WorkerFinish(w)
  <2>1. /\ WorkerChange(w, "idle", Nil) /\ worker[w].at = "events"
        /\ ran' = ran \cup {worker[w].job} /\ tasks' = tasks
    BY <1>0, <1>9, FinishEffect DEF WorkerFinish
  <2>2. /\ RunningJobs' = [RunningJobs EXCEPT ![w] = {}]
        /\ EndedWorkers' = EndedWorkers \ {w} /\ RunningJobs[w] = {worker[w].job}
    BY <1>0, <2>1, RunningChange DEF Busy
  <2>3. w \notin EndedWorkers
    BY <2>1 DEF EndedWorkers
  <2>4. Pool!Finish(w)
    BY <1>1, <2>1, <2>2, <2>3 DEF Pool!Finish, RunningJobs, EndedWorkers
  <2> QED BY <2>4 DEF Pool!Next
<1>10. CASE WorkerEnd(w)
  <2>1. /\ WorkerChange(w, "ended", worker[w].job) /\ worker[w].at = "idle"
        /\ tasks = <<>> /\ PoolStopping /\ UNCHANGED <<tasks, ran>>
    BY <1>0, <1>10, EndEffect DEF WorkerEnd
  <2>2. /\ RunningJobs' = [RunningJobs EXCEPT ![w] = {}]
        /\ EndedWorkers' = EndedWorkers \cup {w} /\ RunningJobs[w] = {}
    BY <1>0, <2>1, RunningChange
  <2>3. w \notin EndedWorkers /\ RunningJobs' = RunningJobs
    BY <2>1, <2>2 DEF EndedWorkers, RunningJobs
  <2>4. Pool!End(w)
    BY <1>1, <2>1, <2>2, <2>3 DEF Pool!End, RunningJobs, EndedWorkers
  <2> QED BY <2>4 DEF Pool!Next
<1> QED BY <1>2, <1>4, <1>6, <1>7, <1>8, <1>9, <1>10 DEF WorkerStep

(* A piece that is received was never handed in before. *)
LEMMA DataPool ==
  ASSUME Basics, NEW c \in Connections, OnData(c)
  PROVE  [Pool!Next]_(Pool!vars)
<1> DEFINE j == <<c, received[c] + 1>>
<1>1. /\ j \in Jobs /\ ~Numbered(j)
      /\ \/ /\ PoolStopping /\ poolRefused' = poolRefused \cup {j} /\ UNCHANGED tasks
         \/ /\ ~PoolStopping /\ tasks' = Append(tasks, j) /\ UNCHANGED poolRefused
      /\ PoolStopping' = PoolStopping /\ UNCHANGED <<worker, ran>>
  BY DataEffect, SamePoint
<1> HIDE DEF j
<1>2. /\ \A i \in Jobs : In(tasks, i) \/ i \in ran \cup poolRefused => Numbered(i)
      /\ \A w \in Workers : worker[w].at \in Busy => Numbered(worker[w].job)
      /\ \A w \in Workers : worker[w].at \in {"idle", "ended"} \cup Busy
      /\ tasks \in Seq(Jobs)
  BY DEF Basics, Types, PiecesOK
<1>3. j \notin Range(tasks)
  <2>1. DOMAIN tasks = 1..Len(tasks)
    BY <1>2
  <2> QED BY <1>1, <1>2, <2>1 DEF Range, In
<1>4. \A w \in Workers : j \notin RunningJobs[w]
  BY <1>1, <1>2 DEF RunningJobs
<1>5. RunningJobs' = RunningJobs /\ EndedWorkers' = EndedWorkers
  BY <1>1 DEF RunningJobs, EndedWorkers
<1>6. Pool!Submit(j)
  <2>1. j \notin Pool!Submitted
    <3>1. j \notin UNION {RunningJobs[w] : w \in Workers}
      BY <1>4
    <3>2. j \notin ran \cup poolRefused
      BY <1>1, <1>2
    <3>3. Pool!Submitted =
            Range(tasks) \cup (UNION {RunningJobs[w] : w \in Workers}) \cup ran \cup poolRefused
      BY DEF Pool!Submitted, RunningJobs, Range, Pool!Range
    <3> QED BY <1>3, <3>1, <3>2, <3>3
  <2> QED BY <1>1, <1>5, <2>1 DEF Pool!Submit, RunningJobs, EndedWorkers
<1> QED BY <1>1, <1>6 DEF Pool!Next

(* Every step is one of the work queue, or none. *)
LEMMA PoolStep == Basics /\ [Next]_vars => [Pool!Next]_(Pool!vars)
<1> SUFFICES ASSUME Basics, [Next]_vars PROVE [Pool!Next]_(Pool!vars)
  OBVIOUS
<1>1. ASSUME UNCHANGED <<tasks, worker, ran, poolRefused, stopper>>
      PROVE  [Pool!Next]_(Pool!vars)
  BY <1>1, SamePoint, PoolUntouched, PoolStutter
<1>2. CASE UNCHANGED vars
  BY <1>1, <1>2 DEF vars, poolVars
<1>3. ASSUME NEW c \in Connections,
             Connect(c) \/ CompleteAccept(c) \/ Accept(c) \/ OnEof(c) \/ OnPosted(c)
      PROVE  [Pool!Next]_(Pool!vars)
  BY <1>1, <1>3 DEF Connect, CompleteAccept, Accept, OnEof, OnPosted, OnPieceDone, OnMarked,
     OnAborted,
     OnStop, poolVars
<1>4. CASE ActorTake \/ ActorRun \/ Revoke \/ CloseAcceptor
  BY <1>1, <1>4 DEF ActorTake, ActorRun, Revoke, CloseAcceptor, poolVars
<1>5. CASE StopBegin \/ StopThread \/ ActorEnd
  <2>1. UNCHANGED <<tasks, worker, ran, poolRefused>>
    BY <1>5 DEF StopBegin, StopThread, StopSessions, StopPool, StopDatabase, ActorEnd, poolVars
  <2>2. Types /\ Types'
    BY BasicsStep DEF Basics
  <2>3. /\ PoolStopping <=> stopper.at \in {"pool", "db", "stopped"}
        /\ PoolStopping' <=> stopper'.at \in {"pool", "db", "stopped"}
    BY <2>2, Points, StopOrderNext DEF PointsOK, PoolStopping
  <2>4. CASE StopPool
    <3>1. stopper.at = "waiting" /\ stopper'.at = "pool"
      BY <2>2, <2>4, StopEffect DEF StopPool, StopThread
    <3>2. ~PoolStopping /\ PoolStopping' = TRUE
      BY <2>3, <3>1 DEF PoolStopping, IoStopped, Reached
    <3>3. RunningJobs' = RunningJobs /\ EndedWorkers' = EndedWorkers
      BY <2>1 DEF RunningJobs, EndedWorkers
    <3>4. Pool!Stop
      BY <2>1, <3>2, <3>3 DEF Pool!Stop, RunningJobs, EndedWorkers
    <3> QED BY <3>4 DEF Pool!Next
  <2>5. CASE ~StopPool
    <3>1. \/ stopper.at = "running" /\ stopper'.at = "closing"
          \/ stopper.at = "closing" /\ stopper'.at = "waiting"
          \/ stopper.at = "pool" /\ stopper'.at = "db"
          \/ stopper.at = "db" /\ stopper'.at = "stopped"
      BY <1>5, <2>2, <2>5, StopEffect DEF StopBegin, StopThread, StopSessions,
         StopDatabase, ActorEnd
    <3>2. PoolStopping' = PoolStopping
      BY <2>3, <3>1 DEF PoolStopping, IoStopped, Reached
    <3> QED BY <2>1, <3>2, PoolUntouched, PoolStutter
  <2> QED BY <2>4, <2>5
<1> QED BY <1>2, <1>3, <1>4, <1>5, DataPool, WorkerPool DEF Next

(* ControlWorkerPool keeps the promise of a work queue, for any number of  *)
(* threads and sessions: a piece that was handed in is run once, by one    *)
(* thread, before the join of Stop, and one handed in later is refused.    *)
THEOREM PoolIsImplemented == Spec => PoolSpec
<1>1. Init => Pool!Init
  <2> SUFFICES ASSUME Init PROVE Pool!Init
    OBVIOUS
  <2>1. \A w \in Workers : worker[w].at = "idle"
    BY DEF Init, Idle
  <2>2. RunningJobs = [w \in Workers |-> {}] /\ EndedWorkers = {}
    BY <2>1 DEF RunningJobs, EndedWorkers
  <2>3. PoolStopping = FALSE
    <3>1. Types /\ stopper.at = "running"
      BY BasicsInit DEF Basics, Init
    <3> QED BY <3>1, Points DEF PointsOK, PoolStopping, IoStopped, Reached
  <2>4. tasks = <<>> /\ ran = {} /\ poolRefused = {}
    BY DEF Init
  <2> QED BY <2>2, <2>3, <2>4 DEF Pool!Init, RunningJobs, EndedWorkers
<1> QED BY <1>1, PoolStep, BasicsInvariant, PTL DEF Spec, PoolSpec, Pool!Spec

----------------------------------------------------------------------------
(* The use of the token, and the rows it pays for. *)

(* A write is queued, or the actor is at it; it is there once. *)
Due(j) == In(writes, j) \/ j \in writing

Alone(j) == Once(writes, j) /\ ~(In(writes, j) /\ j \in writing)

Opened(c) == phase[c] \in {"open", "closed"}

(* Whatever is known of a connection, it was accepted before. *)
Accepted ==
  /\ \A c \in Connections : phase[c] # "away" => owner[c] \in Agents
  /\ \A c \in Connections : c \in sessions \/ inbox[c] # <<>> => Opened(c)
  /\ \A j \in Writes : Due(j) \/ wrote[j] # "" => Opened(j.conn)
  /\ \A a \in Agents : current[a] # Nil =>
       Opened(current[a]) /\ owner[current[a]] = a /\ agents[a] # "none"

(* dispatcher_mutex. *)
Mutex ==
  \A c \in Connections : \A v, w \in Workers : Holds(v, c) /\ Holds(w, c) => v = w

OneWriting == \A i, j \in writing : i = j

(* A write was submitted. *)
Spent(op, c) == Due(Write(op, c)) \/ wrote[Write(op, c)] # ""

(* A worker that comes to a registration has not asked for a use before.   *)
AsksOnce(w) ==
  worker[w].at = "events" /\ worker[w].events # <<>> /\ Head(worker[w].events) # "heartbeat"
    => ~Spent("consume", ConnOf(w))

(* A use is asked for once, and what the actor said of it stands. *)
ConsumeOK(c) ==
  LET k == Write("consume", c)
  IN  Alone(k) /\ (Due(k) => wrote[k] = "")

(* A row is written for an agent that has one, or that was granted a use.  *)
UpsertOK(c) ==
  /\ wrote[Write("upsert", c)] = "ok" => agents[owner[c]] # "none"
  /\ Due(Write("upsert", c)) =>
       agents[owner[c]] # "none" \/ wrote[Write("consume", c)] = "ok"
  /\ Due(Write("offline", c)) => agents[owner[c]] # "none"

Granted == {c \in Connections : wrote[Write("consume", c)] = "ok"}

Paid ==
  /\ IsFiniteSet(Granted) /\ token.uses = Cardinality(Granted) /\ token.uses <= MaxUses
  /\ \A a \in Agents : agents[a] # "none" => \E c \in Granted : owner[c] = a

Registered ==
  /\ Accepted /\ Mutex /\ OneWriting
  /\ \A c \in Connections : ConsumeOK(c) /\ UpsertOK(c)
  /\ Paid

(* What a submission, and the two steps of the write actor, make of the    *)
(* writes that are due.                                                    *)
LEMMA DueAppended ==
  ASSUME Types, NEW k \in Writes, writes' = Append(writes, k), writing' = writing
  PROVE  /\ \A j : Due(j)' <=> Due(j) \/ j = k
         /\ \A j : j # k /\ Alone(j) => Alone(j)'
         /\ ~Due(k) => Alone(k)'
<1>1. writes \in Seq(Writes)
  BY DEF Types
<1>2. /\ \A y : In(Append(writes, k), y) <=> In(writes, y) \/ y = k
      /\ \A y : y # k /\ Once(writes, y) => Once(Append(writes, k), y)
      /\ ~In(writes, k) => Once(Append(writes, k), k)
  BY <1>1, AppendToQueue
<1> QED BY <1>2 DEF Due, Alone

(* See above. *)
LEMMA DueTaken ==
  ASSUME Types, ActorTake
  PROVE  /\ \A j : Due(j)' <=> Due(j)
         /\ \A j : Alone(j) => Alone(j)'
         /\ OneWriting'
<1>1. /\ writes \in Seq(Writes) /\ writes # <<>> /\ writing = {}
      /\ writing' = {Head(writes)} /\ writes' = Tail(writes)
  BY DEF Types, ActorTake
<1>2. /\ In(writes, Head(writes))
      /\ \A y : In(Tail(writes), y) => In(writes, y)
      /\ \A y : In(writes, y) /\ y # Head(writes) => In(Tail(writes), y)
      /\ \A y : Once(writes, y) => Once(Tail(writes), y)
      /\ Once(writes, Head(writes)) => ~In(Tail(writes), Head(writes))
  BY <1>1, TailOfQueue
<1>3. \A j : Due(j)' <=> Due(j)
  BY <1>1, <1>2 DEF Due
<1>4. \A j : Alone(j) => Alone(j)'
  BY <1>1, <1>2 DEF Alone
<1>5. OneWriting'
  BY <1>1 DEF OneWriting
<1> QED BY <1>3, <1>4, <1>5

(* See above. *)
LEMMA DueRun ==
  ASSUME OneWriting, NEW j \in writing, writing' = {}, writes' = writes
  PROVE  /\ \A i : i # j => (Due(i)' <=> Due(i))
         /\ Due(j) /\ \A i : Alone(i) => Alone(i)'
         /\ Alone(j) => ~Due(j)'
         /\ OneWriting'
<1>1. writing = {j}
  BY DEF OneWriting
<1> QED BY <1>1 DEF Due, Alone, OneWriting

(* Nothing is due that was not, when the queue is left alone. *)
LEMMA DueSame ==
  ASSUME UNCHANGED <<writes, writing>>
  PROVE  /\ \A j : Due(j)' <=> Due(j)
         /\ \A j : Alone(j) <=> Alone(j)'
BY DEF Due, Alone

(* The writes of one connection are writes, all different. *)
LEMMA WriteNames ==
  /\ \A op \in {"consume", "upsert", "offline"}, c \in Connections :
       Write(op, c) \in Writes /\ Write(op, c).conn = c /\ Write(op, c).op = op
  /\ \A j \in Writes : j.conn \in Connections /\ j.op \in {"consume", "upsert", "offline"}
                         /\ j = Write(j.op, j.conn)
BY DEF Write, Writes

(* The token's answer of a connection, after a step that leaves it. *)
LEMMA ConsumeKept ==
  ASSUME NEW d \in Connections, ConsumeOK(d), wrote' = wrote,
         Due(Write("consume", d))' <=> Due(Write("consume", d)),
         Alone(Write("consume", d)) => Alone(Write("consume", d))'
  PROVE  ConsumeOK(d)'
BY DEF ConsumeOK

(* The row of its agent, after a step that leaves it. *)
LEMMA UpsertKept ==
  ASSUME NEW d \in Connections, UpsertOK(d), UNCHANGED <<wrote, agents, owner>>,
         Due(Write("upsert", d))' =>
           \/ Due(Write("upsert", d)) \/ agents[owner[d]] # "none"
           \/ wrote[Write("consume", d)] = "ok",
         Due(Write("offline", d))' => Due(Write("offline", d))
  PROVE  UpsertOK(d)'
BY DEF UpsertOK

(* A step that leaves the workers, the writes and the database alone. *)
LEMMA RegisteredFrame ==
  ASSUME Registered, UNCHANGED <<owner, current, worker, writes, writing, wrote, agents, token>>,
         \A c \in Connections : Opened(c) => Opened(c)',
         \A c \in Connections : phase'[c] # "away" => phase[c] # "away",
         \A c \in Connections : c \in sessions' \/ inbox'[c] # <<>> => Opened(c)',
         Types
  PROVE  Registered'
<1>1. /\ \A j : Due(j)' <=> Due(j)
      /\ \A j : Alone(j)' <=> Alone(j)
  BY DueSame
<1>2. Accepted'
  <2>1. \A c \in Connections : phase'[c] # "away" => owner'[c] \in Agents
    BY DEF Registered, Accepted
  <2>2. \A j \in Writes : Due(j)' \/ wrote'[j] # "" => Opened(j.conn)'
    BY <1>1, WriteNames DEF Registered, Accepted
  <2>3. \A a \in Agents : current'[a] # Nil =>
           /\ phase'[current'[a]] \in {"open", "closed"}
           /\ owner'[current'[a]] = a /\ agents'[a] # "none"
    <3>1. \A a \in Agents : current[a] # Nil => current[a] \in Connections
      BY DEF Types
    <3>2. \A c \in Connections : Opened(c) => phase'[c] \in {"open", "closed"}
      BY DEF Opened
    <3>3. \A a \in Agents : current[a] # Nil =>
             Opened(current[a]) /\ owner[current[a]] = a /\ agents[a] # "none"
      BY DEF Registered, Accepted
    <3> QED BY <3>1, <3>2, <3>3
  <2>4. \A c \in Connections : c \in sessions' \/ inbox'[c] # <<>> => phase'[c] \in {"open", "closed"}
    BY DEF Opened
  <2> QED BY <2>1, <2>2, <2>3, <2>4 DEF Accepted, Opened
<1>3. Mutex' /\ OneWriting'
  BY DEF Registered, Mutex, OneWriting, Holds, ConnOf
<1>4. \A c \in Connections : ConsumeOK(c)' /\ UpsertOK(c)'
  BY <1>1 DEF Registered, ConsumeOK, UpsertOK
<1>5. Paid'
  BY DEF Registered, Paid, Granted
<1> QED BY <1>2, <1>3, <1>4, <1>5 DEF Registered

(* A connection of which nothing is known yet gets an agent. *)
LEMMA ConnectRegistered ==
  ASSUME Basics, Registered, NEW c \in Connections, Connect(c)
  PROVE  Registered'
<1>0. Types
  BY DEF Basics
<1>1. PICK a \in Agents : owner' = [owner EXCEPT ![c] = a]
  BY DEF Connect
<1>2. /\ phase' = [phase EXCEPT ![c] = "knocking"] /\ phase[c] = "away"
      /\ UNCHANGED <<sessions, inbox, current, worker, writes, writing, wrote, agents, token>>
  BY DEF Connect, acceptVars, poolVars, actorVars, dbVars
<1>3. /\ \A j : Due(j)' <=> Due(j)
      /\ \A j : Alone(j)' <=> Alone(j)
  BY <1>2, DueSame
<1>4. /\ \A d \in Connections \ {c} : owner'[d] = owner[d] /\ phase'[d] = phase[d]
      /\ owner'[c] = a /\ phase'[c] = "knocking" /\ ~Opened(c)
  BY <1>0, <1>1, <1>2 DEF Types, Opened
<1>5. \A d \in Connections : Opened(d) =>
        d # c /\ phase'[d] \in {"open", "closed"} /\ owner'[d] = owner[d]
  BY <1>4 DEF Opened
<1>6. /\ \A j \in Writes : Due(j) \/ wrote[j] # "" => Opened(j.conn)
      /\ \A b \in Agents : current[b] # Nil =>
           /\ current[b] \in Connections /\ Opened(current[b])
           /\ owner[current[b]] = b /\ agents[b] # "none"
      /\ \A d \in Connections : d \in sessions \/ inbox[d] # <<>> => Opened(d)
  <2>1. \A b \in Agents : current[b] # Nil => current[b] \in Connections
    BY <1>0 DEF Types
  <2> QED BY <2>1 DEF Registered, Accepted
<1>7. Accepted'
  <2>1. \A d \in Connections : phase'[d] # "away" => owner'[d] \in Agents
    <3>1. \A d \in Connections : phase[d] # "away" => owner[d] \in Agents
      BY DEF Registered, Accepted
    <3>2. ASSUME NEW d \in Connections \ {c}, phase'[d] # "away"
          PROVE  owner'[d] \in Agents
      BY <1>4, <3>1, <3>2
    <3> QED BY <1>4, <3>2
  <2>2. \A d \in Connections : d \in sessions' \/ inbox'[d] # <<>> =>
          phase'[d] \in {"open", "closed"}
    BY <1>2, <1>5, <1>6
  <2>3. \A j \in Writes : Due(j)' \/ wrote'[j] # "" => phase'[j.conn] \in {"open", "closed"}
    BY <1>2, <1>3, <1>5, <1>6, WriteNames
  <2>4. \A b \in Agents : current'[b] # Nil =>
           /\ phase'[current'[b]] \in {"open", "closed"}
           /\ owner'[current'[b]] = b /\ agents'[b] # "none"
    BY <1>2, <1>5, <1>6
  <2> QED BY <2>1, <2>2, <2>3, <2>4 DEF Accepted, Opened
<1>8. Mutex' /\ OneWriting'
  BY <1>2 DEF Registered, Mutex, OneWriting, Holds, ConnOf
<1>9. ASSUME NEW d \in Connections
      PROVE  ConsumeOK(d)' /\ UpsertOK(d)'
  <2>1. ConsumeOK(d) /\ UpsertOK(d)
    BY DEF Registered
  <2>2. CASE d # c
    BY <1>2, <1>3, <1>4, <2>1, <2>2 DEF ConsumeOK, UpsertOK
  <2>3. CASE d = c
    <3>1. \A op \in {"consume", "upsert", "offline"} :
            ~Due(Write(op, d)) /\ wrote[Write(op, d)] = ""
      <4>1. \A op \in {"consume", "upsert", "offline"} :
              Write(op, d) \in Writes /\ Write(op, d).conn = d
        BY WriteNames
      <4>2. \A j \in Writes : j.conn = c => ~Due(j) /\ wrote[j] = ""
        BY <1>4, <1>6
      <4> QED BY <2>3, <4>1, <4>2
    <3>2. Alone(Write("consume", d))
      BY <2>1, <3>1 DEF ConsumeOK
    <3>3. ConsumeOK(d)'
      BY <1>2, <1>3, <3>1, <3>2 DEF ConsumeOK
    <3>4. UpsertOK(d)'
      BY <1>2, <1>3, <3>1 DEF UpsertOK
    <3> QED BY <3>3, <3>4
  <2> QED BY <2>2, <2>3
<1>10. Paid'
  <2>1. Granted' = Granted
    BY <1>2 DEF Granted
  <2>2. \A d \in Granted : owner'[d] = owner[d]
    <3>1. \A d \in Granted : d \in Connections /\ wrote[Write("consume", d)] # ""
      BY DEF Granted
    <3>2. \A d \in Connections : Write("consume", d) \in Writes /\ Write("consume", d).conn = d
      BY WriteNames
    <3>3. \A d \in Granted : Opened(d)
      BY <1>6, <3>1, <3>2
    <3> QED BY <1>5, <3>1, <3>3
  <2> QED BY <1>2, <2>1, <2>2 DEF Registered, Paid
<1> QED BY <1>7, <1>8, <1>9, <1>10 DEF Registered

(* A session that is closed marks the agent it was the connection of. *)
LEMMA CloseRegistered ==
  ASSUME Basics, Registered, NEW c \in Connections,
         OnEof(c) \/ (OnStop(c) /\ phase[c] # "closed")
  PROVE  Registered'
<1>0. Types
  BY DEF Basics
<1> DEFINE mine == current[owner[c]] = c
           k == Write("offline", c)
<1>1. /\ phase' = [phase EXCEPT ![c] = "closed"]
      /\ \A d \in Connections \ {c} : inbox'[d] = inbox[d]
      /\ current' = current \/ current' = [current EXCEPT ![owner[c]] = Nil]
      /\ writes' = IF mine THEN Append(writes, k) ELSE writes
      /\ UNCHANGED <<writing, wrote>>
      /\ phase[c] = "open" \/ inbox[c] # <<>>
      /\ UNCHANGED <<acceptVars, peerVars, poolVars, dbVars>>
  <2>1. PICK still \in BOOLEAN, rest \in Seq(Handlers) :
           /\ Close(c, still, rest) /\ ~IoStopped
           /\ UNCHANGED <<acceptVars, peerVars, received, pending, hasError,
                          answer, poolVars, dbVars, stopper>>
           /\ phase[c] = "open" \/ inbox[c] # <<>>
    BY <1>0, CloseSteps
  <2> QED BY <1>0, <2>1, CloseEffect
<1>2. UNCHANGED <<sessions, owner, worker, wrote, writing, agents, token>>
  BY <1>1 DEF acceptVars, peerVars, poolVars, dbVars
<1>3. Opened(c) /\ phase[c] # "away" /\ owner[c] \in Agents
  BY <1>1 DEF Registered, Accepted, Opened
<1>4. /\ phase'[c] = "closed" /\ \A d \in Connections \ {c} : phase'[d] = phase[d]
  BY <1>0, <1>1 DEF Types
<1>5. \A d \in Connections : Opened(d) => phase'[d] \in {"open", "closed"}
  BY <1>4 DEF Opened
<1>6. mine => agents[owner[c]] # "none"
  <2>1. c # Nil
    BY ServerConstants
  <2> QED BY <1>3, <2>1 DEF Registered, Accepted
<1>7. /\ \A j : Due(j)' <=> Due(j) \/ (mine /\ j = k)
      /\ \A j : j # k /\ Alone(j) => Alone(j)'
  <2>1. k \in Writes
    BY WriteNames
  <2> HIDE DEF k
  <2>2. CASE mine
    BY <1>0, <1>1, <2>1, <2>2, DueAppended
  <2>3. CASE ~mine
    BY <1>1, <2>3, DueSame
  <2> QED BY <2>2, <2>3
<1>8. \A d \in Connections : k # Write("consume", d) /\ k # Write("upsert", d)
                              /\ (k = Write("offline", d) => d = c)
  BY DEF Write
<1>9. k \in Writes /\ k.conn = c
  BY WriteNames
<1> HIDE DEF mine, k
<1>10. Accepted'
  <2>1. \A d \in Connections : phase'[d] # "away" => owner'[d] \in Agents
    BY <1>2, <1>3, <1>4 DEF Registered, Accepted
  <2>2. \A d \in Connections : d \in sessions' \/ inbox'[d] # <<>> =>
          phase'[d] \in {"open", "closed"}
    <3>1. \A d \in Connections : d \in sessions \/ inbox[d] # <<>> => Opened(d)
      BY DEF Registered, Accepted
    <3> QED BY <1>1, <1>2, <1>4, <1>5, <3>1
  <2>3. \A j \in Writes : Due(j)' \/ wrote'[j] # "" => phase'[j.conn] \in {"open", "closed"}
    <3>1. \A j \in Writes : Due(j) \/ wrote[j] # "" => Opened(j.conn)
      BY DEF Registered, Accepted
    <3> QED BY <1>2, <1>4, <1>5, <1>7, <1>9, <3>1, WriteNames
  <2>4. \A b \in Agents : current'[b] # Nil =>
           /\ phase'[current'[b]] \in {"open", "closed"}
           /\ owner'[current'[b]] = b /\ agents'[b] # "none"
    <3>1. \A b \in Agents : current[b] # Nil =>
           /\ current[b] \in Connections /\ Opened(current[b])
           /\ owner[current[b]] = b /\ agents[b] # "none"
      <4>1. \A b \in Agents : current[b] # Nil => current[b] \in Connections
        BY <1>0 DEF Types
      <4> QED BY <4>1 DEF Registered, Accepted
    <3>2. \A b \in Agents : current'[b] # Nil => current'[b] = current[b]
      BY <1>0, <1>1 DEF Types
    <3> QED BY <1>2, <1>5, <3>1, <3>2
  <2> QED BY <2>1, <2>2, <2>3, <2>4 DEF Accepted, Opened
<1>11. Mutex' /\ OneWriting'
  BY <1>2 DEF Registered, Mutex, OneWriting, Holds, ConnOf
<1>12. ASSUME NEW d \in Connections
       PROVE  ConsumeOK(d)' /\ UpsertOK(d)'
  <2>1. ConsumeOK(d) /\ UpsertOK(d)
    BY DEF Registered
  <2>2. ConsumeOK(d)'
    <3>1. Write("consume", d) # k
      BY <1>8
    <3>2. Due(Write("consume", d))' <=> Due(Write("consume", d))
      BY <1>7, <3>1
    <3>3. Alone(Write("consume", d)) => Alone(Write("consume", d))'
      BY <1>7, <3>1
    <3> QED BY <1>2, <2>1, <3>2, <3>3, ConsumeKept
  <2>3. UpsertOK(d)'
    BY <1>2, <1>6, <1>7, <1>8, <2>1 DEF UpsertOK
  <2> QED BY <2>2, <2>3
<1>13. Paid'
  BY <1>2 DEF Registered, Paid, Granted
<1> QED BY <1>10, <1>11, <1>12, <1>13 DEF Registered

(* What is known of the connections, after a worker's step for one of them. *)
LEMMA WorkerAccepted ==
  ASSUME Basics, Registered, NEW c \in Connections, Opened(c), WorkerFrame,
         Binds(c) \/ UNCHANGED current, UNCHANGED <<writing, wrote>>,
         \A j \in Writes : Due(j)' => Due(j) \/ j.conn = c,
         \A d \in Connections \ {c} : inbox'[d] = inbox[d]
  PROVE  Accepted'
<1>0. Types
  BY DEF Basics
<1>1. UNCHANGED <<sessions, phase, owner, agents, token>>
  BY DEF WorkerFrame, acceptVars, peerVars, sessionVars, dbVars
<1>2. /\ \A d \in Connections : phase[d] # "away" => owner[d] \in Agents
      /\ \A d \in Connections : d \in sessions \/ inbox[d] # <<>> => Opened(d)
      /\ \A j \in Writes : Due(j) \/ wrote[j] # "" => Opened(j.conn)
      /\ \A a \in Agents : current[a] # Nil =>
           Opened(current[a]) /\ owner[current[a]] = a /\ agents[a] # "none"
      /\ UpsertOK(c)
  BY DEF Registered, Accepted
<1>3. \A d \in Connections : Opened(d) <=> phase'[d] \in {"open", "closed"}
  BY <1>1 DEF Opened
<1>4. \A d \in Connections : d \in sessions' \/ inbox'[d] # <<>> =>
        phase'[d] \in {"open", "closed"}
  BY <1>1, <1>2, <1>3
<1>5. \A j \in Writes : Due(j)' \/ wrote'[j] # "" => phase'[j.conn] \in {"open", "closed"}
  BY <1>2, <1>3, WriteNames
<1>6. ASSUME NEW a \in Agents, current'[a] # Nil
      PROVE  /\ phase'[current'[a]] \in {"open", "closed"}
             /\ owner'[current'[a]] = a /\ agents'[a] # "none"
  <2>1. current[a] \in Connections \cup {Nil}
    BY <1>0 DEF Types
  <2>2. CASE current'[a] = current[a]
    BY <1>1, <1>2, <1>3, <1>6, <2>1, <2>2
  <2>3. CASE current'[a] # current[a]
    <3>1. /\ current' = [current EXCEPT ![owner[c]] = c]
          /\ agents[owner[c]] # "none" \/ wrote[Write("upsert", c)] = "ok"
      BY <2>3 DEF Binds
    <3>2. current'[a] = c /\ owner[c] = a
      BY <1>0, <2>3, <3>1 DEF Types
    <3>3. agents[owner[c]] # "none"
      BY <1>2, <3>1 DEF UpsertOK
    <3> QED BY <1>1, <1>3, <3>2, <3>3
  <2> QED BY <2>2, <2>3
<1> QED BY <1>1, <1>2, <1>4, <1>5, <1>6 DEF Accepted, Opened

(* A worker holds the mutex of a connection alone. *)
LEMMA WorkerMutex ==
  ASSUME Mutex, NEW w \in Workers, NEW at, NEW job, WorkerChange(w, at, job),
         at \in {"events", "consume", "upsert"} =>
           /\ job = worker[w].job /\ ConnOf(w) \in Connections
           /\ Holds(w, ConnOf(w)) \/ ~ \E v \in Workers : Holds(v, ConnOf(w))
  PROVE  Mutex'
<1> DEFINE held == {"events", "consume", "upsert"}
<1>1. /\ worker'[w].at = at /\ worker'[w].job = job
      /\ \A v \in Workers \ {w} : worker'[v] = worker[v]
  BY DEF WorkerChange
<1>2. ASSUME NEW c \in Connections, NEW u \in Workers, NEW v \in Workers,
             worker'[u].at \in held, worker'[u].job[1] = c,
             worker'[v].at \in held, worker'[v].job[1] = c, u # v
      PROVE  FALSE
  <2>1. CASE u # w /\ v # w
    BY <1>1, <1>2, <2>1 DEF Mutex, Holds, ConnOf
  <2>2. CASE u = w /\ v # w
    BY <1>1, <1>2, <2>2 DEF Mutex, Holds, ConnOf
  <2>3. CASE v = w /\ u # w
    BY <1>1, <1>2, <2>3 DEF Mutex, Holds, ConnOf
  <2> QED BY <1>2, <2>1, <2>2, <2>3
<1> QED BY <1>2 DEF Mutex, Holds, ConnOf

(* A worker's connection was accepted. *)
LEMMA WorkerOpened ==
  ASSUME Basics, NEW w \in Workers, worker[w].at \in Busy
  PROVE  ConnOf(w) \in Connections /\ Opened(ConnOf(w)) /\ worker[w].job[1] = ConnOf(w)
<1>1. worker[w].job \in Jobs /\ Numbered(worker[w].job)
  BY DEF Basics, Types, PiecesOK
<1>2. ConnOf(w) \in Connections /\ worker[w].job[2] \in 1..2
  BY <1>1 DEF Jobs, ConnOf
<1>3. received[ConnOf(w)] \in Nat /\ received[ConnOf(w)] # 0
  <2>1. \A d \in Connections : received[d] \in Nat
    BY DEF Basics, Types
  <2>2. worker[w].job[2] <= received[ConnOf(w)]
    BY <1>1 DEF Numbered, ConnOf
  <2> QED BY <1>2, <2>1, <2>2
<1>4. phase[ConnOf(w)] \in {"away", "knocking", "accepted", "open", "closed", "refused"}
  BY <1>2 DEF Basics, Types
<1>5. phase[ConnOf(w)] \notin {"away", "knocking", "accepted", "refused"}
  BY <1>2, <1>3 DEF Basics, PiecesOK
<1> QED BY <1>2, <1>4, <1>5 DEF Opened, ConnOf

(* The steps of a worker, which asks for a use of the token once. *)
LEMMA WorkerRegistered ==
  ASSUME Basics, Registered, NEW w \in Workers, AsksOnce(w), WorkerStep(w)
  PROVE  Registered'
<1>0. Types /\ StopOK /\ WorkerFrame
  BY WorkerBasics DEF Basics
<1>1. UNCHANGED <<sessions, phase, owner, agents, token>>
  BY <1>0 DEF WorkerFrame, acceptVars, peerVars, sessionVars, dbVars
<1>2. Mutex /\ OneWriting /\ Paid /\ \A d \in Connections : ConsumeOK(d) /\ UpsertOK(d)
  BY DEF Registered
<1>3. ASSUME wrote' = wrote, writing' = writing
      PROVE  Paid' /\ OneWriting'
  BY <1>1, <1>2, <1>3 DEF Paid, Granted, OneWriting
<1>4. ASSUME UNCHANGED <<writes, writing, wrote>>
      PROVE  \A d \in Connections : ConsumeOK(d)' /\ UpsertOK(d)'
  <2> TAKE d \in Connections
  <2>2. \A j : (Due(j)' <=> Due(j)) /\ (Alone(j) => Alone(j)')
    BY <1>4, DueSame
  <2>3. ConsumeOK(d)'
    BY <1>1, <1>2, <1>4, <2>2, ConsumeKept
  <2>4. UpsertOK(d)'
    BY <1>1, <1>2, <1>4, <2>2, UpsertKept
  <2> QED BY <2>3, <2>4
<1>5. CASE WorkerTake(w)
  <2>1. /\ WorkerChange(w, "lock", Head(tasks)) /\ worker[w].at = "idle"
        /\ UNCHANGED <<inbox, current, writes, writing, wrote>>
    BY <1>0, <1>5, TakeEffect DEF WorkerTake, actorVars
  <2>2. Mutex'
    BY <1>2, <2>1, WorkerMutex
  <2>3. \A d \in Connections : ConsumeOK(d)' /\ UpsertOK(d)'
    BY <1>4, <2>1
  <2>4. Accepted'
    <3>1. \A j : Due(j)' <=> Due(j)
      BY <2>1, DueSame
    <3> QED BY <1>1, <2>1, <3>1 DEF Registered, Accepted, Opened
  <2> QED BY <1>3, <2>1, <2>2, <2>3, <2>4 DEF Registered
<1>6. CASE WorkerEnd(w)
  <2>1. /\ WorkerChange(w, "ended", worker[w].job) /\ worker[w].at = "idle"
        /\ UNCHANGED <<inbox, current, writes, writing, wrote>>
    BY <1>0, <1>6, EndEffect DEF WorkerEnd, actorVars
  <2>2. Mutex'
    BY <1>2, <2>1, WorkerMutex
  <2>3. \A d \in Connections : ConsumeOK(d)' /\ UpsertOK(d)'
    BY <1>4, <2>1
  <2>4. Accepted'
    <3>1. \A j : Due(j)' <=> Due(j)
      BY <2>1, DueSame
    <3> QED BY <1>1, <2>1, <3>1 DEF Registered, Accepted, Opened
  <2> QED BY <1>3, <2>1, <2>2, <2>3, <2>4 DEF Registered
<1>7. ASSUME worker[w].at \in Busy
      PROVE  \E c \in Connections : c = ConnOf(w) /\ Opened(c) /\ worker[w].job[1] = c
  BY <1>7, WorkerOpened
<1>8. CASE WorkerDecode(w)
  <2>1. /\ WorkerChange(w, "events", worker[w].job) /\ worker[w].at = "lock"
        /\ ~ \E v \in Workers : Holds(v, ConnOf(w))
        /\ UNCHANGED <<inbox, current, writes, writing, wrote>>
    BY <1>0, <1>8, DecodeEffect DEF WorkerDecode, actorVars
  <2>2. PICK c \in Connections : c = ConnOf(w) /\ Opened(c)
    BY <1>7, <2>1 DEF Busy
  <2>3. Mutex'
    BY <1>2, <2>1, <2>2, WorkerMutex
  <2>4. \A d \in Connections : ConsumeOK(d)' /\ UpsertOK(d)'
    BY <1>4, <2>1
  <2>5. Accepted'
    <3>1. \A j : Due(j)' <=> Due(j)
      BY <2>1, DueSame
    <3> QED BY <1>0, <2>1, <2>2, <3>1, WorkerAccepted
  <2> QED BY <1>3, <2>1, <2>3, <2>4, <2>5 DEF Registered
<1>9. CASE WorkerFinish(w)
  <2>1. /\ WorkerChange(w, "idle", Nil) /\ worker[w].at = "events"
        /\ \E h \in {"failed", "accepted"} : Post(ConnOf(w), h)
        /\ UNCHANGED <<current, writes, writing, wrote>>
    BY <1>0, <1>9, FinishEffect DEF WorkerFinish, actorVars
  <2>2. PICK c \in Connections : c = ConnOf(w) /\ Opened(c)
    BY <1>7, <2>1 DEF Busy
  <2>3. \A d \in Connections \ {c} : inbox'[d] = inbox[d]
    <3>1. PICK h \in Handlers : Post(c, h)
      BY <2>1, <2>2 DEF Handlers
    <3> QED BY <1>0, <3>1, PostEffect
  <2>4. Mutex'
    BY <1>2, <2>1, WorkerMutex
  <2>5. \A d \in Connections : ConsumeOK(d)' /\ UpsertOK(d)'
    BY <1>4, <2>1
  <2>6. Accepted'
    <3>1. \A j : Due(j)' <=> Due(j)
      BY <2>1, DueSame
    <3> QED BY <1>0, <2>1, <2>2, <2>3, <3>1, WorkerAccepted
  <2> QED BY <1>3, <2>1, <2>4, <2>5, <2>6 DEF Registered
<1>10. CASE WorkerEvent(w)
  <2>1. /\ worker[w].at = "events" /\ worker[w].events # <<>> /\ inbox' = inbox
        /\ Head(worker[w].events) = "heartbeat" => UNCHANGED actorVars
    BY <1>10 DEF WorkerEvent
  <2>2. PICK c \in Connections : c = ConnOf(w) /\ Opened(c) /\ worker[w].job[1] = c
    BY <1>7, <2>1 DEF Busy
  <2>3. Holds(w, ConnOf(w))
    BY <2>1 DEF Holds
  <2>4. \/ /\ WorkerChange(w, "events", worker[w].job)
           /\ Binds(c) /\ UNCHANGED actorVars
        \/ /\ WorkerChange(w, "upsert", worker[w].job)
           /\ agents[owner[c]] # "none" /\ UNCHANGED <<current, writing, wrote>>
           /\ writes' = Append(writes, Write("upsert", c))
        \/ /\ WorkerChange(w, "consume", worker[w].job)
           /\ agents[owner[c]] = "none" /\ UNCHANGED <<current, writing, wrote>>
           /\ writes' = Append(writes, Write("consume", c))
    BY <1>0, <1>10, <2>2, EventEffect
  <2>5. Mutex'
    BY <1>2, <2>2, <2>3, <2>4, WorkerMutex
  <2>6. CASE WorkerChange(w, "events", worker[w].job) /\ Binds(c) /\ UNCHANGED actorVars
    <3>1. UNCHANGED <<writes, writing, wrote>>
      BY <2>6 DEF actorVars
    <3>2. \A d \in Connections : ConsumeOK(d)' /\ UpsertOK(d)'
      BY <1>4, <2>1, <2>6, <3>1
    <3>3. Accepted'
      <4>1. \A j : Due(j)' <=> Due(j)
        BY <3>1, DueSame
      <4> QED BY <1>0, <2>1, <2>2, <2>6, <3>1, <4>1, WorkerAccepted
    <3> QED BY <1>3, <2>5, <3>1, <3>2, <3>3 DEF Registered
  <2>7. ASSUME NEW op \in {"upsert", "consume"},
               WorkerChange(w, op, worker[w].job),
               op = "upsert" <=> agents[owner[c]] # "none",
               UNCHANGED <<current, writing, wrote>>,
               writes' = Append(writes, Write(op, c))
        PROVE  Registered'
    <3> DEFINE k == Write(op, c)
    <3>1. /\ k \in Writes /\ k.conn = c
          /\ \A o \in {"upsert", "consume", "offline"}, d \in Connections :
               Write(o, d) = k <=> o = op /\ d = c
      BY <2>7, WriteNames DEF Write
    <3>2. writes' = Append(writes, k)
      BY <2>7
    <3> HIDE DEF k
    <3>3. /\ \A j : Due(j)' <=> Due(j) \/ j = k
          /\ \A j : j # k /\ Alone(j) => Alone(j)'
          /\ ~Due(k) => Alone(k)'
      BY <1>0, <2>7, <3>1, <3>2, DueAppended
    <3>4. ~Spent("consume", c)
      <4>1. writes' # writes
        <5>1. writes \in Seq(Writes)
          BY <1>0 DEF Types
        <5> QED BY <3>1, <3>2, <5>1
      <4>2. Head(worker[w].events) # "heartbeat"
        BY <2>1, <4>1 DEF actorVars
      <4> QED BY <2>1, <2>2, <4>2 DEF AsksOnce
    <3>6. ASSUME NEW d \in Connections
          PROVE  ConsumeOK(d)' /\ UpsertOK(d)'
      <4>1. UpsertOK(d)'
        BY <1>1, <1>2, <2>7, <3>1, <3>3, UpsertKept
      <4>2. CASE Write("consume", d) # k
        <5>1. ConsumeOK(d)'
          BY <1>1, <1>2, <2>7, <3>3, <4>2, ConsumeKept
        <5> QED BY <4>1, <5>1
      <4>3. CASE Write("consume", d) = k
        <5>1. d = c /\ op = "consume"
          BY <3>1, <4>3
        <5>2. wrote[k] = "" /\ ~Due(k)
          BY <3>4, <4>3, <5>1 DEF Spent
        <5>4. ConsumeOK(d)'
          BY <2>7, <3>3, <4>3, <5>2 DEF ConsumeOK
        <5> QED BY <4>1, <5>4
      <4> QED BY <4>2, <4>3
    <3>7. Accepted'
      BY <1>0, <2>1, <2>2, <2>7, <3>1, <3>3, WorkerAccepted
    <3> QED BY <1>3, <2>5, <2>7, <3>6, <3>7 DEF Registered
  <2> QED BY <2>4, <2>6, <2>7
<1>11. CASE WorkerConsumed(w)
  <2>1. worker[w].at = "consume" /\ inbox' = inbox
    BY <1>11 DEF WorkerConsumed
  <2>2. PICK c \in Connections : c = ConnOf(w) /\ Opened(c) /\ worker[w].job[1] = c
    BY <1>7, <2>1 DEF Busy
  <2>3. Holds(w, ConnOf(w))
    BY <2>1 DEF Holds
  <2>4. /\ wrote[Write("consume", c)] # ""
        /\ \/ /\ WorkerChange(w, "upsert", worker[w].job)
              /\ wrote[Write("consume", c)] = "ok" /\ UNCHANGED <<current, writing, wrote>>
              /\ writes' = Append(writes, Write("upsert", c))
           \/ /\ WorkerChange(w, "events", worker[w].job)
              /\ wrote[Write("consume", c)] # "ok" /\ UNCHANGED <<current, actorVars>>
    BY <1>0, <1>11, <2>2, ConsumedEffect
  <2>5. Mutex'
    BY <1>2, <2>2, <2>3, <2>4, WorkerMutex
  <2>6. CASE /\ WorkerChange(w, "upsert", worker[w].job)
             /\ wrote[Write("consume", c)] = "ok" /\ UNCHANGED <<current, writing, wrote>>
             /\ writes' = Append(writes, Write("upsert", c))
    <3> DEFINE k == Write("upsert", c)
    <3>1. /\ k \in Writes /\ k.conn = c
          /\ \A d \in Connections : /\ Write("consume", d) # k /\ Write("offline", d) # k
                                    /\ (Write("upsert", d) = k => d = c)
      BY WriteNames DEF Write
    <3>2. writes' = Append(writes, k)
      BY <2>6
    <3> HIDE DEF k
    <3>3. /\ \A j : Due(j)' <=> Due(j) \/ j = k
          /\ \A j : j # k /\ Alone(j) => Alone(j)'
      BY <1>0, <2>6, <3>1, <3>2, DueAppended
    <3>5. ASSUME NEW d \in Connections
          PROVE  ConsumeOK(d)' /\ UpsertOK(d)'
      <4>1. UpsertOK(d)'
        BY <1>1, <1>2, <2>6, <3>1, <3>3, UpsertKept
      <4>2. ConsumeOK(d)'
        BY <1>1, <1>2, <2>4, <2>6, <3>1, <3>3, ConsumeKept
      <4> QED BY <4>1, <4>2
    <3>6. Accepted'
      BY <1>0, <2>1, <2>2, <2>6, <3>1, <3>3, WorkerAccepted
    <3> QED BY <1>3, <2>5, <2>6, <3>5, <3>6 DEF Registered
  <2>7. CASE /\ WorkerChange(w, "events", worker[w].job)
             /\ wrote[Write("consume", c)] # "ok" /\ UNCHANGED <<current, actorVars>>
    <3>1. UNCHANGED <<writes, writing, wrote>>
      BY <2>7 DEF actorVars
    <3>2. \A j : (Due(j)' <=> Due(j)) /\ (Alone(j) => Alone(j)')
      BY <3>1, DueSame
    <3>4. ASSUME NEW d \in Connections
          PROVE  ConsumeOK(d)' /\ UpsertOK(d)'
      <4>1. UpsertOK(d)'
        BY <1>1, <1>2, <3>1, <3>2, UpsertKept
      <4>2. ConsumeOK(d)'
        BY <1>1, <1>2, <2>4, <2>7, <3>1, <3>2, ConsumeKept
      <4> QED BY <4>1, <4>2
    <3>5. Accepted'
      BY <1>0, <2>1, <2>2, <2>7, <3>1, <3>2, WorkerAccepted
    <3> QED BY <1>3, <2>5, <3>1, <3>4, <3>5 DEF Registered
  <2> QED BY <2>4, <2>6, <2>7
<1>12. CASE WorkerUpserted(w)
  <2>1. worker[w].at = "upsert" /\ inbox' = inbox
    BY <1>12 DEF WorkerUpserted
  <2>2. PICK c \in Connections : c = ConnOf(w) /\ Opened(c) /\ worker[w].job[1] = c
    BY <1>7, <2>1 DEF Busy
  <2>3. Holds(w, ConnOf(w))
    BY <2>1 DEF Holds
  <2>4. /\ wrote[Write("upsert", c)] # "" /\ WorkerChange(w, "events", worker[w].job)
        /\ Binds(c) /\ UNCHANGED <<writes, writing, wrote>>
    BY <1>0, <1>12, <2>2, UpsertedEffect DEF actorVars
  <2>5. Mutex'
    BY <1>2, <2>2, <2>3, <2>4, WorkerMutex
  <2>6. \A j : (Due(j)' <=> Due(j)) /\ (Alone(j) => Alone(j)')
    BY <2>4, DueSame
  <2>9. ASSUME NEW d \in Connections
        PROVE  ConsumeOK(d)' /\ UpsertOK(d)'
    <3>1. UpsertOK(d)'
      BY <1>1, <1>2, <2>4, <2>6, UpsertKept
    <3>2. ConsumeOK(d)'
      BY <1>1, <1>2, <2>4, <2>6, ConsumeKept
    <3> QED BY <3>1, <3>2
  <2>10. Accepted'
    BY <1>0, <2>1, <2>2, <2>4, <2>6, WorkerAccepted
  <2> QED BY <1>3, <2>4, <2>5, <2>9, <2>10 DEF Registered
<1> QED BY <1>5, <1>6, <1>8, <1>9, <1>10, <1>11, <1>12 DEF WorkerStep

(* The write actor takes a write; a token is revoked. *)
LEMMA TakeRegistered ==
  ASSUME Basics, Registered, ActorTake \/ Revoke
  PROVE  Registered'
<1>0. Types /\ Accepted /\ Mutex /\ OneWriting /\ Paid
      /\ \A d \in Connections : ConsumeOK(d) /\ UpsertOK(d)
  BY DEF Basics, Registered
<1>1. /\ UNCHANGED <<sessions, phase, owner, worker, current, inbox, wrote, agents>>
      /\ token'.uses = token.uses
  <2>1. UNCHANGED <<sessions, phase, owner, worker, current, inbox, wrote, agents>>
    BY DEF ActorTake, Revoke, acceptVars, peerVars, sessionVars, poolVars, actorVars, dbVars
  <2>2. token'.uses = token.uses
    <3>1. CASE ActorTake
      BY <3>1 DEF ActorTake, dbVars
    <3>2. CASE Revoke
      <4>1. token' = [token EXCEPT !.status = "revoked"]
        BY <3>2 DEF Revoke
      <4> QED BY <1>0, <4>1 DEF Types
    <3> QED BY <3>1, <3>2
  <2> QED BY <2>1, <2>2
<1>2. (\A j : Due(j)' <=> Due(j)) /\ (\A j : Alone(j) => Alone(j)') /\ OneWriting'
  <2>1. CASE ActorTake
    BY <1>0, <2>1, DueTaken
  <2>2. CASE Revoke
    <3>1. UNCHANGED <<writes, writing>>
      BY <2>2 DEF Revoke, actorVars
    <3> QED BY <1>0, <3>1, DueSame DEF OneWriting
  <2> QED BY <2>1, <2>2
<1>3. Accepted'
  BY <1>0, <1>1, <1>2 DEF Accepted, Opened
<1>4. Mutex' /\ Paid'
  <2>1. Mutex'
    BY <1>0, <1>1 DEF Mutex, Holds, ConnOf
  <2>2. Granted' = Granted
    BY <1>1 DEF Granted
  <2> QED BY <1>0, <1>1, <2>1, <2>2 DEF Paid
<1>5. ASSUME NEW d \in Connections
      PROVE  ConsumeOK(d)' /\ UpsertOK(d)'
  <2>2. ConsumeOK(d)'
    BY <1>0, <1>1, <1>2 DEF ConsumeOK
  <2>3. UpsertOK(d)'
    BY <1>0, <1>1, <1>2 DEF UpsertOK
  <2> QED BY <2>2, <2>3
<1> QED BY <1>2, <1>3, <1>4, <1>5 DEF Registered

(* The write actor runs a write: a use of the token is granted to a        *)
(* connection that has none, and an agent gets its row after one.          *)
LEMMA RunRegistered ==
  ASSUME Basics, Registered, ActorRun
  PROVE  Registered'
<1>0. Types /\ Accepted /\ Mutex /\ OneWriting /\ Paid
      /\ \A d \in Connections : ConsumeOK(d) /\ UpsertOK(d)
  BY DEF Basics, Registered
<1>1. UNCHANGED <<sessions, phase, owner, worker, current>>
  BY DEF ActorRun, acceptVars, peerVars, sessionVars, poolVars
<1>2. PICK j \in writing :
        /\ writing' = {} /\ UNCHANGED writes
        /\ wrote' \in [Writes -> {"", "ok", "rejected", "failed"}]
        /\ \A i \in Writes \ {j} : wrote'[i] = wrote[i]
        /\ \A d \in Connections : d # j.conn => inbox'[d] = inbox[d]
        /\ \/ /\ j.op = "consume" /\ UNCHANGED agents
              /\ \/ /\ token.status = "active" /\ token.uses < MaxUses
                    /\ wrote'[j] = "ok" /\ token'.uses = token.uses + 1
                    /\ token' \in [status : {"active", "consumed", "revoked"}, uses : Nat]
                 \/ wrote'[j] = "rejected" /\ UNCHANGED token
           \/ /\ j.op = "upsert" /\ wrote'[j] = "ok" /\ UNCHANGED token
              /\ agents' = [agents EXCEPT ![owner[j.conn]] = "online"]
           \/ /\ j.op = "offline" /\ wrote'[j] = "ok" /\ UNCHANGED token
              /\ agents' = [agents EXCEPT ![owner[j.conn]] = "offline"]
           \/ wrote'[j] = "failed" /\ UNCHANGED <<token, agents>>
  BY <1>0, RunEffect
<1> DEFINE c == j.conn
<1>3. j \in Writes /\ c \in Connections /\ j = Write(j.op, c) /\ Opened(c)
      /\ c # Nil /\ owner[c] \in Agents
  <2>1. j \in Writes /\ c \in Connections /\ j = Write(j.op, c)
    BY <1>0, <1>2, WriteNames DEF Types
  <2>2. Due(j)
    BY <1>2 DEF Due
  <2>3. Opened(c)
    BY <1>0, <2>1, <2>2 DEF Accepted
  <2> QED BY <1>0, <2>1, <2>3, ServerConstants DEF Accepted, Opened
<1>4. PICK e \in Connections : e = c
  BY <1>3
<1> HIDE DEF c
<1>5. /\ j.conn = e /\ j = Write(j.op, e) /\ Opened(e) /\ owner[e] \in Agents
      /\ \A op \in {"consume", "upsert", "offline"}, d \in Connections :
           Write(op, d) \in Writes /\ (Write(op, d) = j <=> op = j.op /\ d = e)
  <2>1. j.conn = e /\ j = Write(j.op, e) /\ Opened(e) /\ owner[e] \in Agents
    BY <1>3, <1>4 DEF c
  <2>2. \A op \in {"consume", "upsert", "offline"}, d \in Connections :
           Write(op, d) \in Writes /\ Write(op, d).op = op /\ Write(op, d).conn = d
    BY WriteNames
  <2> QED BY <2>1, <2>2
<1>6. /\ \A i : i # j => (Due(i)' <=> Due(i))
      /\ Due(j) /\ \A i : Alone(i) => Alone(i)'
      /\ Alone(j) => ~Due(j)'
      /\ OneWriting'
      /\ \A i : Due(i)' => Due(i)
  BY <1>0, <1>2, DueRun
<1>7. /\ \A a \in Agents : agents[a] # "none" => agents'[a] # "none"
      /\ \A a \in Agents : agents'[a] = agents[a] \/ (a = owner[e] /\ j.op # "consume")
      /\ j.op # "consume" /\ wrote'[j] = "ok" => agents'[owner[e]] # "none"
  <2>1. /\ DOMAIN agents = Agents /\ \A a \in Agents : agents[a] \in {"none", "online", "offline"}
        /\ agents = [a \in Agents |-> agents[a]]
    BY <1>0 DEF Types
  <2>2. \/ agents' = agents /\ (j.op = "consume" \/ wrote'[j] = "failed")
        \/ /\ j.op # "consume"
           /\ \E s \in {"online", "offline"} : agents' = [agents EXCEPT ![owner[e]] = s]
    BY <1>2, <1>5
  <2>3. CASE agents' = agents /\ (j.op = "consume" \/ wrote'[j] = "failed")
    BY <2>3
  <2>4. ASSUME j.op # "consume", NEW s \in {"online", "offline"},
               agents' = [agents EXCEPT ![owner[e]] = s]
        PROVE  /\ \A a \in Agents : agents[a] # "none" => agents'[a] # "none"
               /\ \A a \in Agents : agents'[a] = agents[a] \/ (a = owner[e] /\ j.op # "consume")
               /\ agents'[owner[e]] # "none"
    <3>1. agents'[owner[e]] = s /\ \A a \in Agents : a # owner[e] => agents'[a] = agents[a]
      BY <1>5, <2>1, <2>4
    <3>2. s # "none"
      OBVIOUS
    <3> QED BY <2>4, <3>1, <3>2
  <2> QED BY <2>2, <2>3, <2>4
<1>8. Accepted'
  <2>1. \A d \in Connections : d \in sessions' \/ inbox'[d] # <<>> => Opened(d)
    BY <1>0, <1>1, <1>2, <1>5 DEF Accepted
  <2>2. \A i \in Writes : Due(i)' \/ wrote'[i] # "" => Opened(i.conn)
    BY <1>0, <1>2, <1>5, <1>6 DEF Accepted
  <2>3. \A d \in Connections : Opened(d) <=> phase'[d] \in {"open", "closed"}
    BY <1>1 DEF Opened
  <2>4. \A a \in Agents : current'[a] # Nil =>
           /\ phase'[current'[a]] \in {"open", "closed"}
           /\ owner'[current'[a]] = a /\ agents'[a] # "none"
    <3>1. \A a \in Agents : current[a] # Nil =>
           /\ current[a] \in Connections /\ Opened(current[a])
           /\ owner[current[a]] = a /\ agents[a] # "none"
      <4>1. \A a \in Agents : current[a] # Nil => current[a] \in Connections
        BY <1>0 DEF Types
      <4> QED BY <1>0, <4>1 DEF Accepted
    <3> QED BY <1>1, <1>7, <2>3, <3>1
  <2>5. \A i \in Writes : Due(i)' \/ wrote'[i] # "" => phase'[i.conn] \in {"open", "closed"}
    BY <2>2, <2>3, WriteNames
  <2>6. \A d \in Connections : phase'[d] # "away" => owner'[d] \in Agents
    BY <1>0, <1>1 DEF Accepted
  <2> QED BY <2>1, <2>3, <2>4, <2>5, <2>6 DEF Accepted, Opened
<1>9. Mutex'
  BY <1>0, <1>1 DEF Mutex, Holds, ConnOf
<1>10. \A op \in {"consume", "upsert", "offline"}, d \in Connections :
         Due(Write(op, d)) \/ wrote[Write(op, d)] # "" => owner[d] \in Agents
  <2>1. \A op \in {"consume", "upsert", "offline"}, d \in Connections :
          Write(op, d) \in Writes /\ Write(op, d).conn = d
    BY WriteNames
  <2>2. \A d \in Connections : Opened(d) => owner[d] \in Agents
    BY <1>0 DEF Accepted, Opened
  <2>3. \A i \in Writes : Due(i) \/ wrote[i] # "" => Opened(i.conn)
    BY <1>0 DEF Accepted
  <2>4. ASSUME NEW op \in {"consume", "upsert", "offline"}, NEW d \in Connections,
               Due(Write(op, d)) \/ wrote[Write(op, d)] # ""
        PROVE  owner[d] \in Agents
    <3>1. Write(op, d) \in Writes /\ Write(op, d).conn = d
      BY <2>1
    <3>2. Opened(d)
      BY <2>3, <2>4, <3>1
    <3> QED BY <2>2, <3>2
  <2> QED BY <2>4
<1>11. j.op = "consume" => wrote[j] = "" /\ ~Due(j)'
  BY <1>0, <1>5, <1>6 DEF ConsumeOK
<1>12. \A d \in Connections :
         /\ wrote[Write("consume", d)] = "ok" => wrote'[Write("consume", d)] = "ok"
         /\ Write("consume", d) # j => wrote'[Write("consume", d)] = wrote[Write("consume", d)]
  BY <1>2, <1>5, <1>11
<1>13. ASSUME NEW d \in Connections
       PROVE  ConsumeOK(d)' /\ UpsertOK(d)'
  <2> DEFINE k == Write("consume", d)
             u == Write("upsert", d)
             o == Write("offline", d)
  <2>1. k \in Writes /\ u \in Writes /\ o \in Writes
    BY <1>5
  <2>2. ConsumeOK(d)'
    <3>1. Alone(k) /\ (Due(k) => wrote[k] = "")
      BY <1>0 DEF ConsumeOK
    <3>2. Alone(k)'
      BY <1>6, <3>1
    <3>3. Due(k)' => wrote'[k] = ""
      BY <1>6, <1>12, <3>1
    <3> QED BY <3>2, <3>3 DEF ConsumeOK
  <2>3. wrote'[u] = "ok" => agents'[owner'[d]] # "none"
    <3>1. CASE u = j
      BY <1>1, <1>5, <1>7, <3>1
    <3>2. CASE u # j
      BY <1>0, <1>1, <1>2, <1>7, <1>10, <2>1, <3>2 DEF UpsertOK
    <3> QED BY <3>1, <3>2
  <2>4. Due(u)' => agents'[owner'[d]] # "none" \/ wrote'[k] = "ok"
    BY <1>0, <1>1, <1>6, <1>7, <1>10, <1>12 DEF UpsertOK
  <2>5. Due(o)' => agents'[owner'[d]] # "none"
    BY <1>0, <1>1, <1>6, <1>7, <1>10 DEF UpsertOK
  <2> QED BY <2>2, <2>3, <2>4, <2>5 DEF UpsertOK
<1>14. Paid'
  <2>1. /\ IsFiniteSet(Granted) /\ token.uses = Cardinality(Granted)
        /\ token.uses <= MaxUses /\ token.uses \in Nat /\ MaxUses \in Nat
        /\ \A a \in Agents : agents[a] # "none" => \E d \in Granted : owner[d] = a
    BY <1>0, ServerConstants DEF Paid, Types
  <2>2. Granted \subseteq Granted'
    BY <1>12 DEF Granted
  <2>3. \A a \in Agents : agents'[a] # "none" => \E d \in Granted' : owner'[d] = a
    <3>1. j.op = "consume" \/ \E d \in Granted : owner[d] = owner[e]
      <4>1. CASE agents[owner[e]] # "none"
        BY <1>5, <2>1, <4>1
      <4>2. CASE agents[owner[e]] = "none" /\ j.op # "consume"
        <5>1. j.op \in {"upsert", "offline"} /\ Due(Write(j.op, e))
          <6>1. j.op \in {"consume", "upsert", "offline"}
            BY <1>3, WriteNames
          <6> QED BY <1>5, <1>6, <4>2, <6>1
        <5>2. wrote[Write("consume", e)] = "ok"
          BY <1>0, <4>2, <5>1 DEF UpsertOK
        <5> QED BY <5>2 DEF Granted
      <4> QED BY <4>1, <4>2
    <3> QED BY <1>1, <1>7, <2>1, <2>2, <3>1
  <2>4. CASE j.op = "consume" /\ wrote'[j] = "ok"
    <3>1. token.uses < MaxUses /\ token'.uses = token.uses + 1
      BY <1>2, <2>4
    <3>2. Granted' = Granted \cup {e} /\ e \notin Granted
      <4>1. j = Write("consume", e)
        BY <1>5, <2>4
      <4>2. \A d \in Connections : d # e => Write("consume", d) # j
        BY <1>5
      <4> QED BY <1>11, <1>12, <2>4, <4>1, <4>2 DEF Granted
    <3>3. IsFiniteSet(Granted') /\ Cardinality(Granted') = Cardinality(Granted) + 1
      BY <2>1, <3>2, FS_AddElement
    <3>4. \A m, n \in Nat : m < n => m + 1 <= n
      OBVIOUS
    <3> QED BY <2>1, <2>3, <3>1, <3>3, <3>4 DEF Paid
  <2>5. CASE ~(j.op = "consume" /\ wrote'[j] = "ok")
    <3>1. token' = token
      BY <1>2, <2>5
    <3>2. Granted' = Granted
      <4>1. \A d \in Connections : Write("consume", d) = j => wrote'[j] # "ok" /\ wrote[j] # "ok"
        BY <1>5, <1>11, <2>5
      <4> QED BY <1>12, <4>1 DEF Granted
    <3> QED BY <2>1, <2>3, <3>1, <3>2 DEF Paid
  <2> QED BY <2>4, <2>5
<1> QED BY <1>6, <1>8, <1>9, <1>13, <1>14 DEF Registered

(* The steps of the acceptor, of the sessions and of Stop. *)
LEMMA SessionRegistered ==
  ASSUME Basics, Registered,
         \/ \E c \in Connections :
              \/ CompleteAccept(c) \/ Accept(c) \/ OnData(c)
              \/ OnPieceDone(c) \/ OnMarked(c) \/ OnAborted(c)
              \/ OnStop(c) /\ phase[c] = "closed"
         \/ StopBegin \/ CloseAcceptor \/ StopThread \/ ActorEnd
  PROVE  Registered'
<1>0. Types /\ \A c \in Connections : c \in sessions \/ inbox[c] # <<>> => Opened(c)
  <2>1. Types /\ Accepted
    BY DEF Basics, Registered
  <2> QED BY <2>1 DEF Accepted
<1>1. UNCHANGED <<owner, current, worker, writes, writing, wrote, agents, token>>
  BY DEF CompleteAccept, Accept, OnData, OnPieceDone, OnMarked, OnAborted, OnStop, StopBegin,
     CloseAcceptor,
     StopThread, StopSessions, StopPool, StopDatabase, ActorEnd, peerVars, sessionVars, poolVars,
     actorVars, dbVars
<1>2. ASSUME \A c \in Connections : phase'[c] = phase[c],
             \A c \in Connections : c \in sessions' \/ inbox'[c] # <<>> => Opened(c)
      PROVE  Registered'
  <2>1. \A c \in Connections : Opened(c) <=> Opened(c)'
    BY <1>2 DEF Opened
  <2> QED BY <1>0, <1>1, <1>2, <2>1, RegisteredFrame
<1>8. ASSUME NEW c \in Connections, CompleteAccept(c)
      PROVE  Registered'
  <2>1. /\ phase[c] = "knocking" /\ phase' = [phase EXCEPT ![c] = "accepted"]
        /\ UNCHANGED <<sessions, inbox>>
    BY <1>8 DEF CompleteAccept
  <2>2. phase'[c] = "accepted" /\ \A d \in Connections \ {c} : phase'[d] = phase[d]
    BY <1>0, <2>1 DEF Types
  <2>3. /\ \A d \in Connections : Opened(d) => Opened(d)'
        /\ \A d \in Connections : phase'[d] # "away" => phase[d] # "away"
        /\ \A d \in Connections : d \in sessions' \/ inbox'[d] # <<>> => Opened(d)'
    BY <1>0, <2>1, <2>2 DEF Opened
  <2> QED BY <1>0, <1>1, <2>3, RegisteredFrame
<1>3. ASSUME NEW c \in Connections, Accept(c)
      PROVE  Registered'
  <2>1. /\ phase[c] = "accepted"
        /\ \/ phase' = [phase EXCEPT ![c] = "open"] /\ sessions' \subseteq sessions \cup {c}
           \/ phase' = [phase EXCEPT ![c] = "refused"] /\ sessions' \subseteq sessions
        /\ inbox' = inbox
    BY <1>3 DEF Accept
  <2>2. /\ \A d \in Connections \ {c} : phase'[d] = phase[d]
        /\ \/ phase'[c] = "open" /\ sessions' \subseteq sessions \cup {c}
           \/ phase'[c] = "refused" /\ sessions' \subseteq sessions
    BY <1>0, <2>1 DEF Types
  <2>3. /\ \A d \in Connections : Opened(d) => Opened(d)'
        /\ \A d \in Connections : phase'[d] # "away" => phase[d] # "away"
        /\ \A d \in Connections : d \in sessions' \/ inbox'[d] # <<>> => Opened(d)'
    BY <1>0, <2>1, <2>2 DEF Opened
  <2> QED BY <1>0, <1>1, <2>3, RegisteredFrame
<1>4. ASSUME NEW c \in Connections, OnData(c)
      PROVE  Registered'
  <2>1. UNCHANGED <<phase, sessions, inbox>>
    BY <1>4, DataEffect DEF acceptVars
  <2> QED BY <1>0, <1>2, <2>1
<1>5. ASSUME NEW c \in Connections,
             \/ OnPieceDone(c) \/ OnMarked(c) \/ OnAborted(c)
             \/ OnStop(c) /\ phase[c] = "closed"
      PROVE  Registered'
  <2>1. /\ UNCHANGED <<phase, sessions>> /\ inbox[c] # <<>>
        /\ inbox' = [inbox EXCEPT ![c] = Tail(inbox[c])]
    BY <1>5 DEF OnPieceDone, OnMarked, OnAborted, OnStop, acceptVars
  <2>2. \A d \in Connections \ {c} : inbox'[d] = inbox[d]
    BY <1>0, <2>1 DEF Types
  <2> QED BY <1>0, <1>2, <2>1, <2>2
<1>6. CASE StopSessions
  <2>1. /\ phase' = phase /\ sessions' = {}
        /\ \A c \in Connections : inbox'[c] # <<>> => c \in sessions \/ inbox[c] # <<>>
    BY <1>6 DEF StopSessions, sessionVars
  <2> QED BY <1>0, <1>2, <2>1
<1>7. CASE StopBegin \/ CloseAcceptor \/ StopPool \/ StopDatabase \/ ActorEnd
  <2>1. UNCHANGED <<phase, sessions, inbox>>
    BY <1>7 DEF StopBegin, CloseAcceptor, StopPool, StopDatabase, ActorEnd, acceptVars,
       sessionVars
  <2> QED BY <1>0, <1>2, <2>1
<1> QED BY <1>3, <1>4, <1>5, <1>6, <1>7, <1>8 DEF StopThread

(* The invariant holds when the server starts, and along every step. *)
LEMMA RegisteredInit == Init => Registered
<1> SUFFICES ASSUME Init PROVE Registered
  OBVIOUS
<1>1. /\ \A c \in Connections : phase[c] = "away" /\ inbox[c] = <<>>
      /\ sessions = {} /\ writes = <<>> /\ writing = {}
      /\ \A a \in Agents : current[a] = Nil /\ agents[a] = "none"
      /\ \A w \in Workers : worker[w].at = "idle"
      /\ token.uses = 0
  BY DEF Init, Idle
<1>2. \A j \in Writes : wrote[j] = ""
  BY DEF Init
<1>3. \A j : ~Due(j) /\ Alone(j)
  BY <1>1 DEF Due, Alone, In, Once
<1>4. Accepted
  BY <1>1, <1>2, <1>3 DEF Accepted
<1>5. Mutex /\ OneWriting
  BY <1>1 DEF Mutex, OneWriting, Holds
<1>6. \A c \in Connections : ConsumeOK(c) /\ UpsertOK(c)
  BY <1>2, <1>3, WriteNames DEF ConsumeOK, UpsertOK
<1>7. Paid
  <2>1. Granted = {}
    <3>1. \A c \in Connections : wrote[Write("consume", c)] = ""
      BY <1>2, WriteNames
    <3> QED BY <3>1 DEF Granted
  <2> QED BY <1>1, <2>1, FS_EmptySet, ServerConstants DEF Paid
<1> QED BY <1>4, <1>5, <1>6, <1>7 DEF Registered

(* See above. *)
LEMMA RegisteredStep ==
  Basics /\ Registered /\ (\A w \in Workers : AsksOnce(w)) /\ [Next]_vars => Registered'
<1> SUFFICES ASSUME Basics, Registered, \A w \in Workers : AsksOnce(w), [Next]_vars
             PROVE  Registered'
  OBVIOUS
<1>1. CASE UNCHANGED vars
  <2>1. UNCHANGED <<owner, current, worker, writes, writing, wrote, agents, token,
                    phase, sessions, inbox>>
    BY <1>1 DEF vars, acceptVars, peerVars, sessionVars, poolVars, actorVars, dbVars
  <2>2. \A c \in Connections : c \in sessions \/ inbox[c] # <<>> => Opened(c)
    BY DEF Registered, Accepted
  <2> QED BY <2>1, <2>2, RegisteredFrame DEF Opened, Basics
<1>2. ASSUME NEW c \in Connections,
             Connect(c) \/ CompleteAccept(c) \/ Accept(c) \/ OnData(c) \/ OnEof(c) \/ OnPosted(c)
      PROVE  Registered'
  BY <1>2, ConnectRegistered, CloseRegistered, SessionRegistered DEF OnPosted
<1>3. ASSUME NEW w \in Workers, WorkerStep(w)
      PROVE  Registered'
  BY <1>3, WorkerRegistered
<1>4. CASE ActorTake \/ ActorRun \/ Revoke
  BY <1>4, TakeRegistered, RunRegistered
<1>5. CASE StopBegin \/ CloseAcceptor \/ StopThread \/ ActorEnd
  BY <1>5, SessionRegistered
<1> QED BY <1>1, <1>2, <1>3, <1>4, <1>5 DEF Next

----------------------------------------------------------------------------
(* What Stop leaves behind. *)

(* A session is listed until it is done, or Stop waits for it. *)
ListedOK ==
  ~IoStopped => \A c \in Connections : Opened(c) /\ ~done[c] => c \in sessions \cup stopper.swept

(* An accept that has completed is the only one until its handler has run. *)
OneAccepted ==
  \A c, d \in Connections : phase[c] = "accepted" =>
    acceptor # "armed" /\ (phase[d] = "accepted" => c = d)

(* When Stop has taken over the list in time, at most that one can come. *)
LateOK ==
  stopper.at \in {"waiting", "pool", "db", "stopped"} /\ ~stopper.timedOut =>
    /\ acceptor = "closed"
    /\ \A c \in sessions, d \in Connections :
         phase[d] # "accepted" /\ (d \in sessions => c = d)

ClosedOK ==
  /\ stopper.at \in {"running", "closing"} => stopper.swept = {}
  /\ OneAccepted /\ LateOK

(* A session is not done while its offline mark is on its way. *)
MarkOK(c) ==
  LET k == Write("offline", c) IN
  /\ Due(k) => phase[c] = "closed" /\ marking[c] /\ ~In(inbox[c], "marked")
  /\ Alone(k)
  /\ In(inbox[c], "marked") \/ In(inbox[c], "aborted") => phase[c] = "closed"
  /\ done[c] => phase[c] = "closed" /\ ~marking[c]

SweptOK ==
  IoStopped /\ ~stopper.timedOut =>
    \A c \in Connections \ sessions : phase[c] # "open" /\ ~Due(Write("offline", c))

Stops == ListedOK /\ ClosedOK /\ SweptOK /\ \A c \in Connections : MarkOK(c)

(* A step that has no part in the end of a session or of the server. *)
LEMMA StopsFrame ==
  ASSUME Stops, UNCHANGED <<acceptor, sessions, done, marking>>,
         stopper'.at = stopper.at, stopper'.swept = stopper.swept,
         stopper'.timedOut = stopper.timedOut,
         \A c \in Connections :
           /\ phase'[c] = phase[c] \/ (phase[c] = "away" /\ phase'[c] = "knocking")
           /\ Due(Write("offline", c))' => Due(Write("offline", c))
           /\ Alone(Write("offline", c)) => Alone(Write("offline", c))'
           /\ In(inbox'[c], "marked") => In(inbox[c], "marked")
           /\ In(inbox'[c], "aborted") => In(inbox[c], "aborted")
  PROVE  Stops'
<1>1. IoStopped' <=> IoStopped
  BY SamePoint
<1>2. ListedOK' /\ ClosedOK' /\ SweptOK'
  BY <1>1 DEF Stops, ListedOK, ClosedOK, LateOK, OneAccepted, SweptOK, Opened
<1>3. \A c \in Connections : MarkOK(c)'
  BY DEF Stops, MarkOK
<1> QED BY <1>2, <1>3 DEF Stops

(* The write of another kind, or of another connection. *)
LEMMA OfflineKept ==
  ASSUME Types, NEW k \in Writes, writes' = Append(writes, k), writing' = writing,
         NEW c \in Connections, k # Write("offline", c)
  PROVE  /\ Due(Write("offline", c))' <=> Due(Write("offline", c))
         /\ Alone(Write("offline", c)) => Alone(Write("offline", c))'
BY DueAppended

(* The steps of a worker: it submits no offline mark. *)
LEMMA WorkerStops ==
  ASSUME Basics, Registered, Stops, NEW w \in Workers, WorkerStep(w)
  PROVE  Stops'
<1>0. Types /\ StopOK /\ WorkerFrame
  BY WorkerBasics DEF Basics
<1>1. UNCHANGED <<acceptor, sessions, phase, done, marking, stopper>>
  BY <1>0 DEF WorkerFrame, acceptVars, sessionVars
<1>2. \/ UNCHANGED <<writes, writing>>
      \/ \E op \in {"upsert", "consume"}, c \in Connections :
           writes' = Append(writes, Write(op, c)) /\ writing' = writing
  <2>1. worker[w].at \in Busy => ConnOf(w) \in Connections
    BY WorkerOpened
  <2>2. CASE WorkerEvent(w)
    BY <1>0, <2>1, <2>2, EventEffect DEF Busy, actorVars
  <2>3. CASE WorkerConsumed(w)
    BY <1>0, <2>1, <2>3, ConsumedEffect DEF Busy, actorVars
  <2> QED BY <2>2, <2>3 DEF WorkerStep, WorkerTake, WorkerDecode, WorkerUpserted,
                            WorkerFinish, WorkerEnd, actorVars
<1>3. \A c \in Connections :
        /\ Due(Write("offline", c))' => Due(Write("offline", c))
        /\ Alone(Write("offline", c)) => Alone(Write("offline", c))'
  <2>1. CASE UNCHANGED <<writes, writing>>
    BY <2>1, DueSame
  <2>2. ASSUME NEW op \in {"upsert", "consume"}, NEW d \in Connections,
               writes' = Append(writes, Write(op, d)), writing' = writing
        PROVE  \A c \in Connections :
                 /\ Due(Write("offline", c))' => Due(Write("offline", c))
                 /\ Alone(Write("offline", c)) => Alone(Write("offline", c))'
    <3> TAKE c \in Connections
    <3>1. Write(op, d) \in Writes /\ Write(op, d) # Write("offline", c)
      BY WriteNames DEF Write
    <3> QED BY <1>0, <2>2, <3>1, OfflineKept
  <2> QED BY <1>2, <2>1, <2>2
<1>4. \A c \in Connections :
        /\ In(inbox'[c], "marked") => In(inbox[c], "marked")
        /\ In(inbox'[c], "aborted") => In(inbox[c], "aborted")
  <2>1. CASE WorkerFinish(w)
    <3>1. /\ worker[w].at = "events" /\ \E h \in {"failed", "accepted"} : Post(ConnOf(w), h)
      BY <1>0, <2>1, FinishEffect
    <3>2. PICK c \in Connections : c = ConnOf(w)
      BY <3>1, WorkerOpened DEF Busy
    <3>3. PICK h \in {"failed", "accepted"} : Post(c, h)
      BY <3>1, <3>2
    <3>4. /\ inbox'[c] = inbox[c] \/ inbox'[c] = Append(inbox[c], h)
          /\ \A d \in Connections \ {c} : inbox'[d] = inbox[d]
      BY <1>0, <3>3, PostEffect DEF Handlers
    <3>5. \A y : In(Append(inbox[c], h), y) => In(inbox[c], y) \/ y = h
      <4>1. inbox[c] \in Seq(Handlers) /\ h \in Handlers
        BY <1>0 DEF Types, Handlers
      <4> QED BY <4>1, AppendToQueue
    <3> QED BY <3>4, <3>5
  <2>2. CASE ~WorkerFinish(w)
    BY <2>2 DEF WorkerStep, WorkerTake, WorkerDecode, WorkerEvent, WorkerConsumed,
       WorkerUpserted, WorkerEnd
  <2> QED BY <2>1, <2>2
<1> QED BY <1>1, <1>3, <1>4, StopsFrame

(* A connection comes, a piece is received, a piece or a stop is handled,  *)
(* the write actor takes a write, a token is revoked.                      *)
LEMMA QuietStops ==
  ASSUME Basics, Registered, Stops,
         \/ \E c \in Connections :
              \/ Connect(c) \/ OnData(c) \/ OnPieceDone(c)
              \/ OnStop(c) /\ phase[c] = "closed"
         \/ ActorTake \/ Revoke
  PROVE  Stops'
<1>0. Types
  BY DEF Basics
<1>1. ASSUME NEW c \in Connections, Connect(c)
      PROVE  Stops'
  <2>1. /\ UNCHANGED <<acceptor, sessions, done, marking, stopper, inbox, writes, writing>>
        /\ phase' = [phase EXCEPT ![c] = "knocking"] /\ phase[c] = "away"
    BY <1>1 DEF Connect, acceptVars, actorVars
  <2>2. \A d \in Connections :
          phase'[d] = phase[d] \/ (phase[d] = "away" /\ phase'[d] = "knocking")
    BY <1>0, <2>1 DEF Types
  <2> QED BY <2>1, <2>2, DueSame, StopsFrame
<1>2. ASSUME NEW c \in Connections, OnData(c)
      PROVE  Stops'
  <2>1. /\ UNCHANGED <<acceptVars, phase, done, marking, actorVars, inbox>>
        /\ stopper' = [stopper EXCEPT !.underway = @ \ {c}]
    BY <1>2, DataEffect
  <2>2. /\ stopper'.at = stopper.at /\ stopper'.swept = stopper.swept
        /\ stopper'.timedOut = stopper.timedOut
    BY <1>0, <2>1 DEF Types
  <2>3. UNCHANGED <<acceptor, sessions, writes, writing>>
    BY <2>1 DEF acceptVars, actorVars
  <2> QED BY <2>1, <2>2, <2>3, DueSame, StopsFrame
<1>3. ASSUME NEW c \in Connections,
             OnPieceDone(c) \/ (OnStop(c) /\ phase[c] = "closed")
      PROVE  Stops'
  <2>1. /\ UNCHANGED <<acceptor, sessions, phase, done, marking, stopper, writes, writing>>
        /\ inbox[c] # <<>> /\ inbox' = [inbox EXCEPT ![c] = Tail(inbox[c])]
    BY <1>3 DEF OnPieceDone, OnStop, acceptVars, actorVars
  <2>2. /\ inbox'[c] = Tail(inbox[c]) /\ inbox[c] \in Seq(Handlers)
        /\ \A d \in Connections \ {c} : inbox'[d] = inbox[d]
    BY <1>0, <2>1 DEF Types
  <2>3. \A y : In(Tail(inbox[c]), y) => In(inbox[c], y)
    BY <2>1, <2>2, TailOfQueue
  <2> QED BY <2>1, <2>2, <2>3, DueSame, StopsFrame
<1>4. CASE ActorTake
  <2>1. UNCHANGED <<acceptor, sessions, phase, done, marking, stopper, inbox>>
    BY <1>4 DEF ActorTake, acceptVars, sessionVars
  <2> QED BY <1>0, <1>4, <2>1, DueTaken, StopsFrame
<1>5. CASE Revoke
  <2>1. UNCHANGED <<acceptor, sessions, phase, done, marking, stopper, inbox, writes, writing>>
    BY <1>5 DEF Revoke, acceptVars, sessionVars, actorVars
  <2> QED BY <2>1, DueSame, StopsFrame
<1> QED BY <1>1, <1>2, <1>3, <1>4, <1>5

(* An accept completes, and may be the only one to do so. *)
LEMMA CompleteStops ==
  ASSUME Basics, Registered, Stops, NEW c \in Connections, CompleteAccept(c)
  PROVE  Stops'
<1>0. Types
  BY DEF Basics
<1>1. /\ phase[c] = "knocking" /\ acceptor = "armed" /\ acceptor' = "idle"
      /\ phase' = [phase EXCEPT ![c] = "accepted"]
      /\ UNCHANGED <<sessions, done, marking, inbox, writes, writing, stopper>>
  BY DEF CompleteAccept, actorVars
<1>2. phase'[c] = "accepted" /\ \A d \in Connections \ {c} : phase'[d] = phase[d]
  BY <1>0, <1>1 DEF Types
<1>3. IoStopped' <=> IoStopped
  BY <1>1, SamePoint
<1>4. /\ \A d \in Connections : Opened(d)' <=> Opened(d)
      /\ \A d \in Connections : phase'[d] = "closed" <=> phase[d] = "closed"
      /\ \A d \in Connections : phase'[d] = "open" <=> phase[d] = "open"
  BY <1>1, <1>2 DEF Opened
<1>5. \A j : (Due(j)' <=> Due(j)) /\ (Alone(j) <=> Alone(j)')
  BY <1>1, DueSame
<1>6. ListedOK' /\ SweptOK'
  BY <1>1, <1>3, <1>4, <1>5 DEF Stops, ListedOK, SweptOK
<1>7. ClosedOK'
  BY <1>1, <1>2 DEF Stops, ClosedOK, LateOK, OneAccepted
<1>8. \A d \in Connections : MarkOK(d)'
  BY <1>1, <1>4, <1>5 DEF Stops, MarkOK
<1> QED BY <1>6, <1>7, <1>8 DEF Stops

(* A session is listed when it is accepted, with those that are not done. *)
LEMMA AcceptStops ==
  ASSUME Basics, Registered, Stops, NEW c \in Connections, Accept(c)
  PROVE  Stops'
<1>0. Types
  BY DEF Basics
<1>1. /\ phase[c] = "accepted" /\ acceptor' \in {acceptor, "armed"} /\ ~IoStopped
      /\ acceptor = "closed" => acceptor' = acceptor
      /\ UNCHANGED <<done, marking, inbox, writes, writing, stopper>>
      /\ \/ phase' = [phase EXCEPT ![c] = "refused"] /\ sessions' = {s \in sessions : ~done[s]}
         \/ /\ phase' = [phase EXCEPT ![c] = "open"]
            /\ sessions' = {s \in sessions : ~done[s]} \cup {c}
  BY DEF Accept, actorVars
<1>2. /\ \A d \in Connections \ {c} : phase'[d] = phase[d]
      /\ \/ phase'[c] = "refused" /\ sessions' = {s \in sessions : ~done[s]}
         \/ /\ phase'[c] = "open"
            /\ sessions' = {s \in sessions : ~done[s]} \cup {c}
  BY <1>0, <1>1 DEF Types
<1>3. IoStopped' <=> IoStopped
  BY <1>1, SamePoint
<1>4. ListedOK'
  BY <1>1, <1>2, <1>3 DEF Stops, ListedOK, Opened
<1>7. OneAccepted'
  <2>1. \A d \in Connections : phase[d] = "accepted" => d = c
    BY <1>1 DEF Stops, ClosedOK, OneAccepted
  <2>2. \A d \in Connections : phase'[d] # "accepted"
    BY <1>2, <2>1
  <2> QED BY <2>2 DEF OneAccepted
<1>8. LateOK'
  <2> SUFFICES ASSUME stopper.at \in {"waiting", "pool", "db", "stopped"}, ~stopper.timedOut
               PROVE  /\ acceptor' = "closed"
                      /\ \A e \in sessions', d \in Connections :
                           phase'[d] # "accepted" /\ (d \in sessions' => e = d)
    BY <1>1 DEF LateOK
  <2>1. acceptor = "closed" /\ sessions = {}
    <3>1. sessions \subseteq Connections
      BY <1>0 DEF Types
    <3> QED BY <1>1, <3>1 DEF Stops, ClosedOK, LateOK
  <2>2. \A d \in Connections : phase[d] = "accepted" => d = c
    BY <1>1 DEF Stops, ClosedOK, OneAccepted
  <2>3. sessions' \subseteq {c} /\ \A d \in Connections : phase'[d] # "accepted"
    BY <1>2, <2>1, <2>2
  <2> QED BY <1>1, <2>1, <2>3
<1>5. ClosedOK' /\ SweptOK'
  BY <1>1, <1>3, <1>7, <1>8 DEF Stops, ClosedOK, SweptOK
<1>6. ASSUME NEW d \in Connections
      PROVE  MarkOK(d)'
  <2>1. MarkOK(d) /\ (phase[d] = "closed" => phase'[d] = "closed")
    BY <1>1, <1>2 DEF Stops
  <2>2. /\ Due(Write("offline", d))' <=> Due(Write("offline", d))
        /\ Alone(Write("offline", d))' <=> Alone(Write("offline", d))
    BY <1>1, DueSame
  <2> QED BY <1>1, <2>1, <2>2 DEF MarkOK
<1> QED BY <1>4, <1>5, <1>6 DEF Stops

(* A session that is closed is done only when no offline mark was queued. *)
LEMMA CloseStops ==
  ASSUME Basics, Registered, Stops, NEW c \in Connections,
         OnEof(c) \/ (OnStop(c) /\ phase[c] # "closed")
  PROVE  Stops'
<1>0. Types
  BY DEF Basics
<1> DEFINE mine == current[owner[c]] = c
           k == Write("offline", c)
<1>1. PICK still \in BOOLEAN, rest \in Seq(Handlers) :
        /\ Close(c, still, rest) /\ ~IoStopped
        /\ UNCHANGED <<acceptVars, peerVars, received, pending, hasError,
                       answer, poolVars, dbVars, stopper>>
        /\ \/ phase[c] = "open" /\ rest = inbox[c]
           \/ /\ rest = Tail(inbox[c]) /\ inbox[c] # <<>>
              /\ Head(inbox[c]) = "stop" /\ phase[c] # "closed"
  BY <1>0, CloseSteps
<1>2. /\ phase' = [phase EXCEPT ![c] = "closed"]
      /\ marking' = [marking EXCEPT ![c] = mine]
      /\ done' = [done EXCEPT ![c] = done[c] \/ (~still /\ ~mine)]
      /\ inbox'[c] = rest \/ inbox'[c] = Append(rest, "aborted")
      /\ \A d \in Connections \ {c} : inbox'[d] = inbox[d]
      /\ writes' = IF mine THEN Append(writes, k) ELSE writes
      /\ UNCHANGED writing
  BY <1>0, <1>1, CloseEffect
<1>3. /\ phase[c] # "closed" /\ Opened(c)
      /\ UNCHANGED <<acceptor, sessions, stopper>>
  BY <1>1 DEF Registered, Accepted, Opened, acceptVars
<1>4. /\ phase'[c] = "closed" /\ marking'[c] = mine
      /\ done'[c] = (done[c] \/ (~still /\ ~mine))
      /\ \A d \in Connections \ {c} :
           phase'[d] = phase[d] /\ marking'[d] = marking[d] /\ done'[d] = done[d]
  BY <1>0, <1>2 DEF Types
<1>5. k \in Writes /\ \A d \in Connections : Write("offline", d) = k => d = c
  BY WriteNames DEF Write
<1>6. MarkOK(c)
  BY DEF Stops
<1>7. ~Due(k) /\ ~In(inbox[c], "marked") /\ done[c] = FALSE /\ Alone(k)
  BY <1>0, <1>3, <1>6 DEF MarkOK, Types
<1>8. ~In(rest, "marked")
  <2>1. inbox[c] # <<>> => \A y : In(Tail(inbox[c]), y) => In(inbox[c], y)
    <3>1. inbox[c] \in Seq(Handlers)
      BY <1>0 DEF Types
    <3> QED BY <3>1, TailOfQueue
  <2> QED BY <1>1, <1>7, <2>1
<1>9. ~In(inbox'[c], "marked")
  <2>1. \A y : In(Append(rest, "aborted"), y) => In(rest, y) \/ y = "aborted"
    <3>1. "aborted" \in Handlers
      BY DEF Handlers
    <3> QED BY <3>1, AppendToQueue
  <2> QED BY <1>2, <1>8, <2>1
<1> HIDE DEF mine, k
<1>10. /\ \A j : Due(j)' <=> Due(j) \/ (mine /\ j = k)
       /\ \A j : j # k /\ Alone(j) => Alone(j)'
       /\ Alone(k)'
  <2>1. CASE mine
    <3>1. writes' = Append(writes, k) /\ writing' = writing
      BY <1>2, <2>1
    <3>2. /\ \A j : Due(j)' <=> Due(j) \/ j = k
          /\ \A j : j # k /\ Alone(j) => Alone(j)'
          /\ ~Due(k) => Alone(k)'
      BY <1>0, <1>5, <3>1, DueAppended
    <3> QED BY <1>7, <2>1, <3>2
  <2>2. CASE ~mine
    <3>1. UNCHANGED <<writes, writing>>
      BY <1>2, <2>2
    <3>2. \A j : (Due(j)' <=> Due(j)) /\ (Alone(j) <=> Alone(j)')
      BY <3>1, DueSame
    <3> QED BY <1>7, <2>2, <3>2
  <2> QED BY <2>1, <2>2
<1>11. IoStopped' <=> IoStopped
  BY <1>3, SamePoint
<1>12. ListedOK' /\ ClosedOK' /\ SweptOK'
  <2>1. ListedOK'
    <3>1. \A d \in Connections : (phase'[d] \in {"open", "closed"} => Opened(d))
                                 /\ (~done'[d] => ~done[d])
      BY <1>3, <1>4, <1>7 DEF Opened
    <3> QED BY <1>3, <1>11, <3>1 DEF Stops, ListedOK, Opened
  <2>2. \A d \in Connections : phase'[d] = "accepted" => phase[d] = "accepted"
    BY <1>4
  <2>3. ClosedOK'
    BY <1>3, <2>2 DEF Stops, ClosedOK, LateOK, OneAccepted
  <2> QED BY <1>1, <1>11, <2>1, <2>3 DEF SweptOK
<1>13. ASSUME NEW d \in Connections
       PROVE  MarkOK(d)'
  <2>1. CASE d = c
    <3>1. Write("offline", d) = k
      BY <2>1 DEF k
    <3>2. Due(k)' <=> mine
      BY <1>7, <1>10
    <3>3. done'[c] => ~mine
      BY <1>4, <1>7
    <3> QED BY <1>4, <1>9, <1>10, <2>1, <3>1, <3>2, <3>3 DEF MarkOK
  <2>2. CASE d # c
    <3>1. MarkOK(d) /\ Write("offline", d) # k
      BY <1>5, <2>2 DEF Stops
    <3> QED BY <1>2, <1>4, <1>10, <2>2, <3>1 DEF MarkOK
  <2> QED BY <2>1, <2>2
<1> QED BY <1>12, <1>13 DEF Stops

(* The cancelled read, or the offline mark, of a closed session is over. *)
LEMMA DoneStops ==
  ASSUME Basics, Registered, Stops, NEW c \in Connections, OnMarked(c) \/ OnAborted(c)
  PROVE  Stops'
<1>0. Types /\ MarkOK(c)
  BY DEF Basics, Stops
<1>1. /\ UNCHANGED <<acceptor, sessions, phase, writes, writing, stopper>>
      /\ inbox[c] # <<>> /\ inbox' = [inbox EXCEPT ![c] = Tail(inbox[c])]
      /\ ~IoStopped
  BY DEF OnMarked, OnAborted, acceptVars, actorVars
<1>2. /\ inbox'[c] = Tail(inbox[c]) /\ inbox[c] \in Seq(Handlers)
      /\ \A d \in Connections \ {c} : inbox'[d] = inbox[d]
  BY <1>0, <1>1 DEF Types
<1>3. /\ \A y : In(Tail(inbox[c]), y) => In(inbox[c], y)
      /\ In(inbox[c], Head(inbox[c]))
  BY <1>1, <1>2, TailOfQueue
<1>4. /\ phase[c] = "closed"
      /\ \A d \in Connections \ {c} : marking'[d] = marking[d] /\ done'[d] = done[d]
      /\ done[c] => done'[c]
      /\ \/ ~Due(Write("offline", c)) /\ marking'[c] = FALSE
         \/ marking'[c] = marking[c] /\ (done'[c] => done[c] \/ ~marking[c])
  <2>1. CASE OnMarked(c)
    <3>1. /\ Head(inbox[c]) = "marked" /\ marking' = [marking EXCEPT ![c] = FALSE]
          /\ done' = [done EXCEPT ![c] = done[c] \/ ~reading[c]]
      BY <1>0, <2>1 DEF OnMarked, Done, Types
    <3>2. /\ marking'[c] = FALSE /\ (done[c] => done'[c])
          /\ \A d \in Connections \ {c} : marking'[d] = marking[d] /\ done'[d] = done[d]
      BY <1>0, <3>1 DEF Types
    <3> QED BY <1>0, <1>3, <3>1, <3>2 DEF MarkOK
  <2>2. CASE OnAborted(c)
    <3>1. /\ Head(inbox[c]) = "aborted" /\ marking' = marking
          /\ done' = [done EXCEPT ![c] = done[c] \/ ~marking[c]]
      BY <1>0, <2>2 DEF OnAborted, Done, Types
    <3>2. /\ done'[c] = (done[c] \/ ~marking[c])
          /\ \A d \in Connections \ {c} : done'[d] = done[d]
      BY <1>0, <3>1 DEF Types
    <3> QED BY <1>0, <1>3, <3>1, <3>2 DEF MarkOK
  <2> QED BY <2>1, <2>2
<1>5. IoStopped' <=> IoStopped
  BY <1>1, SamePoint
<1>6. ListedOK' /\ ClosedOK' /\ SweptOK'
  <2>1. \A d \in Connections : ~done'[d] => ~done[d]
    BY <1>4
  <2> QED BY <1>1, <1>5, <2>1 DEF Stops, ListedOK, ClosedOK, LateOK, OneAccepted, SweptOK, Opened
<1>7. \A j : (Due(j)' <=> Due(j)) /\ (Alone(j) <=> Alone(j)')
  BY <1>1, DueSame
<1>8. ASSUME NEW d \in Connections
      PROVE  MarkOK(d)'
  <2>1. MarkOK(d)
    BY DEF Stops
  <2>2. CASE d # c
    BY <1>1, <1>2, <1>4, <1>7, <2>1, <2>2 DEF MarkOK
  <2>3. CASE d = c
    BY <1>1, <1>2, <1>3, <1>4, <1>7, <2>1, <2>3 DEF MarkOK
  <2> QED BY <2>2, <2>3
<1> QED BY <1>6, <1>8 DEF Stops

(* The write actor has run a write: an offline mark is posted back. *)
LEMMA RunStops ==
  ASSUME Basics, Registered, Stops, ActorRun
  PROVE  Stops'
<1>0. Types /\ OneWriting
  BY DEF Basics, Registered
<1>1. PICK j \in writing :
        /\ writing' = {} /\ UNCHANGED writes
        /\ \A d \in Connections :
             inbox'[d] = IF d = j.conn /\ j.op = "offline" /\ ~IoStopped
                         THEN Append(inbox[d], "marked") ELSE inbox[d]
  BY <1>0, RunEffect
<1>2. UNCHANGED <<acceptor, sessions, phase, done, marking, stopper>>
  BY DEF ActorRun, acceptVars, sessionVars
<1>3. j \in Writes /\ j.conn \in Connections /\ j = Write(j.op, j.conn)
  BY <1>0, <1>1, WriteNames DEF Types
<1>4. /\ Due(j) /\ \A i : Alone(i) => Alone(i)'
      /\ Alone(j) => ~Due(j)'
      /\ \A i : Due(i)' => Due(i)
  BY <1>0, <1>1, DueRun
<1>5. IoStopped' <=> IoStopped
  BY <1>2, SamePoint
<1>6. ListedOK' /\ ClosedOK' /\ SweptOK'
  BY <1>2, <1>4, <1>5 DEF Stops, ListedOK, ClosedOK, LateOK, OneAccepted, SweptOK, Opened
<1>7. ASSUME NEW d \in Connections
      PROVE  MarkOK(d)'
  <2>1. MarkOK(d)
    BY DEF Stops
  <2>2. CASE d = j.conn /\ j.op = "offline"
    <3>1. j = Write("offline", d)
      BY <1>3, <2>2
    <3>2. phase[d] = "closed" /\ Alone(j) /\ ~Due(j)'
      BY <1>4, <2>1, <3>1 DEF MarkOK
    <3> QED BY <1>2, <1>4, <2>1, <3>1, <3>2 DEF MarkOK
  <2>3. CASE ~(d = j.conn /\ j.op = "offline")
    <3>1. inbox'[d] = inbox[d]
      BY <1>1, <2>3
    <3> QED BY <1>2, <1>4, <2>1, <3>1 DEF MarkOK
  <2> QED BY <2>2, <2>3
<1> QED BY <1>6, <1>7 DEF Stops

(* The steps of Stop: it takes over the list when the acceptor is closed,  *)
(* and goes on when all that was listed is done.                           *)
LEMMA ServerStops ==
  ASSUME Basics, Registered, Stops, StopBegin \/ CloseAcceptor \/ StopThread \/ ActorEnd
  PROVE  Stops'
<1>0. Types /\ Types' /\ PointsOK
  BY BasicsStep, Points DEF Basics, Next
<1>1. /\ UNCHANGED <<phase, done, marking, writes, writing>>
      /\ StopSessions \/ UNCHANGED <<sessions, inbox>>
  BY DEF StopBegin, CloseAcceptor, StopThread, StopSessions, StopPool, StopDatabase, ActorEnd,
     acceptVars, sessionVars, actorVars
<1>2. /\ IoStopped <=> stopper.at \in {"pool", "db", "stopped"}
      /\ IoStopped' <=> stopper'.at \in {"pool", "db", "stopped"}
      /\ stopper.at \in {"running", "closing", "waiting", "pool", "db", "stopped"}
  BY <1>0, StopOrderNext DEF PointsOK
<1>3. \A j : (Due(j)' <=> Due(j)) /\ (Alone(j) <=> Alone(j)')
  BY <1>1, DueSame
<1>4. ListedOK /\ ClosedOK /\ SweptOK /\ \A c \in Connections : MarkOK(c)
  BY DEF Stops
<1>5. \A c \in Connections : Opened(c)' <=> Opened(c)
  BY <1>1 DEF Opened
<1>6. \A c \in Connections : MarkOK(c)'
  <2>1. \A c \in Connections :
          /\ In(inbox'[c], "marked") => In(inbox[c], "marked")
          /\ In(inbox'[c], "aborted") => In(inbox[c], "aborted")
    <3>1. CASE StopSessions
      <4>1. \A c \in Connections : inbox'[c] = inbox[c] \/ inbox'[c] = Append(inbox[c], "stop")
        BY <3>1 DEF StopSessions
      <4>2. \A c \in Connections : \A y : In(Append(inbox[c], "stop"), y) =>
                                            In(inbox[c], y) \/ y = "stop"
        <5>1. "stop" \in Handlers /\ \A c \in Connections : inbox[c] \in Seq(Handlers)
          BY <1>0 DEF Types, Handlers
        <5> QED BY <5>1, AppendToQueue
      <4> QED BY <4>1, <4>2
    <3> QED BY <1>1, <3>1
  <2> QED BY <1>1, <1>3, <1>4, <2>1 DEF MarkOK
<1>7. CASE StopBegin
  <2>1. stopper' = [stopper EXCEPT !.at = "closing"] /\ stopper.at = "running"
        /\ UNCHANGED <<acceptor, sessions>>
    BY <1>7 DEF StopBegin, acceptVars
  <2>2. stopper'.at = "closing" /\ stopper'.swept = stopper.swept
    BY <1>0, <2>1 DEF Types
  <2>3. ListedOK' /\ ClosedOK' /\ SweptOK'
    BY <1>1, <1>2, <1>4, <1>5, <2>1, <2>2 DEF ListedOK, ClosedOK, LateOK, OneAccepted, SweptOK
  <2> QED BY <1>6, <2>3 DEF Stops
<1>8. CASE CloseAcceptor
  <2>1. UNCHANGED <<stopper, sessions>> /\ acceptor' = "closed"
    BY <1>8 DEF CloseAcceptor
  <2>2. ListedOK' /\ ClosedOK' /\ SweptOK'
    BY <1>1, <1>2, <1>3, <1>4, <1>5, <2>1 DEF ListedOK, ClosedOK, LateOK, OneAccepted, SweptOK
  <2> QED BY <1>6, <2>2 DEF Stops
<1>9. CASE StopSessions
  <2>1. /\ stopper.at = "closing" /\ sessions' = {} /\ acceptor' = acceptor
        /\ stopper'.at = "waiting" /\ stopper'.swept = sessions
        /\ stopper'.timedOut = (acceptor # "closed")
    BY <1>0, <1>9, StopEffect DEF StopSessions, StopThread
  <2>2. ListedOK'
    <3>1. \A c \in Connections : Opened(c) /\ ~done[c] => c \in sessions
      BY <1>2, <1>4, <2>1 DEF ListedOK, ClosedOK, LateOK, OneAccepted
    <3> QED BY <1>1, <1>5, <2>1, <3>1 DEF ListedOK
  <2>3. ClosedOK' /\ SweptOK'
    BY <1>1, <1>2, <1>4, <2>1 DEF ClosedOK, LateOK, OneAccepted, SweptOK
  <2> QED BY <1>6, <2>2, <2>3 DEF Stops
<1>10. CASE StopPool
  <2>1. /\ stopper.at = "waiting" /\ UNCHANGED <<acceptor, sessions>>
        /\ stopper'.at = "pool"
        /\ stopper'.timedOut = (stopper.timedOut \/ \E c \in stopper.swept : ~done[c])
    BY <1>0, <1>10, StopEffect DEF StopPool, StopThread, acceptVars
  <2>2. SweptOK'
    <3>1. SUFFICES ASSUME ~stopper'.timedOut, NEW c \in Connections,
                          c \notin sessions
                   PROVE  phase[c] # "open" /\ ~Due(Write("offline", c))
      BY <1>1, <1>3, <2>1 DEF SweptOK
    <3>2. /\ ~stopper.timedOut /\ c \notin sessions /\ \A d \in stopper.swept : done[d]
          /\ Opened(c) /\ ~done[c] => c \in sessions \cup stopper.swept
      BY <1>2, <1>4, <2>1, <3>1 DEF ClosedOK, LateOK, OneAccepted, ListedOK
    <3>3. done[c] => phase[c] = "closed" /\ ~Due(Write("offline", c))
      BY <1>4 DEF MarkOK
    <3>4. Due(Write("offline", c)) => Opened(c)
      BY <1>4 DEF MarkOK, Opened
    <3>5. phase[c] = "open" => Opened(c)
      BY DEF Opened
    <3> QED BY <3>2, <3>3, <3>4, <3>5
  <2>3. ListedOK' /\ ClosedOK'
    BY <1>1, <1>2, <1>4, <2>1 DEF ClosedOK, LateOK, OneAccepted, ListedOK
  <2> QED BY <1>6, <2>2, <2>3 DEF Stops
<1>11. CASE StopDatabase \/ ActorEnd
  <2>1. /\ stopper.at \in {"pool", "db"} /\ stopper'.at \in {"db", "stopped"}
        /\ stopper'.timedOut = stopper.timedOut /\ UNCHANGED <<acceptor, sessions>>
    BY <1>0, <1>11, StopEffect DEF StopDatabase, ActorEnd, StopThread, acceptVars
  <2>2. ListedOK' /\ ClosedOK' /\ SweptOK'
    BY <1>1, <1>2, <1>3, <1>4, <2>1 DEF ListedOK, ClosedOK, LateOK, OneAccepted, SweptOK
  <2> QED BY <1>6, <2>2 DEF Stops
<1> QED BY <1>7, <1>8, <1>9, <1>10, <1>11 DEF StopThread

(* It holds when the server starts, and along every step. *)
LEMMA StopsInit == Init => Stops
<1> SUFFICES ASSUME Init PROVE Stops
  OBVIOUS
<1>1. /\ \A c \in Connections : phase[c] = "away" /\ inbox[c] = <<>> /\ done[c] = FALSE
      /\ writes = <<>> /\ writing = {}
      /\ stopper.at = "running" /\ stopper.swept = {}
  BY DEF Init
<1>2. \A j : ~Due(j) /\ Alone(j) /\ ~In(<<>>, j)
  BY <1>1 DEF Due, Alone, In, Once
<1>3. PointsOK
  BY BasicsInit, Points DEF Basics
<1>4. ListedOK /\ ClosedOK /\ SweptOK
  BY <1>1, <1>3 DEF ListedOK, ClosedOK, LateOK, OneAccepted, SweptOK, PointsOK, Opened
<1>5. \A c \in Connections : MarkOK(c)
  BY <1>1, <1>2 DEF MarkOK
<1> QED BY <1>4, <1>5 DEF Stops

(* See above. *)
LEMMA StopsStep == Basics /\ Registered /\ Stops /\ [Next]_vars => Stops'
<1> SUFFICES ASSUME Basics, Registered, Stops, [Next]_vars PROVE Stops'
  OBVIOUS
<1>1. CASE UNCHANGED vars
  <2>1. UNCHANGED <<acceptor, sessions, done, marking, stopper, phase, inbox, writes, writing>>
    BY <1>1 DEF vars, acceptVars, sessionVars, actorVars
  <2> QED BY <2>1, DueSame, StopsFrame
<1>2. ASSUME NEW c \in Connections,
             Connect(c) \/ CompleteAccept(c) \/ Accept(c) \/ OnData(c) \/ OnEof(c) \/ OnPosted(c)
      PROVE  Stops'
  BY <1>2, CompleteStops, AcceptStops, CloseStops, DoneStops, QuietStops DEF OnPosted
<1>3. ASSUME NEW w \in Workers, WorkerStep(w)
      PROVE  Stops'
  BY <1>3, WorkerStops
<1>4. CASE ActorTake \/ ActorRun \/ Revoke
  BY <1>4, QuietStops, RunStops
<1>5. CASE StopBegin \/ CloseAcceptor \/ StopThread \/ ActorEnd
  BY <1>5, ServerStops
<1> QED BY <1>1, <1>2, <1>3, <1>4, <1>5 DEF Next

----------------------------------------------------------------------------
(* The answer to a batch waits for its pieces. *)

WorksOn(w, j) == worker[w].at \in Busy /\ worker[w].job = j

InFlight(j) == In(tasks, j) \/ \E w \in Workers : WorksOn(w, j)

(* A piece is in the queue once, or one thread is at it. *)
JobsOK ==
  \A j \in Jobs :
    /\ Once(tasks, j)
    /\ \A v, w \in Workers : WorksOn(v, j) /\ WorksOn(w, j) => v = w
    /\ In(tasks, j) => \A w \in Workers : ~WorksOn(w, j)

Flying(j) == IF InFlight(j) THEN 1 ELSE 0

Results(c) == CountIn(inbox[c], {"accepted", "failed"})

(* pending_event_chunks counts the pieces in flight and the results that   *)
(* wait for the strand; a closed session, and one whose io has stopped,    *)
(* counts too many of them.                                                *)
CountOK(c) == pending[c] >= Flying(<<c, 1>>) + Flying(<<c, 2>>) + Results(c)

WaitOK(c) ==
  /\ DOMAIN pieces[c] = 1..Len(pieces[c])
  /\ \A i \in 1..received[c] : InFlight(<<c, i>>) \/ <<c, i>> \in ran \cup poolRefused
  /\ answer[c] # 0 =>
       /\ phase[c] # "away" /\ AllReceived(c)
       /\ ~InFlight(<<c, 1>>) /\ ~InFlight(<<c, 2>>)

Answers ==
  /\ pending \in [Connections -> Nat] /\ DOMAIN answer = Connections
  /\ JobsOK
  /\ \A c \in Connections : CountOK(c) /\ WaitOK(c)

(* The pieces in flight when neither the queue nor a thread changes. *)
LEMMA FlightSame ==
  ASSUME UNCHANGED <<tasks, worker>>
  PROVE  /\ \A j : InFlight(j)' <=> InFlight(j)
         /\ JobsOK => JobsOK'
BY DEF InFlight, WorksOn, JobsOK

(* A thread that goes on with its piece, or has none before and after. *)
LEMMA FlightKept ==
  ASSUME NEW w \in Workers, NEW at, WorkerChange(w, at, worker[w].job),
         at \in Busy <=> worker[w].at \in Busy, tasks' = tasks
  PROVE  /\ \A j : InFlight(j)' <=> InFlight(j)
         /\ JobsOK => JobsOK'
<1>1. \A v \in Workers, j \in {worker[w].job} \cup Jobs : WorksOn(v, j)' <=> WorksOn(v, j)
  BY DEF WorkerChange, WorksOn
<1>2. \A j : (\E v \in Workers : WorksOn(v, j)') <=> (\E v \in Workers : WorksOn(v, j))
  BY DEF WorkerChange, WorksOn
<1> QED BY <1>1, <1>2 DEF InFlight, JobsOK

(* A thread takes a piece from the queue. *)
LEMMA FlightTaken ==
  ASSUME Types, NEW w \in Workers, WorkerTake(w)
  PROVE  /\ \A j : InFlight(j)' <=> InFlight(j)
         /\ JobsOK => JobsOK'
<1>1. /\ WorkerChange(w, "lock", Head(tasks)) /\ tasks' = Tail(tasks)
      /\ worker[w].at = "idle" /\ tasks # <<>> /\ tasks \in Seq(Jobs)
  BY TakeEffect DEF Types
<1>2. /\ In(tasks, Head(tasks)) /\ Head(tasks) \in Jobs
      /\ \A y : In(Tail(tasks), y) => In(tasks, y)
      /\ \A y : In(tasks, y) /\ y # Head(tasks) => In(Tail(tasks), y)
      /\ \A y : Once(tasks, y) => Once(Tail(tasks), y)
      /\ Once(tasks, Head(tasks)) => ~In(Tail(tasks), Head(tasks))
  BY <1>1, TailOfQueue
<1>3. \A j : /\ WorksOn(w, j)' <=> j = Head(tasks)
             /\ ~WorksOn(w, j)
             /\ \A v \in Workers \ {w} : WorksOn(v, j)' <=> WorksOn(v, j)
  BY <1>1 DEF WorkerChange, WorksOn, Busy
<1>4. \A j : InFlight(j)' <=> InFlight(j)
  BY <1>1, <1>2, <1>3 DEF InFlight
<1>5. ASSUME JobsOK, NEW j \in Jobs
      PROVE  /\ Once(tasks', j)
             /\ \A u, v \in Workers : WorksOn(u, j)' /\ WorksOn(v, j)' => u = v
             /\ In(tasks', j) => \A v \in Workers : ~WorksOn(v, j)'
  BY <1>1, <1>2, <1>3, <1>5 DEF JobsOK
<1> QED BY <1>4, <1>5 DEF JobsOK

(* A thread is through with a piece. *)
LEMMA FlightEnded ==
  ASSUME Types, JobsOK, NEW w \in Workers, WorkerFinish(w)
  PROVE  LET k == worker[w].job IN
         /\ k \in Jobs /\ InFlight(k) /\ JobsOK'
         /\ \A j : InFlight(j)' <=> InFlight(j) /\ j # k
<1> DEFINE k == worker[w].job
<1>1. /\ WorkerChange(w, "idle", Nil) /\ worker[w].at = "events" /\ tasks' = tasks
      /\ k \in Jobs /\ WorksOn(w, k)
  BY FinishEffect DEF WorkerFinish, Types, WorksOn, Busy
<1>2. \A j : /\ ~WorksOn(w, j)'
             /\ WorksOn(w, j) <=> j = k
             /\ \A v \in Workers \ {w} : WorksOn(v, j)' <=> WorksOn(v, j)
  BY <1>1 DEF WorkerChange, WorksOn, Busy
<1>3. ~In(tasks, k) /\ \A v \in Workers : WorksOn(v, k) => v = w
  BY <1>1 DEF JobsOK
<1> HIDE DEF k
<1>4. InFlight(k) /\ \A j : InFlight(j)' <=> InFlight(j) /\ j # k
  BY <1>1, <1>2, <1>3 DEF InFlight
<1>5. JobsOK'
  <2>1. \A v \in Workers, j \in Jobs : WorksOn(v, j)' => WorksOn(v, j)
    BY <1>2
  <2> QED BY <1>1, <2>1 DEF JobsOK
<1> QED BY <1>1, <1>4, <1>5 DEF k

(* A piece is handed in. *)
LEMMA FlightSubmitted ==
  ASSUME Types, JobsOK, NEW k \in Jobs, ~InFlight(k),
         tasks' = Append(tasks, k), worker' = worker
  PROVE  /\ \A j : InFlight(j)' <=> InFlight(j) \/ j = k
         /\ JobsOK'
<1>1. tasks \in Seq(Jobs)
  BY DEF Types
<1>2. /\ \A y : In(Append(tasks, k), y) <=> In(tasks, y) \/ y = k
      /\ \A y : y # k /\ Once(tasks, y) => Once(Append(tasks, k), y)
      /\ ~In(tasks, k) => Once(Append(tasks, k), k)
  BY <1>1, AppendToQueue
<1>3. \A w \in Workers, j \in Jobs : WorksOn(w, j)' <=> WorksOn(w, j)
  BY DEF WorksOn
<1>4. \A j : InFlight(j)' <=> InFlight(j) \/ j = k
  BY <1>2 DEF InFlight, WorksOn
<1>5. JobsOK'
  BY <1>2, <1>3 DEF JobsOK, InFlight
<1> QED BY <1>4, <1>5

(* The results that wait for a strand. *)
LEMMA ResultsType ==
  ASSUME Types, NEW c \in Connections
  PROVE  Results(c) \in Nat
<1>1. inbox[c] \in Seq(Handlers) /\ "stop" \in Handlers
  BY DEF Types, Handlers
<1> QED BY <1>1, CountAppend DEF Results

(* A handler that carries no result is posted, or taken. *)
LEMMA ResultsSame ==
  ASSUME Types, NEW c \in Connections,
         \/ inbox'[c] = inbox[c]
         \/ \E h \in {"marked", "stop", "aborted"} : inbox'[c] = Append(inbox[c], h)
         \/ /\ inbox[c] # <<>> /\ Head(inbox[c]) \in {"marked", "stop", "aborted"}
            /\ inbox'[c] = Tail(inbox[c])
         \/ /\ inbox[c] # <<>> /\ Head(inbox[c]) \in {"marked", "stop", "aborted"}
            /\ inbox'[c] = Append(Tail(inbox[c]), "aborted")
  PROVE  Results(c)' = Results(c)
<1> DEFINE R == {"accepted", "failed"}
           q == inbox[c]
<1>1. q \in Seq(Handlers)
  BY DEF Types
<1>2. \A h \in {"marked", "stop", "aborted"} : h \in Handlers /\ h \notin R
  BY DEF Handlers
<1> HIDE DEF R, q
<1>3. ASSUME NEW s \in Seq(Handlers), NEW h \in {"marked", "stop", "aborted"}
      PROVE  CountIn(Append(s, h), R) = CountIn(s, R)
  BY <1>2, CountAppend
<1>4. ASSUME q # <<>>, Head(q) \in {"marked", "stop", "aborted"}
      PROVE  CountIn(Tail(q), R) = CountIn(q, R) /\ Tail(q) \in Seq(Handlers)
  <2>1. Tail(q) \in Seq(Handlers)
    BY <1>1, <1>4
  <2> QED BY <1>1, <1>2, <1>4, <2>1, CountTail
<1>5. \/ inbox'[c] = q
      \/ \E h \in {"marked", "stop", "aborted"} : inbox'[c] = Append(q, h)
      \/ /\ q # <<>> /\ Head(q) \in {"marked", "stop", "aborted"}
         /\ inbox'[c] \in {Tail(q), Append(Tail(q), "aborted")}
  BY DEF q
<1>6. CountIn(inbox'[c], R) = CountIn(q, R)
  <2>1. CASE inbox'[c] = q
    BY <2>1
  <2>2. ASSUME NEW h \in {"marked", "stop", "aborted"}, inbox'[c] = Append(q, h)
        PROVE  CountIn(inbox'[c], R) = CountIn(q, R)
    BY <1>1, <1>3, <2>2
  <2>3. CASE /\ q # <<>> /\ Head(q) \in {"marked", "stop", "aborted"}
             /\ inbox'[c] \in {Tail(q), Append(Tail(q), "aborted")}
    <3>1. CountIn(Tail(q), R) = CountIn(q, R) /\ Tail(q) \in Seq(Handlers)
      BY <1>4, <2>3
    <3>2. \A h \in {"marked", "stop", "aborted"} :
            CountIn(Append(Tail(q), h), R) = CountIn(Tail(q), R)
      BY <1>3, <3>1
    <3>3. CountIn(Append(Tail(q), "aborted"), R) = CountIn(Tail(q), R)
      BY <3>2
    <3> QED BY <2>3, <3>1, <3>3
  <2> QED BY <1>5, <2>1, <2>2, <2>3
<1> QED BY <1>6 DEF Results, R, q

(* A step that leaves the count, the pieces and the answers alone. *)
LEMMA AnswersFrame ==
  ASSUME Types, Answers, JobsOK', UNCHANGED <<pieces, received, pending, answer>>,
         \A j : InFlight(j)' <=> InFlight(j),
         ran \subseteq ran', poolRefused' = poolRefused,
         \A c \in Connections :
           /\ phase'[c] = "away" => phase[c] = "away"
           /\ Results(c)' = Results(c)
  PROVE  Answers'
<1>1. \A c \in Connections : CountOK(c)'
  BY DEF Answers, CountOK, Flying
<1>2. \A c \in Connections : WaitOK(c)'
  BY DEF Answers, WaitOK, AllReceived
<1> QED BY <1>1, <1>2 DEF Answers

(* Connect: nothing was received, nothing answered. *)
LEMMA ConnectAnswers ==
  ASSUME Basics, Answers, NEW c \in Connections, Connect(c)
  PROVE  Answers'
<1>0. Types /\ PiecesOK
  BY DEF Basics
<1>1. /\ phase' = [phase EXCEPT ![c] = "knocking"] /\ phase[c] = "away"
      /\ UNCHANGED <<received, pending, answer, inbox, tasks, worker, ran, poolRefused>>
      /\ \E cut : pieces' = [pieces EXCEPT ![c] = Pieces(cut)]
  BY DEF Connect, poolVars
<1>2. received[c] = 0 /\ answer[c] = 0
  BY <1>0, <1>1 DEF PiecesOK, Answers, WaitOK
<1>3. /\ DOMAIN pieces'[c] = 1..Len(pieces'[c])
      /\ \A d \in Connections \ {c} : pieces'[d] = pieces[d]
  <2>1. PICK cut : pieces' = [pieces EXCEPT ![c] = Pieces(cut)]
    BY <1>1
  <2>2. \E a, b : Pieces(cut) \in {<<>>, <<a, b>>, <<Batch>>}
    BY DEF Pieces
  <2>3. \A a, b : /\ DOMAIN <<>> = 1..Len(<<>>) /\ DOMAIN <<a>> = 1..Len(<<a>>)
                  /\ DOMAIN <<a, b>> = 1..Len(<<a, b>>)
    OBVIOUS
  <2>4. DOMAIN Pieces(cut) = 1..Len(Pieces(cut))
    BY <2>2, <2>3
  <2> QED BY <1>0, <2>1, <2>4 DEF Types
<1>4. (\A j : InFlight(j)' <=> InFlight(j)) /\ JobsOK'
  BY <1>1, FlightSame DEF Answers
<1>5. \A d \in Connections : Results(d)' = Results(d)
  BY <1>0, <1>1, ResultsSame
<1>6. \A d \in Connections : CountOK(d)'
  BY <1>1, <1>4, <1>5 DEF Answers, CountOK, Flying
<1>7. ASSUME NEW d \in Connections
      PROVE  WaitOK(d)'
  <2>1. CASE d = c
    BY <1>1, <1>2, <1>3, <2>1 DEF WaitOK
  <2>2. CASE d # c
    <3>1. pieces'[d] = pieces[d] /\ phase'[d] = phase[d]
      BY <1>0, <1>1, <1>3, <2>2 DEF Types
    <3> QED BY <1>1, <1>4, <3>1 DEF Answers, WaitOK, AllReceived
  <2> QED BY <2>1, <2>2
<1> QED BY <1>1, <1>4, <1>6, <1>7 DEF Answers

(* No piece of c is in flight when the count of c is zero. *)
LEMMA NoneInFlight ==
  ASSUME Types, Answers, NEW c \in Connections, pending[c] = 0
  PROVE  ~InFlight(<<c, 1>>) /\ ~InFlight(<<c, 2>>) /\ Results(c) = 0
<1>1. CountOK(c) /\ Results(c) \in Nat
  BY ResultsType DEF Answers
<1> QED BY <1>1 DEF CountOK, Flying

(* The numbers of a batch's pieces are 1 and 2. *)
LEMMA JobNumbers == \A j \in Jobs : j \in {<<j[1], 1>>, <<j[1], 2>>} /\ j[1] \in Connections
<1> SUFFICES ASSUME NEW d \in Connections, NEW i \in 1..2
             PROVE  <<d, i>> \in {<<d, 1>>, <<d, 2>>}
  BY DEF Jobs
<1>1. i = 1 \/ i = 2
  OBVIOUS
<1> QED BY <1>1

(* OnData: a piece is counted before it can be in flight, and a refused    *)
(* one is not; the answer is given only by the last piece.                 *)
LEMMA DataAnswers ==
  ASSUME Basics, Answers, NEW c \in Connections, OnData(c)
  PROVE  Answers'
<1> DEFINE k == <<c, received[c] + 1>>
<1>0. Types /\ PiecesOK /\ CountOK(c) /\ WaitOK(c) /\ pending[c] \in Nat
      /\ DOMAIN answer = Connections /\ received[c] \in Nat
  BY DEF Basics, Answers, Types
<1>1. /\ k \in Jobs /\ ~Numbered(k)
      /\ received' = [received EXCEPT ![c] = received[c] + 1]
      /\ \/ /\ PoolStopping /\ poolRefused' = poolRefused \cup {k} /\ UNCHANGED tasks
         \/ /\ ~PoolStopping /\ tasks' = Append(tasks, k) /\ UNCHANGED poolRefused
      /\ UNCHANGED <<pieces, phase, inbox, worker, ran>> /\ phase[c] = "open"
  BY DataEffect DEF peerVars
<1>2. /\ ~AllReceived(c)
      /\ pending' = [pending EXCEPT ![c] = pending[c] + (IF PoolStopping THEN 0 ELSE 1)]
      /\ answer' = [answer EXCEPT ![c] =
                      Answer(c, received[c] + 1 = Len(pieces[c]),
                             pending[c] + (IF PoolStopping THEN 0 ELSE 1),
                             hasError[c] \/ PoolStopping)]
  BY DEF OnData
<1>3. answer[c] = 0
  BY <1>0, <1>2 DEF WaitOK
<1>4. /\ pending'[c] = pending[c] + (IF PoolStopping THEN 0 ELSE 1)
      /\ answer'[c] # 0 => received[c] + 1 = Len(pieces[c]) /\ pending'[c] = 0
      /\ \A d \in Connections \ {c} : pending'[d] = pending[d] /\ answer'[d] = answer[d]
      /\ pending' \in [Connections -> Nat] /\ DOMAIN answer' = Connections
  <2>1. pending \in [Connections -> Nat]
    BY DEF Answers
  <2> QED BY <1>0, <1>2, <1>3, <2>1 DEF Answer
<1>5. /\ received'[c] = received[c] + 1
      /\ \A d \in Connections \ {c} : received'[d] = received[d]
  BY <1>0, <1>1 DEF Types
<1>6. ~InFlight(k)
  <2>1. \A j \in Jobs : In(tasks, j) => Numbered(j)
    BY <1>0 DEF PiecesOK
  <2>2. \A w \in Workers : worker[w].at \in Busy => Numbered(worker[w].job)
    BY <1>0 DEF PiecesOK
  <2> QED BY <1>1, <2>1, <2>2 DEF InFlight, WorksOn
<1>7. \A d \in Connections : Results(d)' = Results(d) /\ Results(d) \in Nat
  BY <1>0, <1>1, ResultsSame, ResultsType
<1>8. \A d \in Connections \ {c} : <<d, 1>> # k /\ <<d, 2>> # k
  OBVIOUS
<1>9. CASE PoolStopping
  <2>1. (\A j : InFlight(j)' <=> InFlight(j)) /\ JobsOK'
    BY <1>1, <1>9, FlightSame DEF Answers
  <2>2. ASSUME NEW d \in Connections
        PROVE  CountOK(d)'
    <3>1. pending'[d] = pending[d]
      BY <1>0, <1>4, <1>9
    <3> QED BY <1>7, <2>1, <3>1 DEF Answers, CountOK, Flying
  <2>3. ASSUME NEW d \in Connections
        PROVE  WaitOK(d)'
    <3>1. CASE d = c
      <4>1. \A i \in 1..received'[c] : i \in 1..received[c] \/ i = received[c] + 1
        BY <1>0, <1>5
      <4>2. \A i \in 1..received'[c] : InFlight(<<c, i>>)' \/ <<c, i>> \in ran' \cup poolRefused'
        BY <1>0, <1>1, <1>9, <2>1, <4>1 DEF WaitOK
      <4>3. answer'[c] # 0 => ~InFlight(<<c, 1>>)' /\ ~InFlight(<<c, 2>>)'
        <5>1. answer'[c] # 0 => pending[c] = 0
          BY <1>0, <1>4, <1>9
        <5> QED BY <1>0, <2>1, <5>1, NoneInFlight
      <4>4. answer'[c] # 0 => phase'[c] # "away" /\ received'[c] = Len(pieces'[c])
        BY <1>1, <1>4, <1>5
      <4>5. DOMAIN pieces'[c] = 1..Len(pieces'[c])
        BY <1>0, <1>1 DEF WaitOK
      <4> QED BY <3>1, <4>2, <4>3, <4>4, <4>5 DEF WaitOK, AllReceived
    <3>2. CASE d # c
      <4>1. received'[d] = received[d] /\ answer'[d] = answer[d]
        BY <1>4, <1>5, <3>2
      <4> QED BY <1>1, <1>9, <2>1, <4>1 DEF Answers, WaitOK, AllReceived
    <3> QED BY <3>1, <3>2
  <2> QED BY <1>4, <2>1, <2>2, <2>3 DEF Answers
<1>10. CASE ~PoolStopping
  <2>1. (\A j : InFlight(j)' <=> InFlight(j) \/ j = k) /\ JobsOK'
    <3>1. JobsOK /\ tasks' = Append(tasks, k) /\ worker' = worker
      BY <1>1, <1>10 DEF Answers
    <3> HIDE DEF k
    <3> QED BY <1>0, <1>1, <1>6, <3>1, FlightSubmitted
  <2>2. ASSUME NEW d \in Connections
        PROVE  CountOK(d)'
    <3>1. CASE d = c
      <4>1. Flying(<<c, 1>>)' + Flying(<<c, 2>>)' = Flying(<<c, 1>>) + Flying(<<c, 2>>) + 1
        <5>1. (k = <<c, 1>> /\ <<c, 2>> # k) \/ (k = <<c, 2>> /\ <<c, 1>> # k)
          BY <1>1, JobNumbers
        <5> HIDE DEF k
        <5> QED BY <1>6, <2>1, <5>1 DEF Flying
      <4>2. pending'[c] = pending[c] + 1
        BY <1>4, <1>10
      <4>3. Flying(<<c, 1>>) \in Nat /\ Flying(<<c, 2>>) \in Nat
            /\ Flying(<<c, 1>>)' \in Nat /\ Flying(<<c, 2>>)' \in Nat
        BY DEF Flying
      <4> QED BY <1>0, <1>7, <3>1, <4>1, <4>2, <4>3 DEF CountOK
    <3>2. CASE d # c
      <4>1. pending'[d] = pending[d]
        BY <1>4, <3>2
      <4>2. <<d, 1>> # k /\ <<d, 2>> # k
        BY <1>8, <3>2
      <4>3. Flying(<<d, 1>>)' = Flying(<<d, 1>>) /\ Flying(<<d, 2>>)' = Flying(<<d, 2>>)
        BY <2>1, <4>2 DEF Flying
      <4> QED BY <1>7, <4>1, <4>3 DEF Answers, CountOK
    <3> QED BY <3>1, <3>2
  <2>3. ASSUME NEW d \in Connections
        PROVE  WaitOK(d)'
    <3>1. CASE d = c
      <4>1. answer'[c] = 0
        BY <1>0, <1>4, <1>10
      <4>2. \A i \in 1..received'[c] : i \in 1..received[c] \/ i = received[c] + 1
        BY <1>0, <1>5
      <4>3. \A i \in 1..received'[c] : InFlight(<<c, i>>)' \/ <<c, i>> \in ran' \cup poolRefused'
        BY <1>0, <1>1, <1>10, <2>1, <4>2 DEF WaitOK
      <4>4. DOMAIN pieces'[c] = 1..Len(pieces'[c])
        BY <1>0, <1>1 DEF WaitOK
      <4> QED BY <3>1, <4>1, <4>3, <4>4 DEF WaitOK
    <3>2. CASE d # c
      <4>1. received'[d] = received[d] /\ answer'[d] = answer[d]
        BY <1>4, <1>5, <3>2
      <4>2. <<d, 1>> # k /\ <<d, 2>> # k
        BY <1>8, <3>2
      <4> QED BY <1>1, <1>10, <2>1, <4>1, <4>2 DEF Answers, WaitOK, AllReceived
    <3> QED BY <3>1, <3>2
  <2> QED BY <1>4, <2>1, <2>2, <2>3 DEF Answers
<1> QED BY <1>9, <1>10

(* The completion of a piece: one result less, counted off unless the      *)
(* session is closed.                                                      *)
LEMMA PieceDoneAnswers ==
  ASSUME Basics, Registered, Answers, NEW c \in Connections, OnPieceDone(c)
  PROVE  Answers'
<1>0. Types /\ CountOK(c) /\ WaitOK(c) /\ pending \in [Connections -> Nat]
      /\ DOMAIN answer = Connections /\ pending[c] \in Nat
  BY DEF Basics, Answers
<1>1. /\ inbox[c] # <<>> /\ Head(inbox[c]) \in {"accepted", "failed"}
      /\ inbox' = [inbox EXCEPT ![c] = Tail(inbox[c])]
      /\ UNCHANGED <<pieces, phase, received, tasks, worker, ran, poolRefused>>
  BY DEF OnPieceDone, peerVars, poolVars
<1>2. /\ Results(c)' \in Nat /\ Results(c) = Results(c)' + 1
      /\ \A d \in Connections \ {c} : Results(d)' = Results(d)
  <2>1. inbox[c] \in Seq(Handlers) /\ inbox'[c] = Tail(inbox[c])
        /\ \A d \in Connections \ {c} : inbox'[d] = inbox[d]
    BY <1>0, <1>1 DEF Types
  <2> QED BY <1>1, <2>1, CountTail DEF Results
<1>3. (\A j : InFlight(j)' <=> InFlight(j)) /\ JobsOK'
  BY <1>1, FlightSame DEF Answers
<1>4. phase[c] # "away"
  BY <1>1 DEF Registered, Accepted, Opened
<1>5. pending[c] > 0
  <2>1. Flying(<<c, 1>>) \in Nat /\ Flying(<<c, 2>>) \in Nat
    BY DEF Flying
  <2> QED BY <1>0, <1>2, <2>1 DEF CountOK
<1>6. CASE phase[c] = "closed"
  <2>1. UNCHANGED <<pending, answer>>
    BY <1>6 DEF OnPieceDone
  <2>2. ASSUME NEW d \in Connections
        PROVE  CountOK(d)'
    <3>1. CountOK(d) /\ Flying(<<d, 1>>)' = Flying(<<d, 1>>) /\ Flying(<<d, 2>>)' = Flying(<<d, 2>>)
      BY <1>3 DEF Answers, Flying
    <3>2. CASE d = c
      <4>1. Flying(<<c, 1>>) \in Nat /\ Flying(<<c, 2>>) \in Nat
        BY DEF Flying
      <4> QED BY <1>0, <1>2, <2>1, <3>1, <3>2, <4>1 DEF CountOK
    <3>3. CASE d # c
      BY <1>2, <2>1, <3>1, <3>3 DEF CountOK
    <3> QED BY <3>2, <3>3
  <2>3. \A d \in Connections : WaitOK(d)'
    BY <1>1, <1>3, <2>1 DEF Answers, WaitOK, AllReceived
  <2> QED BY <1>0, <1>3, <2>1, <2>2, <2>3 DEF Answers
<1>7. CASE phase[c] # "closed"
  <2>1. /\ pending' = [pending EXCEPT ![c] = pending[c] - 1]
        /\ answer' = [answer EXCEPT ![c] =
                        Answer(c, AllReceived(c), pending[c] - 1,
                               hasError[c] \/ Head(inbox[c]) = "failed")]
    BY <1>5, <1>7 DEF OnPieceDone
  <2>2. /\ pending'[c] = pending[c] - 1 /\ pending' \in [Connections -> Nat]
        /\ \A d \in Connections \ {c} : pending'[d] = pending[d] /\ answer'[d] = answer[d]
        /\ DOMAIN answer' = Connections
        /\ answer'[c] # 0 => answer[c] # 0 \/ (AllReceived(c) /\ pending[c] = 1)
    BY <1>0, <1>5, <2>1 DEF Answer
  <2>3. Flying(<<c, 1>>) \in Nat /\ Flying(<<c, 2>>) \in Nat
    BY DEF Flying
  <2>4. ASSUME NEW d \in Connections
        PROVE  CountOK(d)'
    <3>1. CountOK(d) /\ Flying(<<d, 1>>)' = Flying(<<d, 1>>) /\ Flying(<<d, 2>>)' = Flying(<<d, 2>>)
      BY <1>3 DEF Answers, Flying
    <3>2. CASE d = c
      BY <1>0, <1>2, <2>2, <2>3, <3>1, <3>2 DEF CountOK
    <3>3. CASE d # c
      BY <1>2, <2>2, <3>1, <3>3 DEF CountOK
    <3> QED BY <3>2, <3>3
  <2>5. ASSUME NEW d \in Connections
        PROVE  WaitOK(d)'
    <3>1. WaitOK(d)
      BY DEF Answers
    <3>2. CASE d = c
      <4>1. pending[c] = 1 => ~InFlight(<<c, 1>>) /\ ~InFlight(<<c, 2>>)
        BY <1>0, <1>2, <2>3 DEF CountOK, Flying
      <4>2. AllReceived(c)' <=> AllReceived(c)
        BY <1>1 DEF AllReceived
      <4> QED BY <1>1, <1>3, <1>4, <2>2, <3>1, <3>2, <4>1, <4>2 DEF WaitOK
    <3>3. CASE d # c
      <4>1. answer'[d] = answer[d]
        BY <2>2, <3>3
      <4> QED BY <1>1, <1>3, <3>1, <4>1 DEF WaitOK, AllReceived
    <3> QED BY <3>2, <3>3
  <2> QED BY <1>3, <2>2, <2>4, <2>5 DEF Answers
<1> QED BY <1>6, <1>7

(* The end of a session, and the handlers that carry no result.            *)
LEMMA HandlerAnswers ==
  ASSUME Basics, Answers, NEW c \in Connections,
         OnEof(c) \/ OnMarked(c) \/ OnAborted(c) \/ OnStop(c) \/ CompleteAccept(c) \/ Accept(c)
  PROVE  Answers'
<1>0. Types
  BY DEF Basics
<1>1. UNCHANGED <<pieces, received, pending, answer, tasks, worker, ran, poolRefused>>
  BY DEF OnEof, OnMarked, OnAborted, OnStop, CompleteAccept, Accept, peerVars, poolVars
<1>2. \A d \in Connections : Results(d)' = Results(d)
  <2>1. CASE OnEof(c) \/ (OnStop(c) /\ phase[c] # "closed")
    <3>1. PICK still \in BOOLEAN, rest \in Seq(Handlers) :
            /\ Close(c, still, rest) /\ ~IoStopped
            /\ \/ phase[c] = "open" /\ rest = inbox[c]
               \/ /\ rest = Tail(inbox[c]) /\ inbox[c] # <<>>
                  /\ Head(inbox[c]) = "stop" /\ phase[c] # "closed"
      BY <1>0, <2>1, CloseSteps
    <3>2. /\ inbox'[c] = rest \/ inbox'[c] = Append(rest, "aborted")
          /\ \A d \in Connections \ {c} : inbox'[d] = inbox[d]
      BY <1>0, <3>1, CloseEffect
    <3> QED BY <1>0, <3>1, <3>2, ResultsSame
  <2>2. CASE OnMarked(c) \/ OnAborted(c) \/ (OnStop(c) /\ phase[c] = "closed")
    <3>1. /\ inbox[c] # <<>> /\ Head(inbox[c]) \in {"marked", "stop", "aborted"}
          /\ inbox' = [inbox EXCEPT ![c] = Tail(inbox[c])]
      BY <2>2 DEF OnMarked, OnAborted, OnStop
    <3>2. \A d \in Connections : inbox'[d] = IF d = c THEN Tail(inbox[c]) ELSE inbox[d]
      BY <1>0, <3>1 DEF Types
    <3> QED BY <1>0, <3>1, <3>2, ResultsSame
  <2>3. CASE CompleteAccept(c) \/ Accept(c)
    BY <1>0, <2>3, ResultsSame DEF CompleteAccept, Accept
  <2> QED BY <2>1, <2>2, <2>3
<1>3. \A d \in Connections : phase'[d] = "away" => phase[d] = "away"
  <2>1. phase' = phase \/ \E p \in {"accepted", "open", "refused", "closed"} : phase' = [phase EXCEPT ![c] = p]
    BY DEF OnEof, OnMarked, OnAborted, OnStop, CompleteAccept, Accept, Close
  <2> QED BY <1>0, <2>1 DEF Types
<1>4. (\A j : InFlight(j)' <=> InFlight(j)) /\ JobsOK'
  BY <1>1, FlightSame DEF Answers
<1> QED BY <1>0, <1>1, <1>2, <1>3, <1>4, AnswersFrame

(* A piece is through: it is in flight no more, and its result waits, if   *)
(* the io still runs.                                                      *)
LEMMA FinishAnswers ==
  ASSUME Basics, Answers, NEW w \in Workers, WorkerFinish(w)
  PROVE  Answers'
<1> DEFINE k == worker[w].job
<1>0. Types /\ JobsOK /\ WorkerFrame
  BY WorkerBasics DEF Basics, Answers, WorkerStep
<1>1. /\ k \in Jobs /\ InFlight(k) /\ JobsOK' /\ ran' = ran \cup {k}
      /\ \A j : InFlight(j)' <=> InFlight(j) /\ j # k
      /\ \E h \in {"failed", "accepted"} : Post(k[1], h)
  BY <1>0, FlightEnded, FinishEffect DEF ConnOf
<1> HIDE DEF k
<1>2. PICK c \in Connections : c = k[1] /\ (k = <<c, 1>> \/ k = <<c, 2>>)
  BY <1>1, JobNumbers
<1>3. /\ Results(c)' \in Nat /\ Results(c) \in Nat /\ Results(c)' <= Results(c) + 1
      /\ \A d \in Connections \ {c} : Results(d)' = Results(d)
  <2>1. PICK h \in {"failed", "accepted"} : Post(c, h)
    BY <1>1, <1>2
  <2>2. inbox[c] \in Seq(Handlers) /\ h \in Handlers
    BY <1>0 DEF Types, Handlers
  <2>3. /\ inbox'[c] = inbox[c] \/ inbox'[c] = Append(inbox[c], h)
        /\ \A d \in Connections \ {c} : inbox'[d] = inbox[d]
    BY <1>0, <2>1, <2>2, PostEffect
  <2>4. /\ CountIn(inbox[c], {"accepted", "failed"}) \in Nat
        /\ CountIn(Append(inbox[c], h), {"accepted", "failed"})
             = CountIn(inbox[c], {"accepted", "failed"}) + 1
    BY <2>2, CountAppend
  <2>5. \A d \in Connections : /\ Results(d) = CountIn(inbox[d], {"accepted", "failed"})
                               /\ Results(d)' = CountIn(inbox'[d], {"accepted", "failed"})
    BY DEF Results
  <2>6. \A d \in Connections \ {c} : Results(d)' = Results(d)
    BY <2>3, <2>5
  <2>7. Results(c)' = Results(c) \/ Results(c)' = Results(c) + 1
    BY <2>3, <2>4, <2>5
  <2>8. Results(c) \in Nat
    BY <2>4, <2>5
  <2> QED BY <2>6, <2>7, <2>8
<1>4. UNCHANGED <<pieces, received, pending, answer, phase, poolRefused>>
  BY <1>0 DEF WorkerFrame, peerVars, sessionVars
<1>5. ASSUME NEW d \in Connections
      PROVE  CountOK(d)'
  <2>1. /\ Flying(<<d, 1>>) \in Nat /\ Flying(<<d, 2>>) \in Nat
        /\ Flying(<<d, 1>>)' \in Nat /\ Flying(<<d, 2>>)' \in Nat
    BY DEF Flying
  <2>2. CountOK(d) /\ pending[d] \in Nat
    BY DEF Answers
  <2>3. CASE d = c
    <3>1. Flying(<<c, 1>>) + Flying(<<c, 2>>) = Flying(<<c, 1>>)' + Flying(<<c, 2>>)' + 1
      BY <1>1, <1>2 DEF Flying
    <3> QED BY <1>3, <1>4, <2>1, <2>2, <2>3, <3>1 DEF CountOK
  <2>4. CASE d # c
    <3>1. <<d, 1>> # k /\ <<d, 2>> # k
      BY <1>2, <2>4
    <3>2. Flying(<<d, 1>>)' = Flying(<<d, 1>>) /\ Flying(<<d, 2>>)' = Flying(<<d, 2>>)
      BY <1>1, <3>1 DEF Flying
    <3> QED BY <1>3, <1>4, <2>2, <2>4, <3>2 DEF CountOK
  <2> QED BY <2>3, <2>4
<1>6. \A d \in Connections : WaitOK(d)'
  BY <1>1, <1>4 DEF Answers, WaitOK, AllReceived
<1> QED BY <1>1, <1>4, <1>5, <1>6 DEF Answers

(* The other steps of a worker. *)
LEMMA WorkerAnswers ==
  ASSUME Basics, Answers, NEW w \in Workers, WorkerStep(w)
  PROVE  Answers'
<1>0. Types /\ StopOK /\ JobsOK /\ WorkerFrame
  BY WorkerBasics DEF Basics, Answers
<1>1. UNCHANGED <<pieces, received, pending, answer, phase, poolRefused>>
  BY <1>0 DEF WorkerFrame, peerVars, sessionVars
<1>2. ASSUME \A j : InFlight(j)' <=> InFlight(j), JobsOK', UNCHANGED <<inbox, ran>>
      PROVE  Answers'
  <2>1. \A c \in Connections : Results(c)' = Results(c)
    BY <1>0, <1>2, ResultsSame
  <2> QED BY <1>0, <1>1, <1>2, <2>1, AnswersFrame
<1>3. ASSUME NEW at, WorkerChange(w, at, worker[w].job), at \in Busy <=> worker[w].at \in Busy,
             UNCHANGED <<tasks, inbox, ran>>
      PROVE  Answers'
  BY <1>0, <1>2, <1>3, FlightKept
<1>4. CASE WorkerTake(w)
  BY <1>0, <1>2, <1>4, FlightTaken DEF WorkerTake
<1>5. CASE WorkerDecode(w)
  BY <1>0, <1>3, <1>5, DecodeEffect DEF WorkerDecode, Busy
<1>6. CASE WorkerEvent(w)
  <2>1. PICK at \in {"events", "upsert", "consume"} :
          WorkerChange(w, at, worker[w].job) /\ worker[w].at = "events"
    BY <1>0, <1>6, EventEffect
  <2> QED BY <1>3, <1>6, <2>1 DEF WorkerEvent, Busy
<1>7. CASE WorkerConsumed(w)
  <2>1. PICK at \in {"events", "upsert"} :
          WorkerChange(w, at, worker[w].job) /\ worker[w].at = "consume"
    BY <1>0, <1>7, ConsumedEffect
  <2> QED BY <1>3, <1>7, <2>1 DEF WorkerConsumed, Busy
<1>8. CASE WorkerUpserted(w)
  BY <1>0, <1>3, <1>8, UpsertedEffect DEF WorkerUpserted, Busy
<1>9. CASE WorkerEnd(w)
  BY <1>0, <1>3, <1>9, EndEffect DEF WorkerEnd, Busy
<1> QED BY <1>4, <1>5, <1>6, <1>7, <1>8, <1>9, FinishAnswers DEF WorkerStep

(* The write actor and Stop post handlers that carry no result. *)
LEMMA ServerAnswers ==
  ASSUME Basics, Answers,
         \/ ActorTake \/ ActorRun \/ Revoke
         \/ StopBegin \/ CloseAcceptor \/ StopThread \/ ActorEnd
         \/ UNCHANGED vars
  PROVE  Answers'
<1>0. Types
  BY DEF Basics
<1>1. UNCHANGED <<pieces, received, pending, answer, phase, tasks, worker, ran, poolRefused>>
  BY DEF ActorTake, ActorRun, Revoke, StopBegin, CloseAcceptor, StopThread, StopSessions,
     StopPool, StopDatabase, ActorEnd, vars, peerVars, sessionVars, poolVars
<1>2. \A d \in Connections : Results(d)' = Results(d)
  <2>1. CASE ActorRun
    <3>1. \A d \in Connections : inbox'[d] = inbox[d] \/ inbox'[d] = Append(inbox[d], "marked")
      BY <1>0, <2>1, RunEffect
    <3> QED BY <1>0, <3>1, ResultsSame
  <2>2. CASE StopSessions
    <3>1. \A d \in Connections : inbox'[d] = inbox[d] \/ inbox'[d] = Append(inbox[d], "stop")
      BY <2>2 DEF StopSessions
    <3> QED BY <1>0, <3>1, ResultsSame
  <2>3. CASE ~ActorRun /\ ~StopSessions
    <3>1. inbox' = inbox
      BY <2>3 DEF ActorTake, Revoke, StopBegin, CloseAcceptor, StopThread,
         StopPool, StopDatabase, ActorEnd, vars
    <3> QED BY <1>0, <3>1, ResultsSame
  <2> QED BY <2>1, <2>2, <2>3
<1>3. (\A j : InFlight(j)' <=> InFlight(j)) /\ JobsOK'
  BY <1>1, FlightSame DEF Answers
<1> QED BY <1>0, <1>1, <1>2, <1>3, AnswersFrame

(* See above. *)
LEMMA AnswersStep == Basics /\ Registered /\ Answers /\ [Next]_vars => Answers'
BY ConnectAnswers, DataAnswers, PieceDoneAnswers, HandlerAnswers, WorkerAnswers, ServerAnswers
   DEF Next, OnPosted

(* Nothing is in flight at first.                                          *)
LEMMA AnswersInit == Init => Answers
<1> SUFFICES ASSUME Init PROVE Answers
  OBVIOUS
<1>1. /\ pending = [c \in Connections |-> 0] /\ answer = [c \in Connections |-> 0]
      /\ pieces = [c \in Connections |-> <<>>] /\ received = [c \in Connections |-> 0]
      /\ inbox = [c \in Connections |-> <<>>]
      /\ tasks = <<>> /\ worker = [w \in Workers |-> Idle]
  BY DEF Init
<1>2. \A j : (\A w \in Workers : ~WorksOn(w, j)) /\ ~In(tasks, j) /\ Once(tasks, j)
  BY <1>1 DEF WorksOn, Busy, Idle, In, Once
<1>3. \A c \in Connections : Results(c) = 0
  <2>1. \A c \in Connections : {i \in 1..Len(inbox[c]) : inbox[c][i] \in {"accepted", "failed"}} = {}
    BY <1>1
  <2> QED BY <2>1, FS_EmptySet DEF Results, CountIn
<1>4. \A j : ~InFlight(j) /\ Flying(j) = 0
  BY <1>2 DEF InFlight, Flying
<1>5. JobsOK
  BY <1>2 DEF JobsOK
<1>6. ASSUME NEW c \in Connections
      PROVE  CountOK(c) /\ WaitOK(c)
  <2>1. DOMAIN <<>> = 1..Len(<<>>) /\ 1..0 = {}
    OBVIOUS
  <2> QED BY <1>1, <1>3, <1>4, <2>1 DEF CountOK, WaitOK
<1> QED BY <1>1, <1>5, <1>6 DEF Answers


----------------------------------------------------------------------------
(* What the decoder makes of the batch, in whatever order its pieces come. *)

(* A frame at the front of others, and frames behind others. *)
LEMMA FrontOfFrames ==
  ASSUME NEW p \in Seq(Bytes), NEW f \in Seq(Seq(Bytes))
  PROVE  /\ \A y : In(<<p>> \o f, y) <=> y = p \/ In(f, y)
         /\ \A y : Once(f, y) /\ (y # p \/ ~In(f, y)) => Once(<<p>> \o f, y)
<1>1. PICK F : F = Seq(Bytes)
  OBVIOUS
<1> DEFINE r == <<p>> \o f
<1>2. /\ Len(r) = Len(f) + 1 /\ Len(f) \in Nat /\ r[1] = p
      /\ \A i \in 1..Len(f) : r[i + 1] = f[i]
  <2>1. p \in F /\ f \in Seq(F)
    BY <1>1
  <2> QED BY <2>1
<1> HIDE DEF r
<1>3. \A i \in 1..Len(r) : i = 1 \/ (i - 1 \in 1..Len(f) /\ r[i] = f[i - 1])
  <2> TAKE i \in 1..Len(r)
  <2>1. i = 1 \/ (i - 1 \in 1..Len(f) /\ (i - 1) + 1 = i)
    BY <1>2
  <2> QED BY <1>2, <2>1
<1>4. \A y : In(r, y) <=> y = p \/ In(f, y)
  <2> TAKE y
  <2>1. In(r, y) => y = p \/ In(f, y)
    BY <1>2, <1>3 DEF In
  <2>2. y = p => In(r, y)
    BY <1>2 DEF In
  <2>3. In(f, y) => In(r, y)
    <3> SUFFICES ASSUME NEW i \in 1..Len(f), f[i] = y PROVE In(r, y)
      BY DEF In
    <3>1. i + 1 \in 1..Len(r) /\ r[i + 1] = y
      BY <1>2
    <3> QED BY <3>1 DEF In
  <2> QED BY <2>1, <2>2, <2>3
<1>5. ASSUME NEW y, Once(f, y), y # p \/ ~In(f, y)
      PROVE  Once(r, y)
  <2> SUFFICES ASSUME NEW i \in 1..Len(r), NEW j \in 1..Len(r), r[i] = y, r[j] = y
               PROVE  i = j
    BY DEF Once
  <2>1. i = 1 /\ j # 1 => FALSE
    BY <1>2, <1>3, <1>5 DEF In
  <2>2. i # 1 /\ j = 1 => FALSE
    BY <1>2, <1>3, <1>5 DEF In
  <2>3. i # 1 /\ j # 1 => i - 1 = j - 1
    BY <1>3, <1>5 DEF Once
  <2> QED BY <2>1, <2>2, <2>3, <1>2
<1> QED BY <1>4, <1>5 DEF r

(* See above. *)
LEMMA FramesBehind ==
  ASSUME NEW f \in Seq(Seq(Bytes)), NEW g \in Seq(Seq(Bytes))
  PROVE  /\ \A y : In(f \o g, y) <=> In(f, y) \/ In(g, y)
         /\ \A y : Once(f \o g, y) => /\ Once(f, y) /\ Once(g, y)
                                      /\ ~(In(f, y) /\ In(g, y))
<1>1. PICK F : F = Seq(Bytes)
  OBVIOUS
<1> DEFINE r == f \o g
           n == Len(f)
<1>2. /\ Len(r) = n + Len(g) /\ n \in Nat /\ Len(g) \in Nat
      /\ \A i \in 1..n : r[i] = f[i]
      /\ \A i \in 1..Len(g) : r[n + i] = g[i]
  <2>1. f \in Seq(F) /\ g \in Seq(F)
    BY <1>1
  <2>2. /\ r \in Seq(F) /\ Len(r) = Len(f) + Len(g)
        /\ \A i \in 1..Len(f) + Len(g) : r[i] = IF i <= Len(f) THEN f[i] ELSE g[i - Len(f)]
    BY <2>1, ConcatProperties
  <2>3. n \in Nat /\ Len(g) \in Nat
    BY <2>1
  <2> HIDE DEF r
  <2>4. \A i \in 1..n : r[i] = f[i]
    BY <2>2, <2>3
  <2>5. \A i \in 1..Len(g) : r[n + i] = g[i]
    <3> TAKE i \in 1..Len(g)
    <3>1. n + i \in 1..Len(f) + Len(g) /\ ~(n + i <= Len(f)) /\ (n + i) - Len(f) = i
      BY <2>3
    <3> QED BY <2>2, <3>1
  <2> QED BY <2>2, <2>3, <2>4, <2>5
<1> HIDE DEF r, n
<1>3. \A i \in 1..n : i \in 1..Len(r)
  BY <1>2
<1>4. \A i \in 1..Len(g) : n + i \in 1..Len(r)
  BY <1>2
<1>5. \A i \in 1..Len(r) : i \in 1..n \/ (i - n \in 1..Len(g) /\ r[i] = g[i - n])
  <2> TAKE i \in 1..Len(r)
  <2>1. i \in 1..n \/ (i - n \in 1..Len(g) /\ n + (i - n) = i)
    BY <1>2
  <2> QED BY <1>2, <2>1
<1>6. \A y : In(r, y) => In(f, y) \/ In(g, y)
  BY <1>2, <1>5 DEF In, n
<1>7. \A y : In(f, y) => In(r, y)
  BY <1>2, <1>3 DEF In, n
<1>8. \A y : In(g, y) => In(r, y)
  BY <1>2, <1>4 DEF In
<1>9. ASSUME NEW y, Once(r, y)
      PROVE  Once(f, y) /\ Once(g, y) /\ ~(In(f, y) /\ In(g, y))
  <2>1. Once(f, y)
    BY <1>2, <1>3, <1>9 DEF Once, n
  <2>2. Once(g, y)
    <3> SUFFICES ASSUME NEW i \in 1..Len(g), NEW j \in 1..Len(g), g[i] = y, g[j] = y
                 PROVE  i = j
      BY DEF Once
    <3>1. n + i = n + j
      BY <1>2, <1>4, <1>9 DEF Once
    <3> QED BY <1>2, <3>1
  <2>3. ASSUME In(f, y), In(g, y) PROVE FALSE
    <3>1. PICK i \in 1..n : f[i] = y
      BY <2>3 DEF In, n
    <3>2. PICK j \in 1..Len(g) : g[j] = y
      BY <2>3 DEF In
    <3>3. i = n + j
      BY <1>2, <1>3, <1>4, <1>9, <3>1, <3>2 DEF Once
    <3> QED BY <1>2, <3>3
  <2> QED BY <2>1, <2>2, <2>3
<1> QED BY <1>6, <1>7, <1>8, <1>9 DEF r
(* The frames of a buffer are those behind its first, and the first.        *)
LEMMA FirstFrame ==
  ASSUME NEW x \in Seq(Bytes)
  PROVE  \/ Drain[x].frames = <<>>
         \/ /\ Complete(x) /\ Drain[x].frames = <<Payload(x)>> \o Drain[Behind(x)].frames
            /\ Payload(x) \in Seq(Bytes) /\ Behind(x) \in Seq(Bytes)
            /\ Len(x) = 4 + Len(Payload(x)) + Len(Behind(x))
            /\ Drain[Behind(x)].frames \in Seq(Seq(Bytes))
<1>1. CASE Incomplete(x)
  <2>1. Drain[x] = Nothing(x)
    BY <1>1, Outcomes
  <2> QED BY <2>1 DEF Nothing
<1>2. CASE TooLong(x)
  <2>1. Drain[x] = Failure(x)
    BY <1>2, Outcomes
  <2> QED BY <2>1 DEF Failure
<1>3. CASE Complete(x)
  <2> DEFINE r == Drain[Behind(x)]
             p == Payload(x)
  <2>1. /\ Behind(x) \in Seq(Bytes) /\ p \in Seq(Bytes) /\ Len(x) \in Nat
        /\ Len(x) = 4 + Len(p) + Len(Behind(x))
    <3>1. /\ Behind(x) \in Seq(Bytes) /\ p \in Seq(Bytes) /\ Len(x) \in Nat
          /\ FrameEnd(x) = 4 + Len(p) /\ Len(p) \in Nat
          /\ Len(Behind(x)) = Len(x) - FrameEnd(x)
      BY <1>3, BehindFrame DEF FrameEnd
    <3> QED BY <3>1
  <2>2. /\ r.frames \in Seq(Seq(Bytes))
        /\ r = [frames |-> r.frames, buffer |-> r.buffer, failed |-> r.failed]
    BY <2>1, CutRecord
  <2>3. Drain[x] = [r EXCEPT !.frames = IF r.failed THEN <<>> ELSE <<p>> \o r.frames]
    BY <1>3, Outcomes
  <2> HIDE DEF r, p
  <2>4. Drain[x].frames = IF r.failed THEN <<>> ELSE <<p>> \o r.frames
    BY <2>2, <2>3
  <2> QED BY <1>3, <2>1, <2>2, <2>4 DEF r, p
<1> QED BY <1>1, <1>2, <1>3, Outcomes

(* A frame with the one byte of a registration takes five bytes.            *)
LEMMA FrameRoom ==
  ASSUME NEW x \in Seq(Bytes)
  PROVE  /\ Len(x) <= 4 => ~In(Drain[x].frames, << 1 >>)
         /\ Len(x) <= 9 => Once(Drain[x].frames, << 1 >>)
<1> DEFINE None(y) == ~In(Drain[y].frames, << 1 >>)
           One(y) == Once(Drain[y].frames, << 1 >>)
<1>1. ASSUME NEW y \in Seq(Bytes), Drain[y].frames = <<>>
      PROVE  None(y) /\ One(y)
  BY <1>1 DEF In, Once
<1>2. ASSUME NEW y \in Seq(Bytes), Drain[y].frames # <<>>
      PROVE  /\ Behind(y) \in Seq(Bytes) /\ Len(Behind(y)) \in Nat /\ Payload(y) \in Seq(Bytes)
             /\ Len(Payload(y)) \in Nat
             /\ Len(y) = 4 + Len(Payload(y)) + Len(Behind(y))
             /\ Payload(y) # << 1 >> /\ None(Behind(y)) => None(y)
             /\ One(Behind(y)) /\ (Payload(y) # << 1 >> \/ None(Behind(y))) => One(y)
  <2> DEFINE p == Payload(y)
             f == Drain[Behind(y)].frames
  <2>1. /\ Drain[y].frames = <<p>> \o f /\ p \in Seq(Bytes) /\ Behind(y) \in Seq(Bytes)
        /\ Len(y) = 4 + Len(p) + Len(Behind(y)) /\ f \in Seq(Seq(Bytes))
    BY <1>2, FirstFrame
  <2> HIDE DEF p, f
  <2>2. /\ In(<<p>> \o f, << 1 >>) <=> << 1 >> = p \/ In(f, << 1 >>)
        /\ Once(f, << 1 >>) /\ (<< 1 >> # p \/ ~In(f, << 1 >>)) => Once(<<p>> \o f, << 1 >>)
    BY <2>1, FrontOfFrames
  <2>3. Len(Behind(y)) \in Nat /\ Len(p) \in Nat
    BY <2>1
  <2> QED BY <2>1, <2>2, <2>3 DEF p, f
<1>3. \A p \in Seq(Bytes) : p = << 1 >> => Len(p) = 1
  OBVIOUS
<1>4. ASSUME NEW y \in Seq(Bytes), Len(y) <= 4 PROVE None(y) /\ One(y)
  <2> HIDE DEF None, One
  <2>1. CASE Drain[y].frames # <<>>
    <3>0. /\ Len(Behind(y)) \in Nat /\ Len(Payload(y)) \in Nat
          /\ Len(y) = 4 + Len(Payload(y)) + Len(Behind(y))
          /\ Behind(y) \in Seq(Bytes) /\ Payload(y) \in Seq(Bytes)
      BY <1>2, <2>1
    <3>1. Len(Behind(y)) = 0 /\ Len(Payload(y)) = 0
      BY <1>4, <3>0
    <3>2. Drain[Behind(y)].frames = <<>>
      <4>1. Incomplete(Behind(y))
        BY <3>1 DEF Incomplete
      <4>2. Drain[Behind(y)] = Nothing(Behind(y))
        BY <3>0, <4>1, Outcomes
      <4> QED BY <4>2 DEF Nothing
    <3>3. Payload(y) # << 1 >>
      BY <1>3, <3>0, <3>1
    <3> QED BY <1>1, <1>2, <2>1, <3>0, <3>2, <3>3
  <2> QED BY <1>1, <2>1
<1>5. ASSUME NEW y \in Seq(Bytes), Len(y) <= 5 PROVE One(y)
  <2> HIDE DEF None, One
  <2>1. CASE Drain[y].frames # <<>>
    <3>1. Len(Behind(y)) <= 4 /\ Behind(y) \in Seq(Bytes)
      BY <1>2, <1>5, <2>1
    <3> QED BY <1>2, <1>4, <2>1, <3>1
  <2> QED BY <1>1, <2>1
<1>6. ASSUME NEW y \in Seq(Bytes), Len(y) <= 9 PROVE One(y)
  <2> HIDE DEF None, One
  <2>1. CASE Drain[y].frames # <<>>
    <3>1. Len(Behind(y)) <= 5 /\ Behind(y) \in Seq(Bytes)
      BY <1>2, <1>6, <2>1
    <3>2. Payload(y) = << 1 >> => Len(Behind(y)) <= 4
      <4>1. /\ Len(Behind(y)) \in Nat /\ Len(Payload(y)) \in Nat
            /\ Len(y) = 4 + Len(Payload(y)) + Len(Behind(y)) /\ Payload(y) \in Seq(Bytes)
        BY <1>2, <2>1
      <4>2. Payload(y) = << 1 >> => Len(Payload(y)) = 1
        BY <1>3, <4>1
      <4> QED BY <1>6, <4>1, <4>2
    <3> QED BY <1>2, <1>4, <1>5, <2>1, <3>1, <3>2
  <2> QED BY <1>1, <2>1
<1> QED BY <1>4, <1>6

(* So ten bytes hold two of them only when there are no others.             *)
LEMMA OneRegister ==
  ASSUME NEW x \in Seq(Bytes), Len(x) = 10, In(x, 2)
  PROVE  Once(Drain[x].frames, << 1 >>)
<1> DEFINE p == Payload(x)
           y == Behind(x)
           f == Drain[y].frames
<1>1. CASE Drain[x].frames = <<>>
  BY <1>1 DEF Once
<1>2. CASE Drain[x].frames # <<>>
  <2>1. /\ Complete(x) /\ Drain[x].frames = <<p>> \o f
        /\ p \in Seq(Bytes) /\ y \in Seq(Bytes) /\ f \in Seq(Seq(Bytes))
        /\ 10 = 4 + Len(p) + Len(y) /\ Len(p) \in Nat /\ Len(y) \in Nat
    <3>1. /\ Complete(x) /\ Drain[x].frames = <<p>> \o f
          /\ p \in Seq(Bytes) /\ y \in Seq(Bytes) /\ f \in Seq(Seq(Bytes))
          /\ Len(x) = 4 + Len(p) + Len(y)
      BY <1>2, FirstFrame
    <3> HIDE DEF p, y, f
    <3>2. Len(p) \in Nat /\ Len(y) \in Nat
      BY <3>1
    <3> QED BY <3>1, <3>2
  <2>2. Once(f, << 1 >>) /\ (<< 1 >> # p \/ ~In(f, << 1 >>)) => Once(<<p>> \o f, << 1 >>)
    <3> HIDE DEF p, f
    <3> QED BY <2>1, FrontOfFrames
  <2>3. Once(f, << 1 >>)
    <3> HIDE DEF y
    <3> QED BY <2>1, FrameRoom DEF f
  <2>4. ASSUME p = << 1 >>, In(f, << 1 >>) PROVE FALSE
    <3>1. Len(p) = 1 /\ Len(y) = 5 /\ p[1] = 1
      <4> HIDE DEF y, p
      <4>1. Len(p) = 1 /\ p[1] = 1
        BY <2>4
      <4>2. 10 = 4 + Len(p) + Len(y) /\ Len(p) \in Nat /\ Len(y) \in Nat
        BY <2>1
      <4>3. \A m, n \in Nat : 10 = 4 + m + n /\ m = 1 => n = 5
        OBVIOUS
      <4>4. Len(y) = 5
        BY <4>1, <4>2, <4>3
      <4> QED BY <4>1, <4>4
    <3> DEFINE q == Payload(y)
               z == Behind(y)
               g == Drain[z].frames
    <3>2. f # <<>>
      BY <2>4 DEF In
    <3>3. /\ Complete(y) /\ f = <<q>> \o g /\ q \in Seq(Bytes) /\ z \in Seq(Bytes)
          /\ 5 = 4 + Len(q) + Len(z) /\ Len(q) \in Nat /\ Len(z) \in Nat /\ g \in Seq(Seq(Bytes))
      <4> HIDE DEF y
      <4>1. /\ Complete(y) /\ f = <<q>> \o g /\ q \in Seq(Bytes) /\ z \in Seq(Bytes)
            /\ Len(y) = 4 + Len(q) + Len(z) /\ g \in Seq(Seq(Bytes))
        BY <2>1, <3>2, FirstFrame DEF f
      <4> HIDE DEF q, z, g, f
      <4>2. Len(q) \in Nat /\ Len(z) \in Nat
        BY <4>1
      <4> QED BY <3>1, <4>1, <4>2
    <3>4. In(<<q>> \o g, << 1 >>) <=> << 1 >> = q \/ In(g, << 1 >>)
      <4> HIDE DEF q, g
      <4> QED BY <3>3, FrontOfFrames
    <3>5. ~In(g, << 1 >>)
      <4> HIDE DEF z
      <4> QED BY <3>3, FrameRoom DEF g
    <3>6. q = << 1 >> /\ Len(q) = 1 /\ q[1] = 1
      BY <2>4, <3>3, <3>4, <3>5
    <3>7. /\ ReadBigEndianLength(x) = 1 /\ x[5] = 1
          /\ \A i \in 1..5 : y[i] = x[5 + i]
      <4>1. /\ Len(p) = ReadBigEndianLength(x) /\ \A i \in 1..ReadBigEndianLength(x) : p[i] = x[4 + i]
            /\ \A i \in 1..(Len(x) - FrameEnd(x)) : y[i] = x[FrameEnd(x) + i]
            /\ FrameEnd(x) = 4 + ReadBigEndianLength(x)
        BY <2>1, BehindFrame DEF FrameEnd
      <4> HIDE DEF p, y
      <4>2. ReadBigEndianLength(x) = 1 /\ FrameEnd(x) = 5
        BY <3>1, <4>1
      <4>3. 1 \in 1..1 /\ 4 + 1 = 5 /\ Len(x) - 5 = 5
        OBVIOUS
      <4> QED BY <3>1, <4>1, <4>2, <4>3
    <3>8. ReadBigEndianLength(y) = 1 /\ y[5] = 1
      <4> HIDE DEF y
      <4>1. Len(q) = ReadBigEndianLength(y) /\ \A i \in 1..ReadBigEndianLength(y) : q[i] = y[4 + i]
        BY <2>1, <3>3, BehindFrame
      <4> QED BY <3>6, <4>1
    <3>9. ASSUME NEW b \in Seq(Bytes), Len(b) >= 5, ReadBigEndianLength(b) = 1
          PROVE  \A i \in 1..4 : b[i] # 2
      <4>1. \A v \in Bytes : v \in Nat
        BY DEF Bytes
      <4>2. \A i \in {1, 2, 3, 4} : b[i] \in Bytes
        BY <3>9
      <4>3. PICK d, e, h, k \in Nat : d = b[1] /\ e = b[2] /\ h = b[3] /\ k = b[4]
        BY <4>1, <4>2
      <4>4. ((d * 256 + e) * 256 + h) * 256 + k = 1
        BY <3>9, <4>3 DEF ReadBigEndianLength
      <4>5. k \in {0, 1} /\ ((d * 256 + e) * 256 + h) * 256 <= 1
        BY <4>4
      <4>6. (d * 256 + e) * 256 + h = 0
        BY <4>5
      <4>7. h = 0 /\ d * 256 + e = 0
        BY <4>6
      <4>8. d = 0 /\ e = 0
        BY <4>7
      <4>9. \A i \in 1..4 : i \in {1, 2, 3, 4}
        OBVIOUS
      <4>10. b[1] = 0 /\ b[2] = 0 /\ b[3] = 0 /\ b[4] \in {0, 1}
        BY <4>3, <4>5, <4>7, <4>8
      <4> QED BY <4>9, <4>10
    <3>10. \A i \in 1..4 : x[i] # 2
      <4>1. Len(x) >= 5
        OBVIOUS
      <4> HIDE DEF y
      <4> QED BY <3>7, <3>9, <4>1
    <3>11. \A i \in 1..4 : y[i] # 2
      <4> HIDE DEF y
      <4>1. Len(y) >= 5 /\ y \in Seq(Bytes)
        BY <2>1, <3>1
      <4> QED BY <3>8, <3>9, <4>1
    <3>12. \A i \in 1..5 : x[5 + i] # 2
      BY <3>7, <3>8, <3>11
    <3>13. \A i \in 1..10 : i \in 1..4 \/ i = 5 \/ (i - 5 \in 1..5 /\ 5 + (i - 5) = i)
      OBVIOUS
    <3>14. \A i \in 1..10 : x[i] # 2
      BY <3>7, <3>10, <3>12, <3>13
    <3> QED BY <3>14 DEF In
  <2> QED BY <2>1, <2>2, <2>3, <2>4
<1> QED BY <1>1, <1>2
(* The bytes of the batch, and its frames.                                  *)
LEMMA BatchBytes ==
  /\ Batch \in Seq(Bytes) /\ Len(Batch) = 10 /\ In(Batch, 2)
  /\ ~Drain[Batch].failed /\ Drain[Batch].frames = <<<< 1 >>, << 2 >>>>
<1>1. \A k \in {1, 2} : <<k>> \in Seq(Bytes) /\ Len(<<k>>) = 1 /\ Len(<<k>>) <= MaxFrameBytes
  BY FrameLimit DEF Bytes
<1>2. \A k \in {1, 2} : EncodeFrame(<<k>>) = <<0, 0, 0, 1, k>>
  <2> SUFFICES ASSUME NEW k \in {1, 2} PROVE EncodeFrame(<<k>>) = <<0, 0, 0, 1, k>>
    OBVIOUS
  <2>1. 1 \div 256 = 0 /\ 0 \div 256 = 0 /\ 1 % 256 = 1 /\ 0 % 256 = 0
    OBVIOUS
  <2>2. Len(<<k>>) = 1
    OBVIOUS
  <2>3. EncodeFrame(<<k>>) = <<0, 0, 0, 1>> \o <<k>>
    BY <2>1, <2>2 DEF EncodeFrame
  <2> QED BY <2>3
<1>3. \A k \in {1, 2} : /\ EncodeFrame(<<k>>) \in Seq(Bytes) /\ Len(EncodeFrame(<<k>>)) = 5
                        /\ EncodeFrame(<<k>>)[5] = k
  <2>1. 0 \in Bytes /\ 1 \in Bytes /\ 2 \in Bytes
    BY DEF Bytes
  <2> SUFFICES ASSUME NEW k \in {1, 2}
               PROVE  /\ EncodeFrame(<<k>>) \in Seq(Bytes) /\ Len(EncodeFrame(<<k>>)) = 5
                      /\ EncodeFrame(<<k>>)[5] = k
    OBVIOUS
  <2> HIDE DEF Bytes
  <2>2. /\ <<0, 0, 0, 1, k>> \in Seq(Bytes) /\ Len(<<0, 0, 0, 1, k>>) = 5
        /\ <<0, 0, 0, 1, k>>[5] = k
    BY <2>1
  <2> QED BY <1>2, <2>2
<1>4. Batch \in Seq(Bytes) /\ Len(Batch) = 10 /\ In(Batch, 2)
  <2> DEFINE a == EncodeFrame(<< 1 >>)
             b == EncodeFrame(<< 2 >>)
  <2>1. /\ a \in Seq(Bytes) /\ Len(a) = 5 /\ b \in Seq(Bytes) /\ Len(b) = 5 /\ b[5] = 2
    BY <1>3
  <2> HIDE DEF a, b
  <2>2. /\ a \o b \in Seq(Bytes) /\ Len(a \o b) = Len(a) + Len(b)
        /\ \A i \in 1..Len(b) : (a \o b)[Len(a) + i] = b[i]
    BY <2>1, BytesFollow
  <2>3. 5 \in 1..5 /\ 5 + 5 = 10
    OBVIOUS
  <2>4. (a \o b)[10] = 2 /\ Len(a \o b) = 10
    BY <2>1, <2>2, <2>3
  <2>5. a \o b \in Seq(Bytes) /\ Len(a \o b) = 10 /\ In(a \o b, 2)
    BY <2>2, <2>4 DEF In
  <2> QED BY <2>5 DEF Batch, a, b
<1> DEFINE e == EncodeFrame(<< 2 >>)
           none == Drain[<<>>]
           last == Drain[e]
<1>5. e \in Seq(Bytes) /\ e \o <<>> = e /\ <<>> \in Seq(Bytes)
  <2>1. e \in Seq(Bytes)
    BY <1>1, FrameComesBack
  <2> HIDE DEF e, Bytes
  <2> QED BY <2>1, ConcatEmptySeq
<1>6. none.frames = <<>> /\ ~none.failed
  <2>1. Incomplete(<<>>)
    BY DEF Incomplete
  <2>2. none = Nothing(<<>>)
    BY <1>5, <2>1, Outcomes
  <2> QED BY <2>2 DEF Nothing
<1>7. last = [none EXCEPT !.frames = <<<< 2 >>>> \o none.frames]
  <2> HIDE DEF none
  <2>1. Drain[e \o <<>>] = [none EXCEPT !.frames = IF none.failed THEN <<>> ELSE <<<< 2 >>>> \o @]
    BY <1>1, <1>5, FrameComesBack DEF none
  <2> HIDE DEF e
  <2>2. Drain[e \o <<>>] = [none EXCEPT !.frames = <<<< 2 >>>> \o none.frames]
    BY <1>6, <2>1
  <2> QED BY <1>5, <2>2
<1>8. Drain[Batch] = [last EXCEPT !.frames = IF last.failed THEN <<>> ELSE <<<< 1 >>>> \o @]
  <2>1. Batch = EncodeFrame(<< 1 >>) \o e
    BY DEF Batch
  <2> HIDE DEF e
  <2> QED BY <1>1, <1>5, <2>1, FrameComesBack
<1>9. none = [frames |-> none.frames, buffer |-> none.buffer, failed |-> none.failed]
  BY <1>5, CutRecord
<1> HIDE DEF none, last
<1>10. last = [frames |-> <<<< 2 >>>>, buffer |-> none.buffer, failed |-> FALSE]
  <2>1. <<<< 2 >>>> \o <<>> = <<<< 2 >>>>
    OBVIOUS
  <2>2. none.failed = FALSE
    BY <1>5, <1>6, CutRecord DEF none
  <2>3. PICK u : none = [frames |-> <<>>, buffer |-> u, failed |-> FALSE]
    BY <1>6, <1>9, <2>2
  <2>4. last = [frames |-> <<<< 2 >>>>, buffer |-> u, failed |-> FALSE]
    BY <1>7, <2>1, <2>3
  <2> QED BY <2>3, <2>4
<1>11. Drain[Batch].frames = <<<< 1 >>>> \o <<<< 2 >>>> /\ ~Drain[Batch].failed
  BY <1>8, <1>10
<1>12. <<<< 1 >>>> \o <<<< 2 >>>> = <<<< 1 >>, << 2 >>>>
  <2>1. PICK F : F = Seq(Nat)
    OBVIOUS
  <2>2. PICK x, y \in F : x = << 1 >> /\ y = << 2 >>
    <3>1. << 1 >> \in Seq(Nat) /\ << 2 >> \in Seq(Nat)
      OBVIOUS
    <3>2. \E x, y \in Seq(Nat) : x = << 1 >> /\ y = << 2 >>
      BY <3>1, Zenon
    <3> QED BY <2>1, <3>2
  <2> DEFINE r == <<x>> \o <<y>>
  <2>3. /\ <<x>> \in Seq(F) /\ <<y>> \in Seq(F) /\ <<x, y>> \in Seq(F)
        /\ Len(<<x>>) = 1 /\ Len(<<y>>) = 1 /\ Len(<<x, y>>) = 2
    OBVIOUS
  <2>4. /\ r \in Seq(F) /\ Len(r) = 1 + 1
        /\ \A i \in 1..(1 + 1) : r[i] = IF i <= 1 THEN <<x>>[i] ELSE <<y>>[i - 1]
    BY <2>3, ConcatProperties
  <2> HIDE DEF r
  <2>5. \A i \in 1..2 : i = 1 \/ i = 2
    OBVIOUS
  <2>6. Len(r) = 2 /\ r[1] = x /\ r[2] = y
    BY <2>4
  <2>7. \A i \in 1..2 : r[i] = <<x, y>>[i]
    BY <2>5, <2>6
  <2>8. r = <<x, y>>
    BY <2>3, <2>4, <2>6, <2>7, SeqEqual
  <2> QED BY <2>2, <2>8 DEF r
<1> QED BY <1>4, <1>11, <1>12

(* What a session receives of its batch.                                    *)
BatchPieces(q) ==
  /\ q = <<>> \/ q = <<Batch>> \/ (Len(q) = 2 /\ q[1] \o q[2] = Batch)
  /\ DOMAIN q = 1..Len(q) /\ \A i \in DOMAIN q : q[i] \in Seq(Bytes)

(* See above. *)
LEMMA PiecesOfBatch ==
  ASSUME NEW cut
  PROVE  BatchPieces(Pieces(cut))
<1> DEFINE q == Pieces(cut)
<1>1. CASE cut = 0
  <2>1. q = <<>>
    BY <1>1 DEF Pieces
  <2> QED BY <2>1 DEF BatchPieces
<1>2. CASE cut \in 1..(Len(Batch) - 1)
  <2> DEFINE a == SubSeq(Batch, 1, cut)
             b == SubSeq(Batch, cut + 1, Len(Batch))
  <2>1. cut \in Nat /\ cut # 0 /\ cut <= 10 /\ Len(Batch) = 10 /\ Batch \in Seq(Bytes)
    BY <1>2, BatchBytes
  <2>2. q = <<a, b>>
    BY <1>2, <2>1 DEF Pieces
  <2>3. /\ a \in Seq(Bytes) /\ Len(a) = cut /\ \A i \in 1..cut : a[i] = Batch[i]
        /\ b \in Seq(Bytes) /\ Len(b) = 10 - cut
        /\ \A i \in 1..(10 - cut) : b[i] = Batch[cut + i]
    <3>1. cut \in Nat /\ cut <= Len(Batch)
      BY <2>1
    <3>2. /\ a \in Seq(Bytes) /\ Len(a) = cut /\ \A i \in 1..cut : a[i] = Batch[i]
          /\ b \in Seq(Bytes) /\ Len(b) = Len(Batch) - cut
          /\ \A i \in 1..(Len(Batch) - cut) : b[i] = Batch[cut + i]
      BY <2>1, <3>1, CutBytes
    <3>3. Len(Batch) = 10
      BY <2>1
    <3> HIDE DEF a, b
    <3> QED BY <3>2, <3>3
  <2> HIDE DEF a, b
  <2>4. /\ a \o b \in Seq(Bytes) /\ Len(a \o b) = 10
        /\ \A i \in 1..cut : (a \o b)[i] = a[i]
        /\ \A i \in 1..(10 - cut) : (a \o b)[cut + i] = b[i]
    <3>1. /\ a \o b \in Seq(Bytes) /\ Len(a \o b) = Len(a) + Len(b)
          /\ \A i \in 1..Len(a) : (a \o b)[i] = a[i]
          /\ \A i \in 1..Len(b) : (a \o b)[Len(a) + i] = b[i]
      BY <2>3, BytesFollow
    <3> QED BY <2>1, <2>3, <3>1
  <2>5. \A i \in 1..10 : (a \o b)[i] = Batch[i]
    <3> TAKE i \in 1..10
    <3>1. i \in 1..cut \/ (i - cut \in 1..(10 - cut) /\ cut + (i - cut) = i)
      BY <2>1
    <3> QED BY <2>3, <2>4, <3>1
  <2>6. a \o b = Batch
    <3> HIDE DEF Bytes
    <3> QED BY <2>1, <2>4, <2>5, SeqEqual
  <2> QED BY <2>2, <2>3, <2>6 DEF BatchPieces
<1>3. CASE cut # 0 /\ cut \notin 1..(Len(Batch) - 1)
  <2>1. q = <<Batch>>
    BY <1>3 DEF Pieces
  <2> QED BY <2>1, BatchBytes DEF BatchPieces
<1> QED BY <1>1, <1>2, <1>3
(* What is decoded of a batch: the registration at most once, in whatever   *)
(* order its pieces are pushed; all of it, when that is the order they came *)
(* in.                                                                      *)
LEMMA OnePiece ==
  ASSUME NEW q, BatchPieces(q), NEW i \in DOMAIN q
  PROVE  /\ q[i] \in Seq(Bytes) /\ Once(Drain[q[i]].frames, << 1 >>)
         /\ Len(q) = 1 => /\ ~Drain[q[i]].failed
                          /\ In(Drain[q[i]].frames, << 1 >>) /\ In(Drain[q[i]].frames, << 2 >>)
<1>1. q[i] \in Seq(Bytes)
  BY DEF BatchPieces
<1>2. CASE q = <<>>
  BY <1>2 DEF BatchPieces
<1>3. CASE q = <<Batch>>
  <2>1. q[i] = Batch
    BY <1>3
  <2>2. Drain[Batch].frames = <<<< 1 >>, << 2 >>>> /\ ~Drain[Batch].failed
    BY BatchBytes
  <2>3. PICK f : f = <<<< 1 >>, << 2 >>>>
    OBVIOUS
  <2>4. Len(f) = 2 /\ f[1] = << 1 >> /\ f[2] = << 2 >>
    BY <2>3
  <2>5. In(f, << 1 >>) /\ In(f, << 2 >>)
    BY <2>4 DEF In
  <2>6. Once(Drain[Batch].frames, << 1 >>)
    BY BatchBytes, OneRegister
  <2> QED BY <1>1, <2>1, <2>2, <2>3, <2>5, <2>6
<1>4. CASE Len(q) = 2 /\ q[1] \o q[2] = Batch
  <2> DEFINE a == q[1]
             b == q[2]
  <2>1. a \in Seq(Bytes) /\ b \in Seq(Bytes)
    BY <1>4 DEF BatchPieces
  <2>2. CutAgrees(a, b)
    BY <2>1, CutsDoNotMatter
  <2>3. i \in {1, 2}
    BY <1>4 DEF BatchPieces
  <2> HIDE DEF a, b
  <2>4. Len(a) + Len(b) = 10 /\ Len(a) \in Nat /\ Len(b) \in Nat
    <3>1. Len(a \o b) = Len(a) + Len(b)
      BY <2>1, BytesFollow
    <3>2. Len(a \o b) = 10
      BY <1>4, BatchBytes DEF a, b
    <3> QED BY <2>1, <3>1, <3>2
  <2>5. ASSUME NEW x \in Seq(Bytes), Len(x) <= 10, Len(x) = 10 => x = Batch
        PROVE  Once(Drain[x].frames, << 1 >>)
    <3>1. CASE Len(x) = 10
      BY <2>5, <3>1, BatchBytes, OneRegister
    <3>2. CASE Len(x) # 10
      <4>0. \A n \in Nat : n <= 10 /\ n # 10 => n <= 9
        OBVIOUS
      <4>1. Len(x) \in Nat /\ Len(x) <= 9
        <5>1. Len(x) \in Nat
          OBVIOUS
        <5> QED BY <2>5, <3>2, <4>0, <5>1
      <4> QED BY <4>1, FrameRoom
    <3> QED BY <3>1, <3>2
  <2>6. Len(a) = 10 => a = Batch
    <3> SUFFICES ASSUME Len(a) = 10 PROVE a = Batch
      OBVIOUS
    <3>1. Len(b) = 0
      BY <2>4
    <3>2. b = <<>>
      BY <2>1, <3>1
    <3>3. a \o <<>> = a
      <4> HIDE DEF Bytes
      <4> QED BY <2>1, ConcatEmptySeq
    <3> QED BY <1>4, <3>2, <3>3 DEF a, b
  <2>7. Len(b) = 10 => b = Batch
    <3> SUFFICES ASSUME Len(b) = 10 PROVE b = Batch
      OBVIOUS
    <3>1. Len(a) = 0
      BY <2>4
    <3>2. a = <<>>
      BY <2>1, <3>1
    <3>3. <<>> \o b = b
      <4> HIDE DEF Bytes
      <4> QED BY <2>1, ConcatEmptySeq
    <3> QED BY <1>4, <3>2, <3>3 DEF a, b
  <2>8. Len(a) <= 10 /\ Len(b) <= 10
    BY <2>4
  <2>9. Once(Drain[a].frames, << 1 >>) /\ Once(Drain[b].frames, << 1 >>)
    BY <2>1, <2>5, <2>6, <2>7, <2>8
  <2>10. Len(q) # 1
    BY <1>4
  <2> QED BY <1>1, <2>3, <2>9, <2>10 DEF a, b
<1> QED BY <1>2, <1>3, <1>4 DEF BatchPieces

(* See above. *)
LEMMA TwoPieces ==
  ASSUME NEW q, BatchPieces(q), NEW i \in DOMAIN q, NEW k \in DOMAIN q, i # k
  PROVE  LET f == Drain[q[i]]
             g == Push(f.buffer, q[k])
         IN  /\ Len(q) = 2
             /\ Once(g.frames, << 1 >>) /\ (In(f.frames, << 1 >>) => ~In(g.frames, << 1 >>))
             /\ i = 1 /\ ~f.failed =>
                  \A x \in {<< 1 >>, << 2 >>} : In(f.frames, x) \/ In(g.frames, x)
<1> DEFINE a == q[i]
           b == q[k]
           f == Drain[a]
           g == Push(f.buffer, b)
           w == Drain[a \o b]
<1>1. Len(q) = 2 /\ q[1] \o q[2] = Batch
  <2>1. q = <<>> => DOMAIN q = {}
    OBVIOUS
  <2>2. q = <<Batch>> => DOMAIN q = {1}
    OBVIOUS
  <2>3. q # <<>> /\ q # <<Batch>>
    BY <2>1, <2>2
  <2> QED BY <2>3 DEF BatchPieces
<1>2. (i = 1 /\ k = 2) \/ (i = 2 /\ k = 1)
  BY <1>1 DEF BatchPieces
<1>3. a \in Seq(Bytes) /\ b \in Seq(Bytes)
  BY DEF BatchPieces
<1>4. CutAgrees(a, b)
  BY <1>3, CutsDoNotMatter
<1>5. i = 1 => a \o b = Batch
  BY <1>1, <1>2
<1> HIDE DEF a, b
<1>6. Once(w.frames, << 1 >>)
  <2>1. CASE i = 1
    BY <1>5, <2>1, BatchBytes, OneRegister
  <2>2. CASE i = 2
    <3>1. b \o a = Batch
      BY <1>1, <1>2, <2>2 DEF a, b
    <3>2. /\ Len(b \o a) = Len(b) + Len(a)
          /\ \A j \in 1..Len(b) : (b \o a)[j] = b[j]
          /\ \A j \in 1..Len(a) : (b \o a)[Len(b) + j] = a[j]
      BY <1>3, BytesFollow
    <3>3. /\ a \o b \in Seq(Bytes) /\ Len(a \o b) = Len(a) + Len(b)
          /\ \A j \in 1..Len(a) : (a \o b)[j] = a[j]
          /\ \A j \in 1..Len(b) : (a \o b)[Len(a) + j] = b[j]
      BY <1>3, BytesFollow
    <3>4. Len(b) + Len(a) = 10 /\ Len(a) \in Nat /\ Len(b) \in Nat
      <4>1. Len(a) \in Nat /\ Len(b) \in Nat
        BY <1>3
      <4>2. Len(b \o a) = 10
        BY <3>1, BatchBytes
      <4> QED BY <3>2, <4>1, <4>2
    <3>5. PICK j \in 1..10 : Batch[j] = 2
      BY BatchBytes DEF In
    <3>6. In(a \o b, 2)
      <4>1. CASE j <= Len(b)
        <5>1. j \in 1..Len(b) /\ Len(a) + j \in 1..(Len(a) + Len(b))
          BY <3>4, <4>1
        <5>2. (a \o b)[Len(a) + j] = 2
          BY <3>1, <3>2, <3>3, <3>5, <5>1
        <5> QED BY <3>3, <5>1, <5>2 DEF In
      <4>2. CASE j > Len(b)
        <5>1. /\ j - Len(b) \in 1..Len(a) /\ Len(b) + (j - Len(b)) = j
              /\ j - Len(b) \in 1..(Len(a) + Len(b))
          BY <3>4, <4>2
        <5>2. (a \o b)[j - Len(b)] = 2
          BY <3>1, <3>2, <3>3, <3>5, <5>1
        <5> QED BY <3>3, <5>1, <5>2 DEF In
      <4> QED BY <3>4, <4>1, <4>2
    <3>7. Len(a) + Len(b) = 10
      BY <3>4
    <3> QED BY <3>3, <3>6, <3>7, OneRegister DEF w
  <2> QED BY <1>2, <2>1, <2>2
<1>7. /\ f.frames \in Seq(Seq(Bytes)) /\ f.buffer \in Seq(Bytes)
      /\ f.failed => f.frames = <<>>
  BY <1>3, CutRecord, DrainType
<1>8. g.frames \in Seq(Seq(Bytes)) /\ (g.failed => g.frames = <<>>)
  <2> HIDE DEF f
  <2>1. f.buffer \o b \in Seq(Bytes)
    BY <1>3, <1>7, BytesFollow
  <2> QED BY <2>1, CutRecord, DrainType DEF Push
<1>9. /\ f.failed => g.failed /\ w.failed
      /\ ~f.failed => /\ w.failed = g.failed
                      /\ w.frames = IF g.failed THEN <<>> ELSE f.frames \o g.frames
  BY <1>4 DEF CutAgrees
<1> HIDE DEF f, g, w
<1>10. \A x : x = <<>> => ~In(x, << 1 >>) /\ Once(x, << 1 >>)
  BY DEF In, Once
<1>11. CASE f.failed \/ g.failed
  <2>1. f.failed => f.frames = <<>> /\ g.frames = <<>>
    BY <1>7, <1>8, <1>9
  <2>2. g.frames = <<>>
    BY <1>8, <1>11, <2>1
  <2>3. i = 1 /\ ~f.failed => FALSE
    BY <1>5, <1>9, <1>11, BatchBytes DEF w
  <2> QED BY <1>1, <1>10, <2>2, <2>3 DEF f, g, a, b
<1>12. CASE ~f.failed /\ ~g.failed
  <2>1. w.frames = f.frames \o g.frames
    BY <1>9, <1>12
  <2>2. /\ \A y : In(w.frames, y) <=> In(f.frames, y) \/ In(g.frames, y)
        /\ Once(g.frames, << 1 >>) /\ ~(In(f.frames, << 1 >>) /\ In(g.frames, << 1 >>))
    BY <1>6, <1>7, <1>8, <2>1, FramesBehind
  <2>3. i = 1 => \A x \in {<< 1 >>, << 2 >>} : In(w.frames, x)
    <3>1. i = 1 => w.frames = <<<< 1 >>, << 2 >>>>
      BY <1>5, BatchBytes DEF w
    <3>2. PICK h : h = <<<< 1 >>, << 2 >>>>
      OBVIOUS
    <3>3. Len(h) = 2 /\ h[1] = << 1 >> /\ h[2] = << 2 >>
      BY <3>2
    <3>4. In(h, << 1 >>) /\ In(h, << 2 >>)
      BY <3>3 DEF In
    <3> QED BY <3>1, <3>2, <3>4
  <2> QED BY <1>1, <2>2, <2>3 DEF f, g, a, b
<1> QED BY <1>11, <1>12
----------------------------------------------------------------------------
(* What the workers decode and handle.                                      *)

EventNames == {"register", "heartbeat"}

FrameOf(event) == IF event = "register" THEN << 1 >> ELSE << 2 >>

Beyond == {"events", "consume", "upsert"}

(* The piece j has been decoded. *)
Decoded(j) ==
  j \in ran \/ \E w \in Workers : worker[w].at \in Beyond /\ worker[w].job = j

DecodeTypes ==
  /\ decoder \in [Connections -> Seq(Bytes)]
  /\ pushed \in [Connections -> Seq(1..2)]
  /\ handled \in [Connections -> SUBSET EventNames]
  /\ \A w \in Workers :
       /\ worker[w].events \in Seq(EventNames)
       /\ worker[w].at \in {"consume", "upsert"} =>
            worker[w].events # <<>> /\ Head(worker[w].events) = "register"

(* A piece is decoded once. *)
PushedOK ==
  \A j \in Jobs :
    /\ InFlight(j) => j \notin ran
    /\ In(pushed[j[1]], j[2]) <=> Decoded(j)
    /\ Once(pushed[j[1]], j[2])

(* The decoder's buffer between two pieces. *)
BufferOK(c) ==
  /\ BatchPieces(pieces[c])
  /\ pushed[c] = <<>> => decoder[c] = <<>> /\ handled[c] = {}
  /\ \A i \in 1..2 : pushed[c] = <<i>> => decoder[c] = Drain[pieces[c][i]].buffer

(* An event waits for its turn. *)
Ahead(c, event) == \E w \in Workers : Holds(w, c) /\ In(worker[w].events, event)

(* The writes of a registration are submitted once: there is one            *)
(* registration in a batch, and it has not come before its turn.            *)
RegisterOK(c) ==
  /\ \A op \in {"consume", "upsert"} : Spent(op, c) =>
       /\ pushed[c] # <<>>
       /\ \A i \in 1..2 : pushed[c] = <<i>> => In(Drain[pieces[c][i]].frames, << 1 >>)
  /\ Ahead(c, "register") =>
       \A i \in 1..2 : pushed[c] = <<i>> => In(Drain[pieces[c][i]].frames, << 1 >>)
  /\ \A w \in Workers : Holds(w, c) =>
       /\ Once(worker[w].events, "register")
       /\ worker[w].at = "events" /\ In(worker[w].events, "register") =>
            ~Spent("consume", c) /\ ~Spent("upsert", c)
       /\ worker[w].at = "consume" => ~Spent("upsert", c)

(* Nothing has gone wrong with c's batch. *)
Sound(c) ==
  /\ ~hasError[c] /\ ~In(inbox[c], "failed") /\ phase[c] # "closed" /\ ~IoStopped
  /\ \A w \in Workers : Holds(w, c) => ~worker[w].failed

Met(c, event) == event \in handled[c] \/ Ahead(c, event)

(* Then the events of what was decoded in order are handled, or wait.       *)
MetOK(c) ==
  Sound(c) =>
    /\ pushed[c] = << 1 >> =>
         /\ ~Drain[pieces[c][1]].failed
         /\ \A event \in EventNames :
              In(Drain[pieces[c][1]].frames, FrameOf(event)) => Met(c, event)
    /\ pushed[c] = <<1, 2>> => \A event \in EventNames : Met(c, event)

Decoding ==
  /\ DecodeTypes /\ PushedOK
  /\ \A c \in Connections : BufferOK(c) /\ RegisterOK(c) /\ MetOK(c)

(* What the answer counts, and that it was true when it was given.          *)
AnswerTypes ==
  /\ hasError \in [Connections -> BOOLEAN]
  /\ answer \in [Connections -> {0, 200, 400}]
  /\ \A c \in Connections : pending[c] <= received[c]

TrueAnswer(c) == answer[c] = 200 /\ InOrder(c) => handled[c] = EventNames

(* Only a stopping pool refuses; an offline mark comes with the end of its  *)
(* session; the write actor ends with nothing left.                         *)
Leavings ==
  /\ poolRefused # {} => IoStopped
  /\ \A c \in Connections : wrote[Write("offline", c)] # "" => phase[c] = "closed"
  /\ stopper.at = "stopped" => writes = <<>> /\ writing = {}
(* The events of a list of frames.                                          *)
LEMMA EventsOfFrames ==
  ASSUME NEW f \in Seq(Seq(Bytes)),
         \A i \in 1..Len(f) : Len(f[i]) = 1 /\ f[i][1] \in {1, 2}
  PROVE  LET events == [i \in DOMAIN f |-> Event[f[i][1]]]
         IN  /\ events \in Seq(EventNames)
             /\ \A event \in EventNames : In(events, event) <=> In(f, FrameOf(event))
             /\ Once(f, << 1 >>) => Once(events, "register")
<1> DEFINE events == [i \in DOMAIN f |-> Event[f[i][1]]]
<1>1. PICK F : F = Seq(Bytes)
  OBVIOUS
<1>2. f \in Seq(F) /\ \A i \in 1..Len(f) : f[i] \in F
  BY <1>1
<1>3. Len(f) \in Nat /\ DOMAIN f = 1..Len(f)
  BY <1>2
<1>4. Event[1] = "register" /\ Event[2] = "heartbeat"
  BY DEF Event
<1>5. ASSUME NEW i \in 1..Len(f)
      PROVE  /\ f[i] = << 1 >> \/ f[i] = << 2 >>
             /\ f[i] = << 1 >> => events[i] = "register"
             /\ f[i] = << 2 >> => events[i] = "heartbeat"
  <2>1. f[i] \in Seq(Bytes) /\ Len(f[i]) = 1 /\ f[i][1] \in {1, 2}
    BY <1>1, <1>2
  <2>2. PICK x : x = f[i]
    OBVIOUS
  <2>3. x = <<x[1]>>
    <3>1. x \in Seq(Bytes) /\ Len(x) = 1
      BY <2>1, <2>2
    <3> HIDE DEF Bytes
    <3> QED BY <3>1
  <2>4. events[i] = Event[f[i][1]]
    BY <1>3
  <2>5. f[i] = << 1 >> => f[i][1] = 1
    OBVIOUS
  <2>6. f[i] = << 2 >> => f[i][1] = 2
    OBVIOUS
  <2> HIDE DEF events
  <2> QED BY <1>4, <2>1, <2>2, <2>3, <2>4, <2>5, <2>6
<1>6. << 1 >> # << 2 >>
  <2>1. \A x, y : x = << 1 >> /\ y = << 2 >> => x[1] # y[1]
    OBVIOUS
  <2> QED BY <2>1
<1>7. events \in Seq(EventNames) /\ Len(events) = Len(f)
  <2>1. \A i \in 1..Len(f) : events[i] \in EventNames
    BY <1>5 DEF EventNames
  <2>2. events \in [1..Len(f) -> EventNames]
    BY <1>3, <2>1
  <2>3. PICK n \in Nat : n = Len(f)
    BY <1>3
  <2> HIDE DEF events
  <2>4. events \in [1..n -> EventNames]
    BY <2>2, <2>3
  <2>5. events \in Seq(EventNames) /\ Len(events) = n
    BY <2>4
  <2> QED BY <2>3, <2>5
<1> HIDE DEF events
<1>8. \A event \in EventNames : In(events, event) <=> In(f, FrameOf(event))
  BY <1>5, <1>6, <1>7 DEF In, FrameOf, EventNames
<1>9. Once(f, << 1 >>) => Once(events, "register")
  BY <1>5, <1>6, <1>7 DEF Once
<1> QED BY <1>7, <1>8, <1>9 DEF events

(* A piece is decoded.                                                      *)
LEMMA DecodeEvents ==
  ASSUME Basics, DecodeTypes, \A d \in Connections : BatchPieces(pieces[d]),
         NEW w \in Workers, WorkerDecode(w)
  PROVE  LET c == ConnOf(w)
             i == worker[w].job[2]
             r == Push(decoder[c], pieces[c][i])
         IN  /\ c \in Connections /\ i \in 1..2 /\ i \in DOMAIN pieces[c]
             /\ worker[w].job = <<c, i>> /\ worker[w].job \in Jobs
             /\ decoder' = [decoder EXCEPT ![c] = r.buffer]
             /\ pushed' = [pushed EXCEPT ![c] = Append(pushed[c], i)]
             /\ UNCHANGED <<handled, ran, inbox, tasks, actorVars>>
             /\ r.buffer \in Seq(Bytes)
             /\ worker'[w].events \in Seq(EventNames)
             /\ \A event \in EventNames :
                  In(worker'[w].events, event) => In(r.frames, FrameOf(event))
             /\ ~worker'[w].failed =>
                  /\ ~r.failed
                  /\ \A event \in EventNames :
                       In(r.frames, FrameOf(event)) => In(worker'[w].events, event)
             /\ Once(r.frames, << 1 >>) => Once(worker'[w].events, "register")
<1> DEFINE c == ConnOf(w)
           i == worker[w].job[2]
           r == Push(decoder[c], pieces[c][i])
           failed == r.failed \/ \E frame \in Range(r.frames) :
                                   Len(frame) # 1 \/ frame[1] \notin DOMAIN Event
           events == IF failed THEN <<>>
                     ELSE [k \in DOMAIN r.frames |-> Event[r.frames[k][1]]]
<1>1. worker[w].at = "lock" /\ worker[w].job \in Jobs /\ Numbered(worker[w].job)
  BY DEF WorkerDecode, Basics, Types, PiecesOK, Busy
<1>2. /\ c \in Connections /\ i \in 1..2 /\ worker[w].job = <<c, i>>
      /\ i <= received[c]
  BY <1>1 DEF Jobs, ConnOf, Numbered
<1>3. received[c] \in Nat /\ received[c] <= Len(pieces[c]) /\ DOMAIN pieces[c] = 1..Len(pieces[c])
      /\ Len(pieces[c]) \in Nat
  <2>1. BatchPieces(pieces[c])
    BY <1>2
  <2>2. DOMAIN pieces[c] = 1..Len(pieces[c])
    BY <2>1 DEF BatchPieces
  <2>3. Len(pieces[c]) \in 0..2 /\ received[c] <= Len(pieces[c])
    BY <1>2 DEF Basics, PiecesOK
  <2>4. received[c] \in Nat
    BY <1>2 DEF Basics, Types
  <2> QED BY <2>2, <2>3, <2>4
<1>4. i \in DOMAIN pieces[c] /\ pieces[c][i] \in Seq(Bytes) /\ decoder[c] \in Seq(Bytes)
  <2>1. i \in 1..Len(pieces[c])
    BY <1>2, <1>3
  <2>2. BatchPieces(pieces[c])
    BY <1>2
  <2>3. i \in DOMAIN pieces[c]
    BY <1>3, <2>1
  <2>4. pieces[c][i] \in Seq(Bytes)
    BY <2>2, <2>3 DEF BatchPieces
  <2> QED BY <1>2, <2>3, <2>4 DEF DecodeTypes
<1> HIDE DEF c, i
<1>5. r.buffer \in Seq(Bytes) /\ r.frames \in Seq(Seq(Bytes))
  <2>1. decoder[c] \o pieces[c][i] \in Seq(Bytes)
    BY <1>4, BytesFollow
  <2> QED BY <2>1, CutRecord DEF Push
<1>6. /\ decoder' = [decoder EXCEPT ![c] = r.buffer]
      /\ pushed' = [pushed EXCEPT ![c] = Append(@, i)]
      /\ worker' = [worker EXCEPT ![w].at = "events", ![w].failed = failed,
                                  ![w].events = events]
      /\ UNCHANGED <<handled, ran, inbox, tasks, actorVars>>
  BY DEF WorkerDecode, c, i
<1> HIDE DEF r, failed, events
<1>7. pushed' = [pushed EXCEPT ![c] = Append(pushed[c], i)]
  BY <1>6
<1>8. DOMAIN worker = Workers /\ DOMAIN worker[w] = {"at", "job", "events", "failed"}
  BY DEF Basics, Types, WorkerFields
<1>9. worker'[w].events = events /\ worker'[w].failed = failed
  BY <1>6, <1>8
<1>10. \A event : ~In(<<>>, event) /\ Once(<<>>, event)
  BY DEF In, Once
<1>11. CASE failed
  <2>1. events = <<>>
    BY <1>11 DEF events
  <2>2. <<>> \in Seq(EventNames)
    OBVIOUS
  <2> QED BY <1>2, <1>4, <1>5, <1>6, <1>7, <1>9, <1>10, <1>1, <1>11, <2>1, <2>2 DEF c, i, r
<1>12. CASE ~failed
  <2>1. ~r.failed /\ \A k \in 1..Len(r.frames) : Len(r.frames[k]) = 1 /\ r.frames[k][1] \in {1, 2}
    <3>1. PICK F : F = Seq(Bytes)
      OBVIOUS
    <3>2. r.frames \in Seq(F)
      BY <1>5, <3>1
    <3>3. DOMAIN r.frames = 1..Len(r.frames)
      BY <3>2
    <3>4. DOMAIN Event = {1, 2}
      BY DEF Event
    <3>5. \A k \in DOMAIN r.frames : r.frames[k] \in Range(r.frames)
      BY DEF Range
    <3> QED BY <1>12, <3>3, <3>4, <3>5 DEF failed
  <2>2. events = [k \in DOMAIN r.frames |-> Event[r.frames[k][1]]]
    BY <1>12 DEF events
  <2>3. /\ events \in Seq(EventNames)
        /\ \A event \in EventNames : In(events, event) <=> In(r.frames, FrameOf(event))
        /\ Once(r.frames, << 1 >>) => Once(events, "register")
    BY <1>5, <2>1, <2>2, EventsOfFrames
  <2> QED BY <1>2, <1>4, <1>5, <1>6, <1>7, <1>9, <1>1, <1>12, <2>1, <2>3 DEF c, i, r
<1> QED BY <1>11, <1>12

(* An event is handled, or waits for a write.                               *)
LEMMA HandleEvents ==
  ASSUME Basics, DecodeTypes, NEW w \in Workers,
         WorkerEvent(w) \/ WorkerConsumed(w) \/ WorkerUpserted(w)
  PROVE  LET c == ConnOf(w)
             events == worker[w].events
         IN  /\ worker[w].at \in Beyond /\ events # <<>> /\ events \in Seq(EventNames)
             /\ UNCHANGED <<decoder, pushed, ran, inbox, tasks>>
             /\ \/ \E op \in {"consume", "upsert"} :
                     /\ WorkerChange(w, op, worker[w].job) /\ worker'[w].events = events
                     /\ worker'[w].failed = worker[w].failed
                     /\ Head(events) = "register" /\ UNCHANGED <<handled, writing, wrote>>
                     /\ writes' = Append(writes, Write(op, c))
                     /\ worker[w].at = "events" \/ (worker[w].at = "consume" /\ op = "upsert")
                \/ \E ok \in BOOLEAN :
                     /\ WorkerChange(w, "events", worker[w].job)
                     /\ worker'[w].events = Tail(events)
                     /\ ~worker'[w].failed => ~worker[w].failed /\ ok
                     /\ handled' = IF ok THEN [handled EXCEPT ![c] = @ \cup {Head(events)}]
                                   ELSE handled
                     /\ UNCHANGED actorVars
<1> DEFINE c == ConnOf(w)
           events == worker[w].events
<1>1. Types /\ StopOK
  BY DEF Basics
<1>2. /\ worker[w].at \in Beyond /\ UNCHANGED <<decoder, pushed, ran, inbox, tasks>>
  BY DEF WorkerEvent, WorkerConsumed, WorkerUpserted, Beyond
<1>3. events \in Seq(EventNames) /\ events # <<>>
  BY DEF DecodeTypes, WorkerEvent, WorkerConsumed, WorkerUpserted
<1>4. DOMAIN worker = Workers /\ DOMAIN worker[w] = {"at", "job", "events", "failed"}
  BY <1>1 DEF Types, WorkerFields
<1>5. ASSUME NEW ok \in BOOLEAN, EventDone(w, ok)
      PROVE  /\ WorkerChange(w, "events", worker[w].job)
             /\ worker'[w].events = Tail(events)
             /\ ~worker'[w].failed => ~worker[w].failed /\ ok
             /\ handled' = IF ok THEN [handled EXCEPT ![c] = @ \cup {Head(events)}]
                           ELSE handled
  <2>1. WorkerChange(w, "events", worker[w].job)
    BY <1>1, <1>5, EventDoneEffect
  <2>2. worker' = [worker EXCEPT ![w].at = "events", ![w].failed = @ \/ ~ok,
                                 ![w].events = Tail(@)]
    BY <1>5 DEF EventDone
  <2>3. worker'[w].events = Tail(events)
    BY <1>4, <2>2
  <2>4. ~worker'[w].failed => ~worker[w].failed /\ ok
    BY <1>4, <2>2
  <2>5. handled' = IF ok THEN [handled EXCEPT ![c] = @ \cup {Head(events)}]
                   ELSE handled
    BY <1>5 DEF EventDone
  <2> QED BY <2>1, <2>3, <2>4, <2>5
<1>6. ASSUME NEW op \in {"consume", "upsert"}, worker' = [worker EXCEPT ![w].at = op],
             Submit(Write(op, c))
      PROVE  /\ WorkerChange(w, op, worker[w].job) /\ worker'[w].events = events
             /\ worker'[w].failed = worker[w].failed
             /\ writes' = Append(writes, Write(op, c)) /\ UNCHANGED <<writing, wrote>>
  <2>1. worker[w].at # "ended"
    BY <1>2 DEF Beyond
  <2>2. writes' = Append(writes, Write(op, c)) /\ UNCHANGED <<writing, wrote>>
    BY <1>1, <1>6, <2>1, SubmitEffect
  <2>3. WorkerChange(w, op, worker[w].job)
    BY <1>1, <1>6, WorkerMoves
  <2>4. worker'[w].events = events /\ worker'[w].failed = worker[w].failed
    BY <1>4, <1>6
  <2> QED BY <2>2, <2>3, <2>4
<1>7. CASE WorkerEvent(w)
  <2> DEFINE known == agents[owner[c]] # "none"
             op == IF known THEN "upsert" ELSE "consume"
  <2>1. worker[w].at = "events"
    BY <1>7 DEF WorkerEvent
  <2>2. CASE Head(events) = "heartbeat"
    <3>1. EventDone(w, known) /\ UNCHANGED actorVars
      BY <1>7, <2>2 DEF WorkerEvent
    <3>2. known \in BOOLEAN
      OBVIOUS
    <3> HIDE DEF known, events, c
    <3> QED BY <1>2, <1>3, <1>5, <3>1, <3>2 DEF events, c
  <2>3. CASE Head(events) # "heartbeat"
    <3>1. Head(events) = "register"
      <4>1. Head(events) \in EventNames
        BY <1>3
      <4> QED BY <2>3, <4>1 DEF EventNames
    <3>2. /\ worker' = [worker EXCEPT ![w].at = op] /\ Submit(Write(op, c))
          /\ UNCHANGED <<handled, current>>
      BY <1>7, <2>3 DEF WorkerEvent
    <3>3. op \in {"consume", "upsert"}
      OBVIOUS
    <3> HIDE DEF op, events, c
    <3> QED BY <1>2, <1>3, <1>6, <2>1, <3>1, <3>2, <3>3 DEF events, c
  <2> QED BY <2>2, <2>3
<1>8. CASE WorkerConsumed(w)
  <2>1. worker[w].at = "consume" /\ Head(events) = "register"
    BY <1>8 DEF WorkerConsumed, DecodeTypes
  <2>2. CASE wrote[Write("consume", c)] = "ok"
    <3>1. /\ worker' = [worker EXCEPT ![w].at = "upsert"] /\ Submit(Write("upsert", c))
          /\ UNCHANGED <<handled, current>>
      BY <1>8, <2>2 DEF WorkerConsumed
    <3> HIDE DEF events, c
    <3> QED BY <1>2, <1>3, <1>6, <2>1, <3>1 DEF events, c
  <2>3. CASE wrote[Write("consume", c)] # "ok"
    <3>1. EventDone(w, FALSE) /\ UNCHANGED actorVars
      BY <1>8, <2>3 DEF WorkerConsumed
    <3> HIDE DEF events, c
    <3> QED BY <1>2, <1>3, <1>5, <3>1 DEF events, c
  <2> QED BY <2>2, <2>3
<1>9. CASE WorkerUpserted(w)
  <2> DEFINE ok == wrote[Write("upsert", c)] = "ok"
  <2>1. EventDone(w, ok) /\ UNCHANGED actorVars
    BY <1>9 DEF WorkerUpserted
  <2>2. ok \in BOOLEAN
    OBVIOUS
  <2> HIDE DEF ok, events, c
  <2> QED BY <1>2, <1>3, <1>5, <2>1, <2>2 DEF events, c
<1> QED BY <1>7, <1>8, <1>9
(* A step that leaves a connection's decoder and its worker alone.          *)
LEMMA ConnKept ==
  ASSUME NEW d \in Connections, BufferOK(d), RegisterOK(d), MetOK(d),
         pieces'[d] = pieces[d] \/ (pushed[d] = <<>> /\ BatchPieces(pieces'[d])),
         decoder'[d] = decoder[d], pushed'[d] = pushed[d], handled'[d] = handled[d],
         \A v \in Workers : /\ Holds(v, d)' <=> Holds(v, d)
                            /\ Holds(v, d) => worker'[v] = worker[v],
         \A op \in {"consume", "upsert"} : Spent(op, d)' <=> Spent(op, d),
         Sound(d)' => Sound(d)
  PROVE  BufferOK(d)' /\ RegisterOK(d)' /\ MetOK(d)'
<1>1. \A event : Ahead(d, event)' <=> Ahead(d, event)
  BY DEF Ahead
<1>2. \A i \in 1..2 : pushed[d] # <<i>> \/ pieces'[d] = pieces[d]
  <2>1. \A i \in 1..2 : <<i>> # <<>>
    OBVIOUS
  <2> QED BY <2>1
<1>3. pushed[d] = <<1, 2>> \/ pushed[d] = << 1 >> => pieces'[d] = pieces[d]
  <2>1. <<1, 2>> # <<>> /\ << 1 >> # <<>>
    OBVIOUS
  <2> QED BY <2>1
<1>4. BufferOK(d)'
  BY <1>2 DEF BufferOK
<1>5. RegisterOK(d)'
  <2>1. ASSUME NEW op \in {"consume", "upsert"}, Spent(op, d)'
        PROVE  /\ pushed'[d] # <<>>
               /\ \A i \in 1..2 : pushed'[d] = <<i>> => In(Drain[pieces'[d][i]].frames, << 1 >>)
    <3>1. Spent(op, d)
      BY <2>1
    <3> QED BY <1>2, <3>1 DEF RegisterOK
  <2>2. ASSUME Ahead(d, "register")'
        PROVE  \A i \in 1..2 : pushed'[d] = <<i>> => In(Drain[pieces'[d][i]].frames, << 1 >>)
    BY <1>1, <1>2, <2>2 DEF RegisterOK
  <2>3. ASSUME NEW v \in Workers, Holds(v, d)'
        PROVE  /\ Once(worker'[v].events, "register")
               /\ worker'[v].at = "events" /\ In(worker'[v].events, "register") =>
                    ~Spent("consume", d)' /\ ~Spent("upsert", d)'
               /\ worker'[v].at = "consume" => ~Spent("upsert", d)'
    <3>1. Holds(v, d) /\ worker'[v] = worker[v]
      BY <2>3
    <3>2. (Spent("consume", d)' <=> Spent("consume", d)) /\ (Spent("upsert", d)' <=> Spent("upsert", d))
      OBVIOUS
    <3> QED BY <3>1, <3>2 DEF RegisterOK
  <2> QED BY <2>1, <2>2, <2>3 DEF RegisterOK
<1>6. MetOK(d)'
  <2>1. SUFFICES ASSUME Sound(d)' PROVE
           /\ pushed'[d] = << 1 >> =>
                /\ ~Drain[pieces'[d][1]].failed
                /\ \A event \in EventNames :
                     In(Drain[pieces'[d][1]].frames, FrameOf(event)) => Met(d, event)'
           /\ pushed'[d] = <<1, 2>> => \A event \in EventNames : Met(d, event)'
    BY DEF MetOK
  <2>2. \A event : Met(d, event)' <=> Met(d, event)
    BY <1>1 DEF Met
  <2> QED BY <1>3, <2>1, <2>2 DEF MetOK
<1> QED BY <1>4, <1>5, <1>6

(* Who holds a dispatcher after the step of a worker.                       *)
LEMMA HoldsAfter ==
  ASSUME NEW w \in Workers, NEW at, NEW job, WorkerChange(w, at, job), NEW d
  PROVE  /\ \A v \in Workers \ {w} : (Holds(v, d)' <=> Holds(v, d)) /\ worker'[v] = worker[v]
         /\ Holds(w, d)' <=> at \in Beyond /\ job[1] = d
         /\ Holds(w, d) <=> worker[w].at \in Beyond /\ worker[w].job[1] = d
BY DEF WorkerChange, Holds, ConnOf, Beyond

(* Which pieces are decoded, after the step of a worker that goes on with   *)
(* its piece, or has none.                                                  *)
LEMMA DecodedKept ==
  ASSUME NEW w \in Workers, NEW at, NEW job, WorkerChange(w, at, job), ran' = ran,
         \/ at \in Beyond /\ worker[w].at \in Beyond /\ job = worker[w].job
         \/ at \notin Beyond /\ worker[w].at \notin Beyond
  PROVE  \A j : Decoded(j)' <=> Decoded(j)
BY DEF WorkerChange, Decoded

(* The writes of a connection, when none of it is submitted.                *)
LEMMA SpentSame ==
  ASSUME UNCHANGED <<writes, writing, wrote>>
  PROVE  \A op, d : Spent(op, d)' <=> Spent(op, d)
BY DEF Spent, Due

(* A thread takes a piece, or ends.                                         *)
LEMMA TakeDecoding ==
  ASSUME Basics, Answers, Decoding, NEW w \in Workers, WorkerTake(w) \/ WorkerEnd(w)
  PROVE  Decoding'
<1>1. Types /\ WorkerFrame
  BY WorkerBasics DEF Basics, WorkerStep
<1>2. \E at, job :
         /\ at \in {"lock", "ended"} /\ WorkerChange(w, at, job) /\ worker[w].at \notin Beyond
         /\ at = "ended" => job = worker[w].job
         /\ worker'[w].events \in Seq(EventNames)
  <2>1. DOMAIN worker = Workers /\ DOMAIN worker[w] = {"at", "job", "events", "failed"}
    BY <1>1 DEF Types, WorkerFields
  <2>2. CASE WorkerTake(w)
    <3>1. WorkerChange(w, "lock", Head(tasks)) /\ worker[w].at = "idle"
      BY <1>1, <2>2, TakeEffect
    <3>2. worker' = [worker EXCEPT ![w] = [Idle EXCEPT !.at = "lock", !.job = Head(tasks)]]
      BY <2>2 DEF WorkerTake
    <3>3. worker'[w].events = <<>> /\ <<>> \in Seq(EventNames)
      BY <2>1, <3>2 DEF Idle
    <3> QED BY <3>1, <3>3 DEF Beyond
  <2>3. CASE WorkerEnd(w)
    <3>1. WorkerChange(w, "ended", worker[w].job) /\ worker[w].at = "idle"
      BY <1>1, <2>3, EndEffect
    <3>2. worker' = [worker EXCEPT ![w].at = "ended"]
      BY <2>3 DEF WorkerEnd
    <3>3. worker'[w].events = worker[w].events
      BY <2>1, <3>2
    <3> QED BY <3>1, <3>3 DEF Beyond, Decoding, DecodeTypes
  <2> QED BY <2>2, <2>3
<1>3. PICK at, job :
         /\ at \in {"lock", "ended"} /\ WorkerChange(w, at, job) /\ worker[w].at \notin Beyond
         /\ at = "ended" => job = worker[w].job
         /\ worker'[w].events \in Seq(EventNames)
  BY <1>2
<1>4. UNCHANGED <<decoder, pushed, handled, ran, inbox, current, writes, writing, wrote,
                  pieces, phase, hasError, stopper>>
  BY <1>1 DEF WorkerTake, WorkerEnd, actorVars, WorkerFrame, peerVars, sessionVars
<1>5. at \notin Beyond /\ at \notin {"consume", "upsert"}
  BY <1>3 DEF Beyond
<1>6. DecodeTypes'
  BY <1>3, <1>4, <1>5 DEF Decoding, DecodeTypes, WorkerChange
<1>7. PushedOK'
  <2>1. \A j : InFlight(j)' <=> InFlight(j)
    <3>1. CASE WorkerTake(w)
      BY <1>1, <3>1, FlightTaken
    <3>2. CASE WorkerEnd(w)
      <4>1. WorkerChange(w, "ended", worker[w].job) /\ worker[w].at = "idle" /\ tasks' = tasks
        BY <1>1, <3>2, EndEffect DEF WorkerEnd
      <4> QED BY <4>1, FlightKept DEF Busy
    <3> QED BY <3>1, <3>2
  <2>2. \A j : Decoded(j)' <=> Decoded(j)
    BY <1>3, <1>4, <1>5, DecodedKept
  <2> QED BY <1>4, <2>1, <2>2 DEF Decoding, PushedOK
<1>8. ASSUME NEW d \in Connections
      PROVE  BufferOK(d)' /\ RegisterOK(d)' /\ MetOK(d)'
  <2>1. /\ \A v \in Workers \ {w} : (Holds(v, d)' <=> Holds(v, d)) /\ worker'[v] = worker[v]
        /\ ~Holds(w, d)' /\ ~Holds(w, d)
    BY <1>3, <1>5, HoldsAfter
  <2>2. \A v \in Workers : /\ Holds(v, d)' <=> Holds(v, d)
                           /\ Holds(v, d) => worker'[v] = worker[v]
    BY <2>1
  <2>3. IoStopped' = IoStopped
    BY <1>4, SamePoint
  <2>4. Sound(d)' => Sound(d)
    BY <1>4, <2>2, <2>3 DEF Sound
  <2>5. \A op \in {"consume", "upsert"} : Spent(op, d)' <=> Spent(op, d)
    BY <1>4, SpentSame
  <2> QED BY <1>4, <2>2, <2>4, <2>5, ConnKept DEF Decoding
<1> QED BY <1>6, <1>7, <1>8 DEF Decoding
(* What is known of the connections but the one a worker is at.             *)
LEMMA OthersDecoding ==
  ASSUME Basics, Decoding, NEW w \in Workers, NEW at, NEW job, WorkerChange(w, at, job),
         NEW c, worker[w].job[1] = c, at \in Beyond => job[1] = c, WorkerFrame,
         NEW d \in Connections, d # c,
         decoder'[d] = decoder[d], pushed'[d] = pushed[d], handled'[d] = handled[d],
         inbox'[d] = inbox[d],
         \A op \in {"consume", "upsert"} : Spent(op, d)' <=> Spent(op, d)
  PROVE  BufferOK(d)' /\ RegisterOK(d)' /\ MetOK(d)'
<1>1. /\ \A v \in Workers \ {w} : (Holds(v, d)' <=> Holds(v, d)) /\ worker'[v] = worker[v]
      /\ ~Holds(w, d)' /\ ~Holds(w, d)
  <2>1. /\ \A v \in Workers \ {w} : (Holds(v, d)' <=> Holds(v, d)) /\ worker'[v] = worker[v]
        /\ Holds(w, d)' <=> at \in Beyond /\ job[1] = d
        /\ Holds(w, d) <=> worker[w].at \in Beyond /\ worker[w].job[1] = d
    BY HoldsAfter
  <2> QED BY <2>1
<1>2. \A v \in Workers : /\ Holds(v, d)' <=> Holds(v, d)
                         /\ Holds(v, d) => worker'[v] = worker[v]
  BY <1>1
<1>3. pieces' = pieces /\ phase' = phase /\ hasError' = hasError /\ stopper' = stopper
  BY DEF WorkerFrame, peerVars, sessionVars
<1>4. IoStopped' = IoStopped
  BY <1>3, SamePoint
<1>5. Sound(d)' => Sound(d)
  BY <1>2, <1>3, <1>4 DEF Sound
<1> QED BY <1>2, <1>3, <1>5, ConnKept DEF Decoding

(* A thread is through with a piece.                                        *)
LEMMA FinishDecoding ==
  ASSUME Basics, Registered, Answers, Decoding, NEW w \in Workers, WorkerFinish(w)
  PROVE  Decoding'
<1>1. Types /\ WorkerFrame /\ Mutex /\ JobsOK
  BY WorkerBasics DEF Basics, WorkerStep, Registered, Answers
<1>2. /\ WorkerChange(w, "idle", Nil) /\ worker[w].at = "events" /\ worker[w].events = <<>>
      /\ ran' = ran \cup {worker[w].job}
      /\ UNCHANGED <<decoder, pushed, handled, tasks, writes, writing, wrote>>
  BY <1>1, FinishEffect DEF WorkerFinish, actorVars
<1>3. worker'[w].events = <<>>
  <2>1. worker' = [worker EXCEPT ![w] = Idle]
    BY DEF WorkerFinish
  <2> QED BY <1>1, <2>1 DEF Types, Idle
<1>a. PICK c : c = ConnOf(w)
  OBVIOUS
<1>b. PICK k : k = worker[w].job
  OBVIOUS
<1>c. PICK h : h = IF worker[w].failed THEN "failed" ELSE "accepted"
  OBVIOUS
<1>4. c \in Connections /\ k[1] = c
  <2>1. ConnOf(w) \in Connections
    BY <1>1, <1>2, WorkerOpened DEF Busy
  <2> QED BY <1>a, <1>b, <2>1 DEF ConnOf
<1>5. /\ inbox'[c] = IF IoStopped THEN inbox[c] ELSE Append(inbox[c], h)
      /\ \A d \in Connections \ {c} : inbox'[d] = inbox[d]
  <2>1. Post(c, h) /\ h \in Handlers
    BY <1>a, <1>c DEF WorkerFinish, Handlers
  <2> QED BY <1>1, <1>4, <2>1, PostEffect
<1>6. DecodeTypes'
  <2>1. <<>> \in Seq(EventNames) /\ worker'[w].at = "idle"
    BY <1>2 DEF WorkerChange
  <2> QED BY <1>2, <1>3, <2>1 DEF Decoding, DecodeTypes, WorkerChange
<1>7. PushedOK'
  <2>1. \A j : InFlight(j)' <=> InFlight(j) /\ j # k
    BY <1>1, <1>b, FlightEnded
  <2>2. \A j : Decoded(j)' <=> Decoded(j)
    <3>1. Decoded(k) /\ Decoded(k)'
      BY <1>2, <1>b DEF Decoded, Beyond
    <3>2. ASSUME NEW j, j # k
          PROVE  Decoded(j)' <=> Decoded(j)
      <4>1. j \in ran' <=> j \in ran
        BY <1>2, <1>b, <3>2
      <4>2. \A v \in Workers : /\ v # w => worker'[v] = worker[v]
                               /\ worker[w].job # j /\ worker'[w].at \notin Beyond
        BY <1>2, <1>b, <3>2 DEF WorkerChange, Beyond
      <4> QED BY <4>1, <4>2 DEF Decoded
    <3> QED BY <3>1, <3>2
  <2>3. \A j : j \in ran' <=> j \in ran \/ j = k
    BY <1>2, <1>b
  <2>4. ASSUME NEW j \in Jobs
        PROVE  /\ InFlight(j)' => j \notin ran'
               /\ In(pushed'[j[1]], j[2]) <=> Decoded(j)'
               /\ Once(pushed'[j[1]], j[2])
    BY <1>2, <2>1, <2>2, <2>3 DEF Decoding, PushedOK
  <2> QED BY <2>4 DEF PushedOK
<1>8. ASSUME NEW d \in Connections, d # c
      PROVE  BufferOK(d)' /\ RegisterOK(d)' /\ MetOK(d)'
  <2>1. \A op \in {"consume", "upsert"} : Spent(op, d)' <=> Spent(op, d)
    BY <1>2, SpentSame
  <2>2. "idle" \notin Beyond
    BY DEF Beyond
  <2>3. worker[w].job[1] = c
    BY <1>4, <1>b
  <2>4. decoder'[d] = decoder[d] /\ pushed'[d] = pushed[d] /\ handled'[d] = handled[d]
    BY <1>2
  <2>5. inbox'[d] = inbox[d]
    BY <1>5, <1>8
  <2> QED BY <1>1, <1>2, <1>8, <2>1, <2>2, <2>3, <2>4, <2>5, OthersDecoding
<1>9. BufferOK(c)' /\ RegisterOK(c)' /\ MetOK(c)'
  <2>1. /\ \A v \in Workers \ {w} : (Holds(v, c)' <=> Holds(v, c)) /\ worker'[v] = worker[v]
        /\ ~Holds(w, c)'
    <3>1. "idle" \notin Beyond
      BY DEF Beyond
    <3> QED BY <1>2, <3>1, HoldsAfter
  <2>2. Holds(w, c)
    BY <1>2, <1>a DEF Holds
  <2>3. \A v \in Workers : Holds(v, c) => v = w
    BY <1>1, <1>4, <2>2 DEF Mutex
  <2>4. \A v \in Workers : ~Holds(v, c)'
    BY <2>1, <2>3
  <2>5. pieces' = pieces /\ phase' = phase /\ hasError' = hasError /\ stopper' = stopper
    BY <1>1 DEF WorkerFrame, peerVars, sessionVars
  <2>6. \A op : Spent(op, c)' <=> Spent(op, c)
    BY <1>2, SpentSame
  <2>7. BufferOK(c) /\ RegisterOK(c) /\ MetOK(c)
    BY <1>4 DEF Decoding
  <2>8. BufferOK(c)'
    BY <1>2, <2>5, <2>7 DEF BufferOK
  <2>9. RegisterOK(c)'
    <3>1. ~Ahead(c, "register")'
      BY <2>4 DEF Ahead
    <3>2. \A op \in {"consume", "upsert"} : Spent(op, c)' =>
            /\ pushed'[c] # <<>>
            /\ \A i \in 1..2 : pushed'[c] = <<i>> => In(Drain[pieces'[c][i]].frames, << 1 >>)
      BY <1>2, <2>5, <2>6, <2>7 DEF RegisterOK
    <3>3. \A v \in Workers : ~Holds(v, c)'
      BY <2>4
    <3> QED BY <3>1, <3>2, <3>3 DEF RegisterOK
  <2>10. Sound(c)' => Sound(c)
    <3>1. SUFFICES ASSUME Sound(c)' PROVE Sound(c)
      OBVIOUS
    <3>2. ~IoStopped' /\ IoStopped' = IoStopped
      BY <2>5, <3>1, SamePoint DEF Sound
    <3>3. inbox'[c] = Append(inbox[c], h) /\ ~In(inbox'[c], "failed")
      BY <1>5, <3>1, <3>2 DEF Sound
    <3>4. inbox[c] \in Seq(Handlers) /\ h \in Handlers
      BY <1>1, <1>4, <1>c DEF Types, Handlers
    <3>5. In(inbox'[c], "failed") <=> In(inbox[c], "failed") \/ "failed" = h
      BY <3>3, <3>4, AppendToQueue
    <3>6. ~In(inbox[c], "failed") /\ ~worker[w].failed
      BY <3>3, <3>5, <1>c
    <3>7. ~hasError[c] /\ phase[c] # "closed"
      BY <2>5, <3>1 DEF Sound
    <3> QED BY <2>3, <3>2, <3>6, <3>7 DEF Sound
  <2>11. \A event : Met(c, event) => Met(c, event)'
    <3>1. \A event : ~Ahead(c, event)
      BY <1>2, <2>3 DEF Ahead, In
    <3> QED BY <1>2, <3>1 DEF Met
  <2>12. MetOK(c)'
    <3>1. SUFFICES ASSUME Sound(c)' PROVE
             /\ pushed'[c] = << 1 >> =>
                  /\ ~Drain[pieces'[c][1]].failed
                  /\ \A event \in EventNames :
                       In(Drain[pieces'[c][1]].frames, FrameOf(event)) => Met(c, event)'
             /\ pushed'[c] = <<1, 2>> => \A event \in EventNames : Met(c, event)'
      BY DEF MetOK
    <3> QED BY <1>2, <2>5, <2>7, <2>10, <2>11, <3>1 DEF MetOK
  <2> QED BY <2>8, <2>9, <2>12
<1> QED BY <1>6, <1>7, <1>8, <1>9 DEF Decoding
(* The numbers of the pieces of a batch, when one more is pushed.           *)
LEMMA OneMorePiece ==
  ASSUME NEW q \in Seq(1..2), NEW i \in 1..2, ~In(q, i), \A k \in 1..2 : Once(q, k)
  PROVE  /\ q = <<>> \/ \E k \in 1..2 : k # i /\ q = <<k>>
         /\ Append(q, i) # <<>>
         /\ \A k \in 1..2 : Append(q, i) = <<k>> => q = <<>> /\ k = i
         /\ Append(q, i) = <<1, 2>> => q = << 1 >> /\ i = 2
<1>0. \A m \in Nat : m + 1 = 2 => m = 1
  OBVIOUS
<1>1. Len(q) \in Nat /\ \A m \in 1..Len(q) : q[m] \in 1..2 /\ q[m] # i
  BY DEF In
<1>2. q = <<>> \/ \E k \in 1..2 : k # i /\ q = <<k>>
  <2>1. SUFFICES ASSUME q # <<>> PROVE \E k \in 1..2 : k # i /\ q = <<k>>
    OBVIOUS
  <2>2. 1 \in 1..Len(q)
    BY <2>1
  <2>3. PICK k \in 1..2 : k = q[1]
    BY <1>1, <2>2
  <2>4. k # i /\ \A m \in 1..Len(q) : q[m] = k
    BY <1>1, <2>2, <2>3
  <2>5. Once(q, k)
    OBVIOUS
  <2>6. \A m \in 1..Len(q) : m = 1
    BY <2>2, <2>4, <2>5 DEF Once
  <2>7. Len(q) = 1
    <3>1. Len(q) \in 1..Len(q)
      BY <1>1, <2>2
    <3> QED BY <2>6, <3>1
  <2>8. q = <<k>>
    BY <2>3, <2>7
  <2> QED BY <2>4, <2>8
<1>3. Len(Append(q, i)) = Len(q) + 1 /\ Append(q, i)[Len(q) + 1] = i
      /\ \A m \in 1..Len(q) : Append(q, i)[m] = q[m]
  OBVIOUS
<1>4. Append(q, i) # <<>>
  BY <1>1, <1>3
<1>5. ASSUME NEW k \in 1..2, Append(q, i) = <<k>>
      PROVE  q = <<>> /\ k = i
  <2>1. Len(q) = 0
    BY <1>1, <1>3, <1>5
  <2> QED BY <1>3, <1>5, <2>1
<1>6. ASSUME Append(q, i) = <<1, 2>>
      PROVE  q = << 1 >> /\ i = 2
  <2>1. Len(q) = 1
    <3>1. Len(<<1, 2>>) = 2
      OBVIOUS
    <3>2. Len(Append(q, i)) = 2
      BY <1>6, <3>1
    <3>3. Len(q) \in Nat /\ Len(q) + 1 = 2
      BY <1>1, <1>3, <3>2
    <3> QED BY <1>0, <3>3, Zenon
  <2>2. q[1] = 1 /\ i = 2
    BY <1>3, <1>6, <2>1
  <2>3. q = << 1 >>
    BY <2>1, <2>2
  <2> QED BY <2>2, <2>3
<1> QED BY <1>2, <1>4, <1>5, <1>6

(* Two numbers.                                                             *)
LEMMA TwoNumbers ==
  ASSUME NEW k, NEW i
  PROVE  Append(<<k>>, i) = <<k, i>>
<1> DEFINE S == {k, i}
<1>1. k \in S /\ i \in S
  OBVIOUS
<1> HIDE DEF S
<1>2. <<k>> \in Seq(S) /\ <<k, i>> \in Seq(S)
  BY <1>1
<1>3. Append(<<k>>, i) \in Seq(S) /\ Len(Append(<<k>>, i)) = 2
  BY <1>1, <1>2
<1>4. Append(<<k>>, i)[1] = k /\ Append(<<k>>, i)[2] = i
  BY <1>1, <1>2
<1>5. Len(<<k, i>>) = 2 /\ <<k, i>>[1] = k /\ <<k, i>>[2] = i
  OBVIOUS
<1>6. \A m \in 1..2 : m = 1 \/ m = 2
  OBVIOUS
<1>7. \A m \in 1..2 : Append(<<k>>, i)[m] = <<k, i>>[m]
  BY <1>4, <1>5, <1>6
<1> QED BY <1>2, <1>3, <1>5, <1>7, SeqEqual

(* The first piece of a batch, or its second, is decoded.                   *)
LEMMA FirstDecoded ==
  ASSUME NEW c \in Connections, NEW i \in 1..2, i \in DOMAIN pieces[c], NEW r, NEW w \in Workers,
         BufferOK(c), RegisterOK(c), pushed[c] = <<>>,
         r = Push(decoder[c], pieces[c][i]), decoder'[c] = r.buffer,
         pushed'[c] = <<i>>, UNCHANGED <<handled, pieces>>, worker'[w].at = "events",
         \A v \in Workers : Holds(v, c)' <=> v = w,
         \A op \in {"consume", "upsert"} : Spent(op, c)' <=> Spent(op, c),
         \A event \in EventNames : In(worker'[w].events, event) => In(r.frames, FrameOf(event)),
         ~worker'[w].failed =>
           /\ ~r.failed
           /\ \A event \in EventNames :
                In(r.frames, FrameOf(event)) => In(worker'[w].events, event),
         Once(r.frames, << 1 >>) => Once(worker'[w].events, "register")
  PROVE  BufferOK(c)' /\ RegisterOK(c)' /\ MetOK(c)'
<1>1. BatchPieces(pieces[c]) /\ decoder[c] = <<>>
  BY DEF BufferOK
<1>2. pieces[c][i] \in Seq(Bytes) /\ Once(Drain[pieces[c][i]].frames, << 1 >>)
  <2> HIDE DEF Bytes
  <2> QED BY <1>1, OnePiece
<1>3. r = Drain[pieces[c][i]]
  <2>1. <<>> \o pieces[c][i] = pieces[c][i]
    BY <1>2
  <2> QED BY <1>1, <2>1 DEF Push
<1>4. \A k \in 1..2 : pushed'[c] = <<k>> => k = i
  OBVIOUS
<1>5. pushed'[c] # <<>> /\ pushed'[c] # <<1, 2>>
  OBVIOUS
<1>6. BufferOK(c)'
  BY <1>1, <1>3, <1>4, <1>5 DEF BufferOK
<1>7. \A op \in {"consume", "upsert"} : ~Spent(op, c)'
  BY DEF RegisterOK
<1>8. Ahead(c, "register")' => In(r.frames, << 1 >>)
  <2>1. "register" \in EventNames /\ FrameOf("register") = << 1 >>
    BY DEF EventNames, FrameOf
  <2> QED BY <2>1 DEF Ahead
<1>9. RegisterOK(c)'
  <2>1. Once(worker'[w].events, "register")
    BY <1>2, <1>3
  <2>2. Ahead(c, "register")' =>
          \A k \in 1..2 : pushed'[c] = <<k>> => In(Drain[pieces'[c][k]].frames, << 1 >>)
    BY <1>3, <1>4, <1>8
  <2>3. \A v \in Workers : Holds(v, c)' =>
          /\ Once(worker'[v].events, "register")
          /\ worker'[v].at = "events" /\ ~Spent("consume", c)' /\ ~Spent("upsert", c)'
    BY <1>7, <2>1
  <2>4. \A v \in Workers : Holds(v, c)' => worker'[v].at # "consume"
    BY <2>3
  <2> QED BY <1>7, <2>2, <2>3, <2>4 DEF RegisterOK
<1>10. MetOK(c)'
  <2>1. SUFFICES ASSUME Sound(c)' PROVE
           /\ pushed'[c] = << 1 >> =>
                /\ ~Drain[pieces'[c][1]].failed
                /\ \A event \in EventNames :
                     In(Drain[pieces'[c][1]].frames, FrameOf(event)) => Met(c, event)'
           /\ pushed'[c] = <<1, 2>> => \A event \in EventNames : Met(c, event)'
    BY DEF MetOK
  <2>2. ~worker'[w].failed
    BY <2>1 DEF Sound
  <2>3. \A event \in EventNames : In(r.frames, FrameOf(event)) => Met(c, event)'
    BY <2>2 DEF Met, Ahead
  <2> QED BY <1>3, <1>4, <1>5, <2>2, <2>3
<1> QED BY <1>6, <1>9, <1>10

(* See above. *)
LEMMA SecondDecoded ==
  ASSUME NEW c \in Connections, NEW i \in 1..2, i \in DOMAIN pieces[c],
         NEW k \in 1..2, k \in DOMAIN pieces[c], i # k, NEW r, NEW w \in Workers,
         BufferOK(c), RegisterOK(c), MetOK(c), pushed[c] = <<k>>,
         r = Push(decoder[c], pieces[c][i]),
         pushed'[c] = <<k, i>>,
         UNCHANGED <<handled, pieces, phase, hasError, inbox, stopper>>,
         worker'[w].at = "events", \A v \in Workers : ~Holds(v, c),
         \A v \in Workers : Holds(v, c)' <=> v = w,
         \A op \in {"consume", "upsert"} : Spent(op, c)' <=> Spent(op, c),
         \A event \in EventNames : In(worker'[w].events, event) => In(r.frames, FrameOf(event)),
         ~worker'[w].failed =>
           /\ ~r.failed
           /\ \A event \in EventNames :
                In(r.frames, FrameOf(event)) => In(worker'[w].events, event),
         Once(r.frames, << 1 >>) => Once(worker'[w].events, "register")
  PROVE  BufferOK(c)' /\ RegisterOK(c)' /\ MetOK(c)'
<1>1. PICK f : f = Drain[pieces[c][k]]
  OBVIOUS
<1>2. BatchPieces(pieces[c]) /\ decoder[c] = f.buffer
  BY <1>1 DEF BufferOK
<1>3. r = Push(f.buffer, pieces[c][i])
  BY <1>2
<1>4. /\ Once(r.frames, << 1 >>) /\ (In(f.frames, << 1 >>) => ~In(r.frames, << 1 >>))
      /\ k = 1 /\ ~f.failed => \A x \in {<< 1 >>, << 2 >>} : In(f.frames, x) \/ In(r.frames, x)
  BY <1>1, <1>2, <1>3, TwoPieces
<1>5. pushed'[c] # <<>> /\ \A m \in 1..2 : pushed'[c] # <<m>>
  OBVIOUS
<1>6. BufferOK(c)'
  BY <1>2, <1>5 DEF BufferOK
<1>7. RegisterOK(c)'
  <2>1. Once(worker'[w].events, "register")
    BY <1>4
  <2>2. In(worker'[w].events, "register") => ~Spent("consume", c)' /\ ~Spent("upsert", c)'
    <3>1. SUFFICES ASSUME In(worker'[w].events, "register"), NEW op \in {"consume", "upsert"},
                          Spent(op, c)'
                   PROVE  FALSE
      OBVIOUS
    <3>2. "register" \in EventNames /\ FrameOf("register") = << 1 >>
      BY DEF EventNames, FrameOf
    <3>3. In(r.frames, << 1 >>)
      BY <3>1, <3>2
    <3>4. In(f.frames, << 1 >>)
      BY <1>1, <3>1 DEF RegisterOK
    <3> QED BY <1>4, <3>3, <3>4
  <2>3. \A v \in Workers : Holds(v, c)' =>
          /\ Once(worker'[v].events, "register") /\ worker'[v].at = "events"
          /\ In(worker'[v].events, "register") => ~Spent("consume", c)' /\ ~Spent("upsert", c)'
    BY <2>1, <2>2
  <2>4. \A v \in Workers : Holds(v, c)' => worker'[v].at # "consume"
    BY <2>3
  <2> QED BY <1>5, <2>3, <2>4 DEF RegisterOK
<1>8. MetOK(c)'
  <2>1. SUFFICES ASSUME Sound(c)', pushed'[c] = <<1, 2>>, NEW event \in EventNames
                 PROVE  Met(c, event)'
    BY <1>5 DEF MetOK
  <2>2. ~worker'[w].failed
    BY <2>1 DEF Sound
  <2>3. k = 1
    BY <2>1
  <2>4. IoStopped' = IoStopped
    BY SamePoint
  <2>5. Sound(c)
    BY <2>1, <2>4 DEF Sound
  <2>6. ~f.failed /\ (In(f.frames, FrameOf(event)) => Met(c, event))
    BY <1>1, <2>3, <2>5 DEF MetOK
  <2>7. Met(c, event) => event \in handled[c]
    BY DEF Met, Ahead
  <2>8. FrameOf(event) \in {<< 1 >>, << 2 >>}
    BY DEF FrameOf
  <2>9. In(f.frames, FrameOf(event)) \/ In(r.frames, FrameOf(event))
    BY <1>4, <2>3, <2>6, <2>8
  <2>10. In(r.frames, FrameOf(event)) => In(worker'[w].events, event)
    BY <2>2
  <2> QED BY <2>6, <2>7, <2>9, <2>10 DEF Met, Ahead
<1> QED BY <1>6, <1>7, <1>8

(* A thread decodes a piece.                                                *)
LEMMA DecodeDecoding ==
  ASSUME Basics, Registered, Answers, Decoding, NEW w \in Workers, WorkerDecode(w)
  PROVE  Decoding'
<1>1. Types /\ WorkerFrame /\ Mutex /\ JobsOK /\ PiecesOK /\ DecodeTypes /\ PushedOK
  BY WorkerBasics DEF Basics, WorkerStep, Registered, Answers, Decoding
<1>2. \A d \in Connections : BatchPieces(pieces[d])
  BY DEF Decoding, BufferOK
<1>3. PICK c, i, r : c = ConnOf(w) /\ i = worker[w].job[2] /\ r = Push(decoder[c], pieces[c][i])
  OBVIOUS
<1>4. /\ c \in Connections /\ i \in 1..2 /\ i \in DOMAIN pieces[c]
      /\ worker[w].job = <<c, i>> /\ worker[w].job \in Jobs
      /\ decoder' = [decoder EXCEPT ![c] = r.buffer]
      /\ pushed' = [pushed EXCEPT ![c] = Append(pushed[c], i)]
      /\ UNCHANGED <<handled, ran, inbox, tasks, actorVars>>
      /\ r.buffer \in Seq(Bytes)
      /\ worker'[w].events \in Seq(EventNames)
      /\ \A event \in EventNames :
           In(worker'[w].events, event) => In(r.frames, FrameOf(event))
      /\ ~worker'[w].failed =>
           /\ ~r.failed
           /\ \A event \in EventNames :
                In(r.frames, FrameOf(event)) => In(worker'[w].events, event)
      /\ Once(r.frames, << 1 >>) => Once(worker'[w].events, "register")
  <2> HIDE DEF Bytes
  <2> QED BY <1>1, <1>2, <1>3, DecodeEvents
<1>5. /\ WorkerChange(w, "events", worker[w].job) /\ worker[w].at = "lock"
      /\ \A v \in Workers : ~Holds(v, c)
  BY <1>1, <1>3, DecodeEffect
<1>6. UNCHANGED <<writes, writing, wrote, pieces, phase, hasError, stopper>>
  BY <1>1, <1>4 DEF actorVars, WorkerFrame, peerVars, sessionVars
<1>7. pushed[c] \in Seq(1..2) /\ DOMAIN pushed = Connections /\ DOMAIN decoder = Connections
  BY <1>1, <1>4 DEF DecodeTypes
<1>8. /\ pushed'[c] = Append(pushed[c], i) /\ decoder'[c] = r.buffer
      /\ \A d \in Connections \ {c} : pushed'[d] = pushed[d] /\ decoder'[d] = decoder[d]
  BY <1>4, <1>7
<1>9. worker'[w].at = "events" /\ worker'[w].job = <<c, i>>
      /\ \A v \in Workers \ {w} : worker'[v] = worker[v]
  BY <1>4, <1>5 DEF WorkerChange
<1>10. ~Decoded(<<c, i>>)
  <2>1. WorksOn(w, <<c, i>>) /\ <<c, i>> \in Jobs
    BY <1>4, <1>5 DEF WorksOn, Busy
  <2>2. <<c, i>> \notin ran
    <3>1. InFlight(<<c, i>>)
      BY <2>1 DEF InFlight
    <3> QED BY <1>1, <2>1, <3>1 DEF PushedOK
  <2>3. \A v \in Workers : worker[v].at \in Beyond /\ worker[v].job = <<c, i>> => v = w
    BY <1>1, <2>1 DEF JobsOK, WorksOn, Busy, Beyond
  <2>4. worker[w].at \notin Beyond
    BY <1>5 DEF Beyond
  <2> QED BY <2>2, <2>3, <2>4 DEF Decoded
<1>11. \A j : Decoded(j)' <=> Decoded(j) \/ j = <<c, i>>
  <2>1. worker[w].at \notin Beyond /\ worker'[w].at \in Beyond
    BY <1>5, <1>9 DEF Beyond
  <2> QED BY <1>4, <1>9, <2>1 DEF Decoded
<1>12. \A k \in 1..2 : /\ <<c, k>> \in Jobs
                       /\ (In(pushed[c], k) <=> Decoded(<<c, k>>)) /\ Once(pushed[c], k)
  <2>1. \A k \in 1..2 : <<c, k>> \in Jobs /\ <<c, k>>[1] = c /\ <<c, k>>[2] = k
    BY <1>4 DEF Jobs
  <2> QED BY <1>1, <2>1 DEF PushedOK
<1>13. ~In(pushed[c], i) /\ \A k \in 1..2 : Once(pushed[c], k)
  BY <1>4, <1>10, <1>12
<1>14. DecodeTypes'
  <2>1. decoder' \in [Connections -> Seq(Bytes)]
    BY <1>1, <1>4 DEF DecodeTypes
  <2>2. pushed' \in [Connections -> Seq(1..2)]
    <3>1. Append(pushed[c], i) \in Seq(1..2)
      BY <1>4, <1>7
    <3> QED BY <1>1, <1>4, <3>1 DEF DecodeTypes
  <2>3. handled' \in [Connections -> SUBSET EventNames]
    BY <1>1, <1>4 DEF DecodeTypes
  <2>4. \A v \in Workers :
          /\ worker'[v].events \in Seq(EventNames)
          /\ worker'[v].at \in {"consume", "upsert"} =>
               worker'[v].events # <<>> /\ Head(worker'[v].events) = "register"
    BY <1>1, <1>4, <1>9 DEF DecodeTypes
  <2> QED BY <2>1, <2>2, <2>3, <2>4 DEF DecodeTypes
<1>15. PushedOK'
  <2>1. \A j : InFlight(j)' <=> InFlight(j)
    BY <1>4, <1>5, FlightKept DEF Busy
  <2>2. /\ \A y : In(Append(pushed[c], i), y) <=> In(pushed[c], y) \/ y = i
        /\ \A y : y # i /\ Once(pushed[c], y) => Once(Append(pushed[c], i), y)
        /\ ~In(pushed[c], i) => Once(Append(pushed[c], i), i)
    BY <1>4, <1>7, AppendToQueue
  <2>3. \A y : Once(pushed[c], y) => Once(Append(pushed[c], i), y)
    BY <1>13, <2>2
  <2>4. ASSUME NEW j \in Jobs
        PROVE  /\ InFlight(j)' => j \notin ran'
               /\ In(pushed'[j[1]], j[2]) <=> Decoded(j)'
               /\ Once(pushed'[j[1]], j[2])
    <3>1. /\ InFlight(j) => j \notin ran
          /\ In(pushed[j[1]], j[2]) <=> Decoded(j)
          /\ Once(pushed[j[1]], j[2])
      BY <1>1 DEF PushedOK
    <3>2. j[1] \in Connections /\ (j = <<c, i>> <=> j[1] = c /\ j[2] = i)
      BY DEF Jobs
    <3>3. CASE j[1] = c
      BY <1>4, <1>8, <1>11, <2>1, <2>2, <2>3, <3>1, <3>2, <3>3
    <3>4. CASE j[1] # c
      BY <1>4, <1>8, <1>11, <2>1, <3>1, <3>2, <3>4
    <3> QED BY <3>3, <3>4
  <2> QED BY <2>4 DEF PushedOK
<1>16. \A d, op : Spent(op, d)' <=> Spent(op, d)
  BY <1>6, SpentSame
<1>17. ASSUME NEW d \in Connections, d # c
       PROVE  BufferOK(d)' /\ RegisterOK(d)' /\ MetOK(d)'
  <2>1. worker[w].job[1] = c
    BY <1>4
  <2>2. decoder'[d] = decoder[d] /\ pushed'[d] = pushed[d] /\ handled'[d] = handled[d]
        /\ inbox'[d] = inbox[d]
    BY <1>4, <1>8, <1>17
  <2> QED BY <1>1, <1>5, <1>16, <1>17, <2>1, <2>2, OthersDecoding
<1>18. BufferOK(c)' /\ RegisterOK(c)' /\ MetOK(c)'
  <2>1. BufferOK(c) /\ RegisterOK(c) /\ MetOK(c)
    BY <1>4 DEF Decoding
  <2>2. \A v \in Workers : Holds(v, c)' <=> v = w
    <3>1. \A v \in Workers \ {w} : Holds(v, c)' <=> Holds(v, c)
      BY <1>9 DEF Holds, ConnOf
    <3>2. Holds(w, c)'
      BY <1>9 DEF Holds, ConnOf
    <3> QED BY <1>5, <3>1, <3>2
  <2>3. CASE pushed[c] = <<>>
    <3>1. pushed'[c] = <<i>>
      BY <1>8, <2>3
    <3> QED BY <1>3, <1>4, <1>6, <1>8, <1>9, <1>16, <2>1, <2>2, <2>3, <3>1, FirstDecoded
  <2>4. CASE pushed[c] # <<>>
    <3>1. PICK k \in 1..2 : k # i /\ pushed[c] = <<k>>
      BY <1>4, <1>7, <1>13, <2>4, OneMorePiece
    <3>2. pushed'[c] = <<k, i>>
      BY <1>8, <3>1, TwoNumbers
    <3>3. k \in DOMAIN pieces[c]
      <4>1. In(pushed[c], k)
        BY <3>1 DEF In
      <4>2. <<c, k>> \in Jobs /\ Decoded(<<c, k>>)
        BY <1>12, <4>1
      <4>3. Numbered(<<c, k>>)
        BY <1>1, <4>2 DEF Decoded, PiecesOK, Beyond, Busy
      <4>4. k <= received[c] /\ received[c] <= Len(pieces[c]) /\ received[c] \in Nat
        BY <1>1, <1>4, <4>3 DEF Numbered, PiecesOK, Types
      <4>5. Len(pieces[c]) \in Nat /\ DOMAIN pieces[c] = 1..Len(pieces[c])
        <5>1. Len(pieces[c]) \in 0..2
          BY <1>1, <1>4 DEF PiecesOK
        <5>2. DOMAIN pieces[c] = 1..Len(pieces[c])
          BY <1>2, <1>4 DEF BatchPieces
        <5> QED BY <5>1, <5>2
      <4> QED BY <4>4, <4>5
    <3>4. UNCHANGED <<handled, pieces, phase, hasError, inbox, stopper>>
      BY <1>4, <1>6
    <3>5. \A v \in Workers : ~Holds(v, c)
      BY <1>5
    <3>6. worker'[w].at = "events"
      BY <1>9
    <3>7. r = Push(decoder[c], pieces[c][i])
      BY <1>3
    <3> QED BY <1>4, <1>16, <2>1, <2>2, <3>1, <3>2, <3>3, <3>4, <3>5, <3>6, <3>7,
               SecondDecoded
  <2> QED BY <2>3, <2>4
<1> QED BY <1>14, <1>15, <1>17, <1>18 DEF Decoding

(* A thread handles an event of a piece, or waits with it for a write.      *)
LEMMA HandleDecoding ==
  ASSUME Basics, Registered, Answers, Decoding, NEW w \in Workers,
         WorkerEvent(w) \/ WorkerConsumed(w) \/ WorkerUpserted(w)
  PROVE  Decoding'
<1>1. Types /\ WorkerFrame /\ Mutex /\ JobsOK /\ DecodeTypes /\ PushedOK
  BY WorkerBasics DEF Basics, WorkerStep, Registered, Answers, Decoding
<1>2. PICK c, E, j : c = ConnOf(w) /\ E = worker[w].events /\ j = worker[w].job
  OBVIOUS
<1>3. /\ worker[w].at \in Beyond /\ E # <<>> /\ E \in Seq(EventNames)
      /\ UNCHANGED <<decoder, pushed, ran, inbox, tasks>>
      /\ \/ \E op \in {"consume", "upsert"} :
              /\ WorkerChange(w, op, j) /\ worker'[w].events = E
              /\ worker'[w].failed = worker[w].failed
              /\ Head(E) = "register" /\ UNCHANGED <<handled, writing, wrote>>
              /\ writes' = Append(writes, Write(op, c))
              /\ worker[w].at = "events" \/ (worker[w].at = "consume" /\ op = "upsert")
         \/ \E ok \in BOOLEAN :
              /\ WorkerChange(w, "events", j)
              /\ worker'[w].events = Tail(E)
              /\ ~worker'[w].failed => ~worker[w].failed /\ ok
              /\ handled' = IF ok THEN [handled EXCEPT ![c] = @ \cup {Head(E)}]
                            ELSE handled
              /\ UNCHANGED actorVars
  BY <1>1, <1>2, HandleEvents
<1>4. c \in Connections /\ j \in Jobs /\ j[1] = c
  <2>1. worker[w].at \in Busy
    BY <1>3 DEF Beyond, Busy
  <2> QED BY <1>1, <1>2, <2>1, WorkerOpened DEF Types
<1>5. UNCHANGED <<pieces, phase, hasError, stopper>>
  BY <1>1 DEF WorkerFrame, peerVars, sessionVars
<1>6. PICK at : at \in Beyond /\ WorkerChange(w, at, j)
  BY <1>3 DEF Beyond
<1>7. /\ In(E, Head(E)) /\ Head(E) \in EventNames
      /\ \A y : In(Tail(E), y) => In(E, y)
      /\ \A y : In(E, y) /\ y # Head(E) => In(Tail(E), y)
      /\ \A y : Once(E, y) => Once(Tail(E), y)
      /\ Once(E, Head(E)) => ~In(Tail(E), Head(E))
  BY <1>3, TailOfQueue
<1>8. PushedOK'
  <2>1. \A i : InFlight(i)' <=> InFlight(i)
    <3>1. at \in Busy /\ worker[w].at \in Busy
      BY <1>3, <1>6 DEF Beyond, Busy
    <3> QED BY <1>2, <1>3, <1>6, <3>1, FlightKept
  <2>2. \A i : Decoded(i)' <=> Decoded(i)
    BY <1>2, <1>3, <1>6, DecodedKept
  <2> QED BY <1>1, <1>3, <2>1, <2>2 DEF PushedOK
<1>9. /\ \A d \in Connections \ {c} : handled'[d] = handled[d]
      /\ handled' \in [Connections -> SUBSET EventNames]
  <2>1. handled \in [Connections -> SUBSET EventNames]
    BY <1>1 DEF DecodeTypes
  <2>2. handled' = handled \/ handled' = [handled EXCEPT ![c] = @ \cup {Head(E)}]
    BY <1>3
  <2>3. handled[c] \cup {Head(E)} \in SUBSET EventNames
    BY <1>4, <1>7, <2>1
  <2> QED BY <1>4, <2>1, <2>2, <2>3
<1>10. DecodeTypes'
  <2>1. worker'[w].events = E \/ worker'[w].events = Tail(E)
    BY <1>3
  <2>2. E \in Seq(EventNames) /\ Tail(E) \in Seq(EventNames)
    BY <1>3
  <2>3. worker'[w].at \in {"consume", "upsert"} =>
          worker'[w].events # <<>> /\ Head(worker'[w].events) = "register"
    BY <1>3 DEF WorkerChange
  <2>4. \A v \in Workers :
          /\ worker'[v].events \in Seq(EventNames)
          /\ worker'[v].at \in {"consume", "upsert"} =>
               worker'[v].events # <<>> /\ Head(worker'[v].events) = "register"
    <3> TAKE v \in Workers
    <3>1. CASE v = w
      BY <2>1, <2>2, <2>3, <3>1
    <3>2. CASE v # w
      <4>1. worker'[v] = worker[v]
        BY <1>6, <3>2 DEF WorkerChange
      <4> QED BY <1>1, <4>1 DEF DecodeTypes
    <3> QED BY <3>1, <3>2
  <2> QED BY <1>1, <1>3, <1>9, <2>4 DEF DecodeTypes
<1>11. \A op \in {"consume", "upsert"}, d \in Connections :
         Spent(op, d)' => \/ Spent(op, d)
                          \/ d = c /\ writes' = Append(writes, Write(op, c)) /\ Head(E) = "register"
  <2>1. CASE UNCHANGED actorVars
    BY <2>1, SpentSame DEF actorVars
  <2>2. CASE ~UNCHANGED actorVars
    <3>1. PICK o \in {"consume", "upsert"} :
             /\ Head(E) = "register" /\ UNCHANGED <<writing, wrote>>
             /\ writes' = Append(writes, Write(o, c))
      BY <1>3, <2>2
    <3>2. Write(o, c) \in Writes
      BY <1>4, WriteNames
    <3>3. \A i : Due(i)' <=> Due(i) \/ i = Write(o, c)
      BY <1>1, <3>1, <3>2, DueAppended
    <3>4. \A op \in {"consume", "upsert"}, d \in Connections :
            Write(op, d) = Write(o, c) => op = o /\ d = c
      BY DEF Write
    <3> QED BY <3>1, <3>3, <3>4 DEF Spent
  <2> QED BY <2>1, <2>2
<1>12. \A op \in {"consume", "upsert"}, d \in Connections : Spent(op, d) => Spent(op, d)'
  <2>1. CASE UNCHANGED actorVars
    BY <2>1, SpentSame DEF actorVars
  <2>2. CASE ~UNCHANGED actorVars
    <3>1. PICK o \in {"consume", "upsert"} :
             UNCHANGED <<writing, wrote>> /\ writes' = Append(writes, Write(o, c))
      BY <1>3, <2>2
    <3>2. Write(o, c) \in Writes
      BY <1>4, WriteNames
    <3>3. \A i : Due(i) => Due(i)'
      BY <1>1, <3>1, <3>2, DueAppended
    <3> QED BY <3>1, <3>3 DEF Spent
  <2> QED BY <2>1, <2>2
<1>13. ASSUME NEW d \in Connections, d # c
       PROVE  BufferOK(d)' /\ RegisterOK(d)' /\ MetOK(d)'
  <2>1. worker[w].job[1] = c /\ j[1] = c
    BY <1>2, <1>4
  <2>2. decoder'[d] = decoder[d] /\ pushed'[d] = pushed[d] /\ handled'[d] = handled[d]
        /\ inbox'[d] = inbox[d]
    BY <1>3, <1>9, <1>13
  <2>3. \A op \in {"consume", "upsert"} : Spent(op, d)' <=> Spent(op, d)
    BY <1>11, <1>12, <1>13
  <2> QED BY <1>1, <1>6, <1>13, <2>1, <2>2, <2>3, OthersDecoding
<1>14. BufferOK(c) /\ RegisterOK(c) /\ MetOK(c)
  BY <1>4 DEF Decoding
<1>15. (\A v \in Workers : Holds(v, c) <=> v = w) /\ (\A v \in Workers : Holds(v, c)' <=> v = w)
  <2>1. Holds(w, c)
    BY <1>2, <1>3 DEF Holds, Beyond
  <2>2. /\ \A v \in Workers \ {w} : Holds(v, c)' <=> Holds(v, c)
        /\ Holds(w, c)' <=> at \in Beyond /\ j[1] = c
    BY <1>6, HoldsAfter
  <2> QED BY <1>1, <1>4, <1>6, <2>1, <2>2 DEF Mutex
<1>16. pushed[c] # <<>>
  <2>1. Decoded(j)
    BY <1>2, <1>3 DEF Decoded
  <2>2. In(pushed[c], j[2])
    BY <1>1, <1>4, <2>1 DEF PushedOK
  <2> QED BY <2>2 DEF In
<1>17. BufferOK(c)'
  BY <1>3, <1>5, <1>14, <1>16 DEF BufferOK
<1>18. \A event : Ahead(c, event) <=> In(E, event)
  BY <1>2, <1>15 DEF Ahead
<1>19. \A event : Ahead(c, event)' <=> In(worker'[w].events, event)
  BY <1>15 DEF Ahead
<1>20. \A event : Ahead(c, event)' => Ahead(c, event)
  BY <1>3, <1>7, <1>18, <1>19
<1>21. RegisterOK(c)'
  <2>1. ASSUME NEW op \in {"consume", "upsert"}, Spent(op, c)'
        PROVE  /\ pushed'[c] # <<>>
               /\ \A i \in 1..2 : pushed'[c] = <<i>> => In(Drain[pieces'[c][i]].frames, << 1 >>)
    <3>1. CASE Spent(op, c)
      BY <1>3, <1>5, <1>14, <3>1 DEF RegisterOK
    <3>2. CASE ~Spent(op, c)
      <4>1. Ahead(c, "register")
        BY <1>4, <1>7, <1>11, <1>18, <2>1, <3>2
      <4> QED BY <1>3, <1>5, <1>14, <1>16, <4>1 DEF RegisterOK
    <3> QED BY <3>1, <3>2
  <2>2. Ahead(c, "register")' =>
          \A i \in 1..2 : pushed'[c] = <<i>> => In(Drain[pieces'[c][i]].frames, << 1 >>)
    BY <1>3, <1>5, <1>14, <1>20 DEF RegisterOK
  <2>3. /\ Once(E, "register")
        /\ worker[w].at = "events" /\ In(E, "register") =>
             ~Spent("consume", c) /\ ~Spent("upsert", c)
        /\ worker[w].at = "consume" => ~Spent("upsert", c)
        /\ worker[w].at \in {"consume", "upsert"} => Head(E) = "register"
    BY <1>1, <1>2, <1>14, <1>15 DEF RegisterOK, DecodeTypes
  <2>4. /\ Once(worker'[w].events, "register")
        /\ worker'[w].at = "events" /\ In(worker'[w].events, "register") =>
             ~Spent("consume", c)' /\ ~Spent("upsert", c)'
        /\ worker'[w].at = "consume" => ~Spent("upsert", c)'
    <3>1. CASE UNCHANGED actorVars /\ worker'[w].events = Tail(E) /\ WorkerChange(w, "events", j)
      <4>1. worker'[w].at = "events" /\ Once(Tail(E), "register")
        BY <1>7, <2>3, <3>1 DEF WorkerChange
      <4>2. In(Tail(E), "register") => worker[w].at = "events" /\ In(E, "register")
        BY <1>3, <1>7, <2>3 DEF Beyond
      <4>3. \A op : Spent(op, c)' <=> Spent(op, c)
        BY <3>1, SpentSame DEF actorVars
      <4> QED BY <2>3, <3>1, <4>1, <4>2, <4>3
    <3>2. ASSUME NEW op \in {"consume", "upsert"}, WorkerChange(w, op, j),
                 worker'[w].events = E, writes' = Append(writes, Write(op, c)),
                 UNCHANGED <<writing, wrote>>, Head(E) = "register",
                 worker[w].at = "events" \/ (worker[w].at = "consume" /\ op = "upsert")
          PROVE  /\ Once(worker'[w].events, "register")
                 /\ worker'[w].at = "events" /\ In(worker'[w].events, "register") =>
                      ~Spent("consume", c)' /\ ~Spent("upsert", c)'
                 /\ worker'[w].at = "consume" => ~Spent("upsert", c)'
      <4>1. worker'[w].at = op /\ op # "events"
        BY <3>2 DEF WorkerChange
      <4>2. op = "consume" => ~Spent("upsert", c)
        BY <1>7, <2>3, <3>2
      <4>3. Write(op, c) \in Writes /\ (Write("upsert", c) = Write(op, c) => op = "upsert")
        BY <1>4, WriteNames
      <4>4. \A i : Due(i)' <=> Due(i) \/ i = Write(op, c)
        BY <1>1, <3>2, <4>3, DueAppended
      <4>5. op = "consume" => ~Spent("upsert", c)'
        BY <3>2, <4>2, <4>3, <4>4 DEF Spent
      <4> QED BY <2>3, <3>2, <4>1, <4>5
    <3>3. \/ UNCHANGED actorVars /\ worker'[w].events = Tail(E) /\ WorkerChange(w, "events", j)
          \/ \E op \in {"consume", "upsert"} :
               /\ WorkerChange(w, op, j) /\ worker'[w].events = E
               /\ writes' = Append(writes, Write(op, c))
               /\ UNCHANGED <<writing, wrote>> /\ Head(E) = "register"
               /\ worker[w].at = "events" \/ (worker[w].at = "consume" /\ op = "upsert")
      BY <1>3
    <3> QED BY <3>1, <3>2, <3>3
  <2>5. ASSUME NEW v \in Workers, Holds(v, c)'
        PROVE  /\ Once(worker'[v].events, "register")
               /\ worker'[v].at = "events" /\ In(worker'[v].events, "register") =>
                    ~Spent("consume", c)' /\ ~Spent("upsert", c)'
               /\ worker'[v].at = "consume" => ~Spent("upsert", c)'
    BY <1>15, <2>4, <2>5
  <2> QED BY <2>1, <2>2, <2>5 DEF RegisterOK
<1>22. MetOK(c)'
  <2>1. SUFFICES ASSUME Sound(c)' PROVE
           /\ pushed'[c] = << 1 >> =>
                /\ ~Drain[pieces'[c][1]].failed
                /\ \A event \in EventNames :
                     In(Drain[pieces'[c][1]].frames, FrameOf(event)) => Met(c, event)'
           /\ pushed'[c] = <<1, 2>> => \A event \in EventNames : Met(c, event)'
    BY DEF MetOK
  <2>2. ~worker'[w].failed
    BY <1>15, <2>1 DEF Sound
  <2>3. ~worker[w].failed
    BY <1>3, <2>2
  <2>4. Sound(c)
    <3>1. IoStopped' = IoStopped
      BY <1>5, SamePoint
    <3> QED BY <1>3, <1>5, <1>15, <2>1, <2>3, <3>1 DEF Sound
  <2>5. \A event : Met(c, event) => Met(c, event)'
    <3>1. CASE worker'[w].events = E /\ handled' = handled
      BY <1>18, <1>19, <3>1 DEF Met
    <3>2. CASE worker'[w].events = Tail(E) /\ handled' = [handled EXCEPT ![c] = @ \cup {Head(E)}]
      <4>1. handled'[c] = handled[c] \cup {Head(E)}
        BY <1>1, <1>4, <3>2 DEF DecodeTypes
      <4> QED BY <1>7, <1>18, <1>19, <3>2, <4>1 DEF Met
    <3> QED BY <1>3, <2>2, <3>1, <3>2
  <2> QED BY <1>3, <1>5, <1>14, <2>4, <2>5 DEF MetOK
<1> QED BY <1>8, <1>10, <1>13, <1>17, <1>21, <1>22 DEF Decoding

(* The io does not start again.                                             *)
LEMMA IoEver ==
  ASSUME Types, Types', [Next]_vars
  PROVE  /\ IoStopped => IoStopped'
         /\ stopper.at = "stopped" => stopper' = stopper \/ stopper'.at = "stopped"
<1>1. /\ IoStopped <=> stopper.at \in {"pool", "db", "stopped"}
      /\ IoStopped' <=> stopper'.at \in {"pool", "db", "stopped"}
  BY StopOrder, StopOrderNext DEF Types
<1>2. CASE stopper' = stopper
  BY <1>1, <1>2
<1>3. ASSUME NEW c \in Connections, OnData(c)
      PROVE  stopper'.at = stopper.at
  BY <1>3 DEF OnData, Types
<1>4. CASE StopBegin \/ StopSessions \/ StopPool \/ StopDatabase \/ ActorEnd
  <2>1. \/ stopper.at \in {"running", "closing", "waiting"}
        \/ stopper.at = "pool" /\ stopper'.at = "db"
        \/ stopper.at = "db" /\ stopper'.at = "stopped"
    BY <1>4, StopEffect DEF StopBegin, StopSessions, StopPool, StopDatabase, ActorEnd, StopThread
  <2> QED BY <1>1, <2>1
<1>5. \/ stopper' = stopper \/ StopBegin \/ StopSessions \/ StopPool \/ StopDatabase \/ ActorEnd
      \/ \E c \in Connections : OnData(c)
  <2>1. CASE UNCHANGED vars
    BY <2>1 DEF vars
  <2>2. ASSUME NEW c \in Connections, Connect(c) \/ CompleteAccept(c) \/ Accept(c) \/
                                      OnEof(c) \/ OnPosted(c)
        PROVE  stopper' = stopper
    BY <2>2 DEF Connect, CompleteAccept, Accept, OnEof, OnPosted, OnPieceDone, OnMarked,
       OnAborted, OnStop
  <2>3. ASSUME NEW w \in Workers, WorkerStep(w)
        PROVE  stopper' = stopper
    BY <2>3 DEF WorkerStep, WorkerTake, WorkerDecode, WorkerEvent, WorkerConsumed,
       WorkerUpserted, WorkerFinish, WorkerEnd
  <2>4. CASE ActorTake \/ ActorRun \/ Revoke \/ CloseAcceptor
    BY <2>4 DEF ActorTake, ActorRun, Revoke, CloseAcceptor
  <2> QED BY <2>1, <2>2, <2>3, <2>4 DEF Next, StopThread
<1> QED BY <1>1, <1>2, <1>3, <1>4, <1>5

(* What the answer counts has its type.                                     *)
LEMMA AnswerTypesStep == Basics /\ Answers /\ AnswerTypes /\ [Next]_vars => AnswerTypes'
<1> SUFFICES ASSUME Basics, Answers, AnswerTypes, [Next]_vars PROVE AnswerTypes'
  OBVIOUS
<1>1. CASE UNCHANGED <<hasError, answer, pending, received>>
  BY <1>1 DEF AnswerTypes
<1>2. ASSUME NEW c \in Connections, NEW all, NEW left, NEW error
      PROVE  Answer(c, all, left, error) \in {0, 200, 400}
  BY DEF Answer, AnswerTypes
<1>3. \A c \in Connections : pending[c] \in Nat /\ received[c] \in Nat /\ pending[c] <= received[c]
  BY DEF Basics, Types, Answers, AnswerTypes
<1>4. DOMAIN pending = Connections /\ DOMAIN received = Connections
  BY DEF Basics, Types, Answers
<1>5. ASSUME NEW c \in Connections, OnData(c)
      PROVE  AnswerTypes'
  <2>1. PICK n, e, a :
          /\ n = (IF PoolStopping THEN 0 ELSE 1) /\ e = (hasError[c] \/ PoolStopping)
          /\ a = Answer(c, received[c] + 1 = Len(pieces[c]), pending[c] + n, e)
    OBVIOUS
  <2>4. /\ n \in {0, 1} /\ e \in BOOLEAN /\ a \in {0, 200, 400}
    BY <1>2, <2>1
  <2>5. /\ pending' = [pending EXCEPT ![c] = pending[c] + n]
        /\ hasError' = [hasError EXCEPT ![c] = e]
        /\ answer' = [answer EXCEPT ![c] = a]
    BY <1>5, <2>1 DEF OnData
  <2>2. received' = [received EXCEPT ![c] = received[c] + 1]
    BY <1>5 DEF OnData
  <2>3. \A d \in Connections : pending'[d] <= received'[d]
    BY <1>3, <1>4, <2>2, <2>4, <2>5
  <2> QED BY <2>3, <2>4, <2>5 DEF AnswerTypes
<1>6. ASSUME NEW c \in Connections, OnPieceDone(c), phase[c] # "closed"
      PROVE  AnswerTypes'
  <2>1. PICK n, e, a :
          /\ n = (IF pending[c] > 0 THEN pending[c] - 1 ELSE 0)
          /\ e = (hasError[c] \/ Head(inbox[c]) = "failed")
          /\ a = Answer(c, AllReceived(c), n, e)
    OBVIOUS
  <2>4. /\ n \in Nat /\ n <= pending[c] /\ e \in BOOLEAN /\ a \in {0, 200, 400}
    BY <1>2, <1>3, <2>1
  <2>5. /\ pending' = [pending EXCEPT ![c] = n]
        /\ hasError' = [hasError EXCEPT ![c] = e]
        /\ answer' = [answer EXCEPT ![c] = a]
    BY <1>6, <2>1 DEF OnPieceDone
  <2>2. received' = received
    BY <1>6 DEF OnPieceDone
  <2>3. \A d \in Connections : pending'[d] <= received'[d]
    <3>1. pending'[c] <= received[c]
      BY <1>3, <1>4, <2>4, <2>5
    <3> QED BY <1>3, <1>4, <2>4, <2>5, <2>2, <3>1
  <2> QED BY <2>3, <2>4, <2>5 DEF AnswerTypes
<1>7. ASSUME NEW c \in Connections,
             Connect(c) \/ CompleteAccept(c) \/ Accept(c) \/ OnEof(c) \/ OnMarked(c) \/
             OnAborted(c) \/ OnStop(c)
               \/ (OnPieceDone(c) /\ phase[c] = "closed")
      PROVE  UNCHANGED <<hasError, answer, pending, received>>
  BY <1>7 DEF Connect, CompleteAccept, Accept, OnEof, OnMarked, OnAborted, OnStop, OnPieceDone
<1>8. ASSUME NEW w \in Workers, WorkerStep(w)
      PROVE  UNCHANGED <<hasError, answer, pending, received>>
  BY <1>8, WorkerBasics DEF WorkerFrame, sessionVars
<1>9. CASE ActorTake \/ ActorRun \/ Revoke \/ StopBegin \/ CloseAcceptor \/ StopThread
             \/ ActorEnd \/ UNCHANGED vars
  BY <1>1, <1>9 DEF ActorTake, ActorRun, Revoke, StopBegin, CloseAcceptor, StopThread,
     StopSessions, StopPool, StopDatabase, ActorEnd, vars, sessionVars
<1> QED BY <1>1, <1>5, <1>6, <1>7, <1>8, <1>9 DEF Next, OnPosted

(* A step that decodes and handles nothing.                                 *)
LEMMA QuietDecoding ==
  ASSUME Decoding, UNCHANGED <<decoder, pushed, handled, worker, ran>>,
         \A j \in Jobs : InFlight(j)' => InFlight(j) \/ j \notin ran,
         IoStopped => IoStopped',
         \A op \in {"consume", "upsert"}, d \in Connections : Spent(op, d)' <=> Spent(op, d),
         \A d \in Connections :
           /\ pieces'[d] = pieces[d] \/ (pushed[d] = <<>> /\ BatchPieces(pieces'[d]))
           /\ phase[d] = "closed" => phase'[d] = "closed"
           /\ hasError[d] => hasError'[d]
           /\ In(inbox[d], "failed") =>
                In(inbox'[d], "failed") \/ hasError'[d] \/ phase'[d] = "closed"
  PROVE  Decoding'
<1>1. DecodeTypes'
  BY DEF Decoding, DecodeTypes
<1>2. \A j : Decoded(j)' <=> Decoded(j)
  BY DEF Decoded
<1>3. PushedOK'
  BY <1>2 DEF Decoding, PushedOK
<1>4. \A d : \A v \in Workers : Holds(v, d)' <=> Holds(v, d)
  BY DEF Holds, ConnOf
<1>5. ASSUME NEW d \in Connections
      PROVE  BufferOK(d)' /\ RegisterOK(d)' /\ MetOK(d)'
  <2>1. Sound(d)' => Sound(d)
    BY <1>4 DEF Sound
  <2>2. BufferOK(d) /\ RegisterOK(d) /\ MetOK(d)
    BY DEF Decoding
  <2> QED BY <1>4, <2>1, <2>2, ConnKept
<1> QED BY <1>1, <1>3, <1>5 DEF Decoding

(* Nothing was pushed of a batch of which nothing was received.             *)
LEMMA NothingPushed ==
  ASSUME Basics, Decoding, NEW c \in Connections, received[c] = 0
  PROVE  pushed[c] = <<>>
<1> SUFFICES ASSUME pushed[c] # <<>> PROVE FALSE
  OBVIOUS
<1>1. pushed[c] \in Seq(1..2)
  BY DEF Decoding, DecodeTypes
<1>2. PICK k \in 1..2 : In(pushed[c], k)
  <2>1. 1 \in 1..Len(pushed[c]) /\ pushed[c][1] \in 1..2
    BY <1>1
  <2> QED BY <2>1 DEF In
<1>3. <<c, k>> \in Jobs /\ <<c, k>>[1] = c /\ <<c, k>>[2] = k
  BY DEF Jobs
<1>4. Decoded(<<c, k>>)
  BY <1>2, <1>3 DEF Decoding, PushedOK
<1>5. Numbered(<<c, k>>)
  BY <1>3, <1>4 DEF Decoded, Basics, PiecesOK, Beyond, Busy
<1>6. k <= 0
  BY <1>3, <1>5 DEF Numbered
<1> QED BY <1>6

(* A session's writes are not of a registration.                            *)
LEMMA OfflineSpent ==
  ASSUME Types, NEW c \in Connections, UNCHANGED <<writing, wrote>>,
         writes' = writes \/ writes' = Append(writes, Write("offline", c))
  PROVE  \A op \in {"consume", "upsert"}, d \in Connections : Spent(op, d)' <=> Spent(op, d)
<1>1. CASE writes' = writes
  BY <1>1, SpentSame
<1>2. CASE writes' = Append(writes, Write("offline", c))
  <2>1. Write("offline", c) \in Writes
    BY WriteNames
  <2>2. \A i : Due(i)' <=> Due(i) \/ i = Write("offline", c)
    BY <1>2, <2>1, DueAppended
  <2>3. \A op \in {"consume", "upsert"}, d \in Connections : Write(op, d) # Write("offline", c)
    BY DEF Write
  <2> QED BY <2>2, <2>3 DEF Spent
<1> QED BY <1>1, <1>2

(* The steps of a session.                                                  *)
LEMMA SessionDecoding ==
  ASSUME Basics, Registered, Answers, AnswerTypes, Decoding, NEW c \in Connections,
         Connect(c) \/ CompleteAccept(c) \/ Accept(c) \/ OnData(c) \/ OnEof(c) \/ OnPosted(c)
  PROVE  Decoding'
<1>1. Types /\ PiecesOK /\ DOMAIN phase = Connections /\ DOMAIN pieces = Connections
      /\ DOMAIN hasError = Connections /\ inbox \in [Connections -> Seq(Handlers)]
  BY DEF Basics, Types, AnswerTypes
<1>2. /\ UNCHANGED <<decoder, pushed, handled, worker, ran>>
      /\ \A d \in Connections : BatchPieces(pieces[d])
  BY DEF Connect, CompleteAccept, Accept, OnData, OnEof, OnPosted, OnPieceDone, OnMarked,
     OnAborted, OnStop,
     poolVars, Decoding, BufferOK
<1>3. ASSUME UNCHANGED tasks
      PROVE  \A j \in Jobs : InFlight(j)' => InFlight(j) \/ j \notin ran
  BY <1>2, <1>3, FlightSame
<1>4. stopper' = stopper => (IoStopped' <=> IoStopped)
  BY SamePoint
<1>5. CASE Connect(c)
  <2>1. /\ phase' = [phase EXCEPT ![c] = "knocking"] /\ phase[c] = "away"
        /\ UNCHANGED <<hasError, inbox, tasks, writes, writing, wrote, stopper>>
        /\ \E cut : pieces' = [pieces EXCEPT ![c] = Pieces(cut)]
    BY <1>5 DEF Connect, poolVars, actorVars
  <2>2. pushed[c] = <<>>
    <3>1. received[c] = 0
      BY <1>1, <2>1 DEF PiecesOK
    <3> QED BY <3>1, NothingPushed
  <2>3. \A d \in Connections : pieces'[d] = pieces[d] \/ (pushed[d] = <<>> /\ BatchPieces(pieces'[d]))
    <3>1. PICK cut : pieces' = [pieces EXCEPT ![c] = Pieces(cut)]
      BY <2>1
    <3>2. BatchPieces(Pieces(cut))
      BY PiecesOfBatch
    <3> QED BY <1>1, <2>2, <3>1, <3>2
  <2>4. \A d \in Connections : phase[d] = "closed" => phase'[d] = "closed"
    BY <1>1, <2>1
  <2>5. \A op \in {"consume", "upsert"}, d \in Connections : Spent(op, d)' <=> Spent(op, d)
    BY <2>1, SpentSame
  <2> QED BY <1>2, <1>3, <1>4, <2>1, <2>3, <2>4, <2>5, QuietDecoding
<1>6. CASE CompleteAccept(c) \/ Accept(c)
  <2>1. /\ phase[c] \in {"knocking", "accepted"} /\ \E p : phase' = [phase EXCEPT ![c] = p]
        /\ UNCHANGED <<hasError, inbox, tasks, writes, writing, wrote, stopper, pieces>>
    BY <1>6 DEF CompleteAccept, Accept, poolVars, actorVars, peerVars
  <2>2. \A d \in Connections : phase[d] = "closed" => phase'[d] = "closed"
    BY <1>1, <2>1
  <2>3. \A op \in {"consume", "upsert"}, d \in Connections : Spent(op, d)' <=> Spent(op, d)
    BY <2>1, SpentSame
  <2> QED BY <1>2, <1>3, <1>4, <2>1, <2>2, <2>3, QuietDecoding
<1>7. CASE OnData(c)
  <2> DEFINE k == <<c, received[c] + 1>>
  <2>1. /\ k \in Jobs /\ ~Numbered(k)
        /\ UNCHANGED tasks \/ tasks' = Append(tasks, k)
        /\ stopper'.at = stopper.at
        /\ UNCHANGED <<inbox, pieces, phase, writes, writing, wrote>>
    BY <1>7, DataEffect DEF peerVars, actorVars
  <2>2. hasError' = [hasError EXCEPT ![c] = hasError[c] \/ PoolStopping]
    BY <1>7 DEF OnData
  <2>3. \A d \in Connections : hasError[d] => hasError'[d]
    BY <1>1, <2>2
  <2> HIDE DEF k
  <2>4. \A j \in Jobs : InFlight(j)' => InFlight(j) \/ j \notin ran
    <3>1. CASE UNCHANGED tasks
      BY <1>3, <3>1
    <3>2. CASE tasks' = Append(tasks, k)
      <4>1. tasks \in Seq(Jobs)
        BY <1>1 DEF Types
      <4>2. \A y : In(tasks', y) <=> In(tasks, y) \/ y = k
        BY <2>1, <3>2, <4>1, AppendToQueue
      <4>3. k \notin ran
        BY <1>1, <2>1 DEF PiecesOK
      <4>4. \A j : InFlight(j)' => InFlight(j) \/ j = k
        BY <1>2, <4>2 DEF InFlight, WorksOn
      <4> QED BY <4>3, <4>4
    <3> QED BY <2>1, <3>1, <3>2
  <2>5. \A op \in {"consume", "upsert"}, d \in Connections : Spent(op, d)' <=> Spent(op, d)
    BY <2>1, SpentSame
  <2>6. IoStopped' <=> IoStopped
    BY <2>1, SamePoint
  <2> QED BY <1>2, <2>1, <2>3, <2>4, <2>5, <2>6, QuietDecoding
<1>8. CASE OnEof(c) \/ (OnStop(c) /\ phase[c] # "closed")
  <2>1. PICK still \in BOOLEAN, rest \in Seq(Handlers) :
          /\ Close(c, still, rest) /\ ~IoStopped
          /\ UNCHANGED <<peerVars, hasError, poolVars, stopper>>
    BY <1>1, <1>8, CloseSteps
  <2>2. /\ phase' = [phase EXCEPT ![c] = "closed"]
        /\ \A d \in Connections \ {c} : inbox'[d] = inbox[d]
        /\ writes' = writes \/ writes' = Append(writes, Write("offline", c))
        /\ UNCHANGED <<writing, wrote>>
    BY <1>1, <2>1, CloseEffect
  <2>3. /\ \A d \in Connections : phase[d] = "closed" => phase'[d] = "closed"
        /\ phase'[c] = "closed"
    BY <1>1, <2>2
  <2>4. \A d \in Connections : In(inbox[d], "failed") => In(inbox'[d], "failed") \/ phase'[d] = "closed"
    BY <2>2, <2>3
  <2>5. \A op \in {"consume", "upsert"}, d \in Connections : Spent(op, d)' <=> Spent(op, d)
    BY <1>1, <2>2, OfflineSpent
  <2>6. UNCHANGED <<pieces, hasError, tasks, stopper>>
    BY <2>1 DEF peerVars, poolVars
  <2> QED BY <1>2, <1>3, <1>4, <2>3, <2>4, <2>5, <2>6, QuietDecoding
<1>9. CASE OnPieceDone(c) \/ OnMarked(c) \/ OnAborted(c) \/ (OnStop(c) /\ phase[c] = "closed")
  <2>1. /\ inbox[c] # <<>> /\ inbox' = [inbox EXCEPT ![c] = Tail(inbox[c])]
        /\ UNCHANGED <<pieces, phase, tasks, writes, writing, wrote, stopper>>
    BY <1>9 DEF OnPieceDone, OnMarked, OnAborted, OnStop, peerVars, poolVars, actorVars
  <2>2. /\ \A d \in Connections : hasError[d] => hasError'[d]
        /\ Head(inbox[c]) = "failed" => hasError'[c] \/ phase[c] = "closed"
    <3>1. CASE OnPieceDone(c)
      <4>1. \/ hasError' = hasError /\ phase[c] = "closed"
            \/ hasError' = [hasError EXCEPT ![c] = hasError[c] \/ Head(inbox[c]) = "failed"]
        BY <3>1 DEF OnPieceDone
      <4> QED BY <1>1, <4>1
    <3>2. CASE ~OnPieceDone(c)
      BY <1>9, <3>2 DEF OnMarked, OnAborted, OnStop
    <3> QED BY <3>1, <3>2
  <2>3. inbox[c] \in Seq(Handlers) /\ inbox'[c] = Tail(inbox[c])
        /\ \A d \in Connections \ {c} : inbox'[d] = inbox[d]
    BY <1>1, <2>1
  <2>4. In(inbox[c], "failed") => In(inbox'[c], "failed") \/ Head(inbox[c]) = "failed"
    BY <2>1, <2>3, TailOfQueue
  <2>5. \A d \in Connections :
          In(inbox[d], "failed") => In(inbox'[d], "failed") \/ hasError'[d] \/ phase'[d] = "closed"
    BY <2>1, <2>2, <2>3, <2>4
  <2>6. \A op \in {"consume", "upsert"}, d \in Connections : Spent(op, d)' <=> Spent(op, d)
    BY <2>1, SpentSame
  <2>7. \A d \in Connections : phase[d] = "closed" => phase'[d] = "closed"
    BY <2>1
  <2> QED BY <1>2, <1>3, <1>4, <2>1, <2>2, <2>5, <2>6, <2>7, QuietDecoding
<1> QED BY <1>5, <1>6, <1>7, <1>8, <1>9 DEF OnPosted

(* The steps of the write actor and of Stop.                                *)
LEMMA ServerDecoding ==
  ASSUME Basics, Basics', Registered, Answers, Decoding, [Next]_vars,
         \/ ActorTake \/ ActorRun \/ Revoke
         \/ StopBegin \/ CloseAcceptor \/ StopThread \/ ActorEnd
         \/ UNCHANGED vars
  PROVE  Decoding'
<1>1. Types /\ Types' /\ inbox \in [Connections -> Seq(Handlers)]
  BY DEF Basics, Types
<1>2. /\ UNCHANGED <<decoder, pushed, handled, worker, ran, tasks, pieces, phase, hasError>>
      /\ \A d \in Connections : BatchPieces(pieces[d])
  BY DEF ActorTake, ActorRun, Revoke, StopBegin, CloseAcceptor, StopThread, StopSessions,
     StopPool, StopDatabase, ActorEnd, vars, peerVars, sessionVars, poolVars, Decoding, BufferOK
<1>3. \A j \in Jobs : InFlight(j)' => InFlight(j) \/ j \notin ran
  BY <1>2, FlightSame
<1>4. IoStopped => IoStopped'
  BY <1>1, IoEver
<1>5. \A d \in Connections :
        \/ inbox'[d] = inbox[d]
        \/ \E h \in Handlers : inbox'[d] = Append(inbox[d], h)
  <2>1. CASE ActorRun
    BY <1>1, <2>1, RunEffect DEF Handlers
  <2>2. CASE StopSessions
    BY <2>2 DEF StopSessions, Handlers
  <2>3. CASE ~ActorRun /\ ~StopSessions
    BY <2>3 DEF ActorTake, Revoke, StopBegin, CloseAcceptor, StopThread,
       StopPool, StopDatabase, ActorEnd, vars
  <2> QED BY <2>1, <2>2, <2>3
<1>6. \A d \in Connections : In(inbox[d], "failed") => In(inbox'[d], "failed")
  <2> TAKE d \in Connections
  <2>1. CASE inbox'[d] = inbox[d]
    BY <2>1
  <2>2. ASSUME NEW h \in Handlers, inbox'[d] = Append(inbox[d], h)
        PROVE  In(inbox[d], "failed") => In(inbox'[d], "failed")
    <3>1. inbox[d] \in Seq(Handlers)
      BY <1>1
    <3> QED BY <2>2, <3>1, AppendToQueue
  <2> QED BY <1>5, <2>1, <2>2
<1>7. \A op \in {"consume", "upsert"}, d \in Connections : Spent(op, d)' <=> Spent(op, d)
  <2>1. CASE ActorTake
    <3>1. (\A j : Due(j)' <=> Due(j)) /\ wrote' = wrote
      BY <1>1, <2>1, DueTaken DEF ActorTake
    <3> QED BY <3>1 DEF Spent
  <2>2. CASE ActorRun
    <3>1. PICK j \in writing :
             /\ writing' = {} /\ UNCHANGED writes /\ wrote'[j] \in {"ok", "rejected", "failed"}
             /\ \A i \in Writes \ {j} : wrote'[i] = wrote[i]
      BY <1>1, <2>2, RunEffect
    <3>2. Due(j) /\ \A i : i # j => (Due(i)' <=> Due(i))
      BY <3>1, DueRun DEF Registered
    <3>3. ASSUME NEW op \in {"consume", "upsert"}, NEW d \in Connections
          PROVE  Spent(op, d)' <=> Spent(op, d)
      <4>1. Write(op, d) \in Writes
        BY WriteNames
      <4>2. CASE Write(op, d) = j
        <5>1. wrote'[Write(op, d)] # "" /\ Due(Write(op, d))
          BY <3>1, <3>2, <4>2
        <5> QED BY <5>1 DEF Spent
      <4>3. CASE Write(op, d) # j
        <5>1. wrote'[Write(op, d)] = wrote[Write(op, d)]
          BY <3>1, <4>1, <4>3
        <5> QED BY <3>2, <4>3, <5>1 DEF Spent
      <4> QED BY <4>2, <4>3
    <3> QED BY <3>3
  <2>3. CASE ~ActorTake /\ ~ActorRun
    <3>1. UNCHANGED <<writes, writing, wrote>>
      BY <2>3 DEF Revoke, StopBegin, CloseAcceptor, StopThread, StopSessions,
         StopPool, StopDatabase, ActorEnd, vars, actorVars
    <3> QED BY <3>1, SpentSame
  <2> QED BY <2>1, <2>2, <2>3
<1> QED BY <1>2, <1>3, <1>4, <1>6, <1>7, QuietDecoding

(* See above. *)
LEMMA DecodingStep ==
  Basics /\ Basics' /\ Registered /\ Answers /\ AnswerTypes /\ Decoding /\ [Next]_vars => Decoding'
<1> SUFFICES ASSUME Basics, Basics', Registered, Answers, AnswerTypes, Decoding, [Next]_vars
             PROVE  Decoding'
  OBVIOUS
<1>1. ASSUME NEW c \in Connections,
             Connect(c) \/ CompleteAccept(c) \/ Accept(c) \/ OnData(c) \/ OnEof(c) \/ OnPosted(c)
      PROVE  Decoding'
  BY <1>1, SessionDecoding
<1>2. ASSUME NEW w \in Workers, WorkerStep(w)
      PROVE  Decoding'
  BY <1>2, TakeDecoding, DecodeDecoding, HandleDecoding, FinishDecoding DEF WorkerStep
<1>3. CASE \/ ActorTake \/ ActorRun \/ Revoke
           \/ StopBegin \/ CloseAcceptor \/ StopThread \/ ActorEnd \/ UNCHANGED vars
  BY <1>3, ServerDecoding
<1> QED BY <1>1, <1>2, <1>3 DEF Next

(* See above. *)
LEMMA DecodingInit == Init => Decoding
<1> SUFFICES ASSUME Init PROVE Decoding
  OBVIOUS
<1>1. /\ decoder = [c \in Connections |-> <<>>] /\ pushed = [c \in Connections |-> <<>>]
      /\ handled = [c \in Connections |-> {}] /\ pieces = [c \in Connections |-> <<>>]
      /\ worker = [w \in Workers |-> Idle] /\ ran = {} /\ writes = <<>> /\ writing = {}
      /\ wrote = [j \in Writes |-> ""]
  BY DEF Init
<1>2. \A w \in Workers : worker[w].at = "idle" /\ worker[w].events = <<>>
  BY <1>1 DEF Idle
<1>3. \A y : ~In(<<>>, y) /\ Once(<<>>, y)
  BY DEF In, Once
<1>4. DecodeTypes
  <2>1. <<>> \in Seq(Bytes) /\ <<>> \in Seq(1..2) /\ <<>> \in Seq(EventNames)
    OBVIOUS
  <2>2. \A w \in Workers : worker[w].at \notin {"consume", "upsert"}
    BY <1>2
  <2>3. /\ decoder \in [Connections -> Seq(Bytes)]
        /\ pushed \in [Connections -> Seq(1..2)]
        /\ handled \in [Connections -> SUBSET EventNames]
    BY <1>1, <2>1
  <2> QED BY <1>2, <2>1, <2>2, <2>3 DEF DecodeTypes
<1>5. \A j : ~Decoded(j)
  BY <1>1, <1>2 DEF Decoded, Beyond
<1>6. PushedOK
  BY <1>1, <1>3, <1>5, JobNumbers DEF PushedOK
<1>7. ASSUME NEW c \in Connections
      PROVE  BufferOK(c) /\ RegisterOK(c) /\ MetOK(c)
  <2>1. pushed[c] = <<>> /\ decoder[c] = <<>> /\ handled[c] = {} /\ pieces[c] = <<>>
    BY <1>1
  <2>2. << 1 >> # <<>> /\ << 2 >> # <<>> /\ <<1, 2>> # <<>> /\ \A i \in 1..2 : <<i>> # <<>>
    OBVIOUS
  <2>3. BufferOK(c)
    <3>1. DOMAIN <<>> = 1..Len(<<>>) /\ DOMAIN <<>> = {}
      OBVIOUS
    <3> QED BY <2>1, <2>2, <3>1 DEF BufferOK, BatchPieces
  <2>4. \A op \in {"consume", "upsert"} : ~Spent(op, c)
    <3>1. \A op \in {"consume", "upsert"} : Write(op, c) \in Writes
      BY WriteNames
    <3> QED BY <1>1, <1>3, <3>1 DEF Spent, Due
  <2>5. \A w \in Workers : ~Holds(w, c)
    BY <1>2 DEF Holds
  <2>6. RegisterOK(c)
    BY <2>4, <2>5 DEF RegisterOK, Ahead
  <2>7. MetOK(c)
    BY <2>1, <2>2 DEF MetOK
  <2> QED BY <2>3, <2>6, <2>7
<1> QED BY <1>4, <1>6, <1>7 DEF Decoding

(* What is left over, along every step.                                     *)
LEMMA LeavingsStep ==
  Basics /\ Basics' /\ Registered /\ Stops /\ Leavings /\ [Next]_vars => Leavings'
<1> SUFFICES ASSUME Basics, Basics', Registered, Stops, Leavings, [Next]_vars
             PROVE  Leavings'
  OBVIOUS
<1>1. Types /\ Types' /\ StopOK /\ DOMAIN phase = Connections
  BY DEF Basics, Types
<1>2. IoStopped => IoStopped'
  BY <1>1, IoEver
<1>3. poolRefused' # {} => IoStopped'
  <2>1. CASE poolRefused' = poolRefused
    BY <1>2, <2>1 DEF Leavings
  <2>2. ASSUME NEW c \in Connections, OnData(c)
        PROVE  poolRefused' = poolRefused \/ IoStopped
    BY <2>2 DEF OnData, PoolStopping
  <2>3. \/ poolRefused' = poolRefused
        \/ \E c \in Connections : OnData(c)
    <3>1. ASSUME NEW c \in Connections, Connect(c) \/ CompleteAccept(c) \/ Accept(c) \/
                                        OnEof(c) \/ OnPosted(c)
          PROVE  poolRefused' = poolRefused
      BY <3>1 DEF Connect, CompleteAccept, Accept, OnEof, OnPosted, OnPieceDone, OnMarked,
         OnAborted, OnStop,
         poolVars
    <3>2. ASSUME NEW w \in Workers, WorkerStep(w)
          PROVE  poolRefused' = poolRefused
      BY <3>2, WorkerBasics DEF WorkerFrame
    <3>3. CASE \/ ActorTake \/ ActorRun \/ Revoke
               \/ StopBegin \/ CloseAcceptor \/ StopThread \/ ActorEnd \/ UNCHANGED vars
      BY <3>3 DEF ActorTake, ActorRun, Revoke, StopBegin, CloseAcceptor, StopThread,
         StopSessions, StopPool, StopDatabase, ActorEnd, vars, poolVars
    <3> QED BY <3>1, <3>2, <3>3 DEF Next
  <2> QED BY <1>2, <2>1, <2>2, <2>3
<1>4. \/ UNCHANGED <<writes, writing, wrote>>
      \/ \E w \in Workers : worker[w].at # "ended" /\ UNCHANGED <<writing, wrote>>
      \/ ~IoStopped /\ UNCHANGED <<writing, wrote>>
      \/ ActorTake \/ ActorRun
  <2>1. ASSUME NEW c \in Connections,
               Connect(c) \/ CompleteAccept(c) \/ Accept(c) \/ OnData(c) \/ OnPieceDone(c) \/
               OnMarked(c) \/ OnAborted(c)
        PROVE  UNCHANGED <<writes, writing, wrote>>
    BY <2>1 DEF Connect, CompleteAccept, Accept, OnData, OnPieceDone, OnMarked, OnAborted, actorVars
  <2>2. ASSUME NEW c \in Connections, OnEof(c) \/ (OnStop(c) /\ phase[c] # "closed")
        PROVE  ~IoStopped /\ UNCHANGED <<writing, wrote>>
    <3>1. PICK still \in BOOLEAN, rest \in Seq(Handlers) : Close(c, still, rest) /\ ~IoStopped
      BY <1>1, <2>2, CloseSteps
    <3> QED BY <1>1, <3>1, CloseEffect
  <2>3. ASSUME NEW c \in Connections, OnStop(c) /\ phase[c] = "closed"
        PROVE  UNCHANGED <<writes, writing, wrote>>
    BY <2>3 DEF OnStop, actorVars
  <2>4. ASSUME NEW w \in Workers, WorkerStep(w)
        PROVE  \/ UNCHANGED <<writes, writing, wrote>>
               \/ worker[w].at # "ended" /\ UNCHANGED <<writing, wrote>>
    <3>1. CASE WorkerEvent(w)
      <4>1. worker[w].at = "events" /\ UNCHANGED <<writing, wrote>>
        BY <1>1, <3>1, EventEffect DEF actorVars
      <4> QED BY <4>1
    <3>2. CASE WorkerConsumed(w)
      <4>1. worker[w].at = "consume" /\ UNCHANGED <<writing, wrote>>
        BY <1>1, <3>2, ConsumedEffect DEF actorVars
      <4> QED BY <4>1
    <3> QED BY <2>4, <3>1, <3>2 DEF WorkerStep, WorkerTake, WorkerDecode, WorkerUpserted,
                                    WorkerFinish, WorkerEnd, actorVars
  <2>5. CASE \/ Revoke \/ StopBegin \/ CloseAcceptor \/ StopThread \/ ActorEnd \/ UNCHANGED vars
    BY <2>5 DEF Revoke, StopBegin, CloseAcceptor, StopThread,
       StopSessions, StopPool, StopDatabase, ActorEnd, vars, actorVars
  <2> QED BY <2>1, <2>2, <2>3, <2>4, <2>5 DEF Next, OnPosted
<1>5. ASSUME NEW c \in Connections, phase[c] = "closed"
      PROVE  phase'[c] = "closed"
  <2>1. \/ phase' = phase
        \/ \E d \in Connections : /\ phase[d] \in {"away", "knocking", "accepted"} \/ phase' = [phase EXCEPT ![d] = "closed"]
                                  /\ \E p : phase' = [phase EXCEPT ![d] = p]
    <3>1. ASSUME NEW d \in Connections,
                 Connect(d) \/ CompleteAccept(d) \/ Accept(d) \/ OnData(d) \/ OnEof(d) \/
                 OnPosted(d)
          PROVE  \/ phase' = phase
                 \/ /\ phase[d] \in {"away", "knocking", "accepted"} \/ phase' = [phase EXCEPT ![d] = "closed"]
                    /\ \E p : phase' = [phase EXCEPT ![d] = p]
      BY <3>1 DEF Connect, CompleteAccept, Accept, OnData, OnEof, OnPosted, OnPieceDone,
         OnMarked, OnAborted,
         OnStop, Close
    <3>2. ASSUME NEW w \in Workers, WorkerStep(w)
          PROVE  phase' = phase
      BY <3>2, WorkerBasics DEF WorkerFrame, sessionVars
    <3>3. CASE \/ ActorTake \/ ActorRun \/ Revoke
               \/ StopBegin \/ CloseAcceptor \/ StopThread \/ ActorEnd \/ UNCHANGED vars
      BY <3>3 DEF ActorTake, ActorRun, Revoke, StopBegin, CloseAcceptor, StopThread,
         StopSessions, StopPool, StopDatabase, ActorEnd, vars, sessionVars
    <3> QED BY <3>1, <3>2, <3>3 DEF Next
  <2> QED BY <1>1, <1>5, <2>1
<1>6. ASSUME NEW c \in Connections, wrote'[Write("offline", c)] # ""
      PROVE  phase'[c] = "closed"
  <2>1. Write("offline", c) \in Writes
    BY WriteNames
  <2>2. CASE wrote[Write("offline", c)] # ""
    BY <1>5, <2>2 DEF Leavings
  <2>3. CASE wrote[Write("offline", c)] = ""
    <3>1. ActorRun
      BY <1>4, <1>6, <2>3 DEF ActorTake
    <3>2. PICK j \in writing : \A i \in Writes \ {j} : wrote'[i] = wrote[i]
      BY <1>1, <3>1, RunEffect
    <3>3. j = Write("offline", c)
      BY <1>6, <2>1, <2>3, <3>2
    <3>4. Due(Write("offline", c))
      BY <3>3 DEF Due
    <3> QED BY <1>5, <3>4 DEF Stops, MarkOK
  <2> QED BY <2>2, <2>3
<1>7. ASSUME stopper'.at = "stopped"
      PROVE  writes' = <<>> /\ writing' = {}
  <2>1. CASE stopper.at = "stopped"
    <3>1. writes = <<>> /\ writing = {}
      BY <2>1 DEF Leavings
    <3>2. IoStopped /\ ActorStopping
      BY <1>1, <2>1, StopOrder DEF Types
    <3>3. \A w \in Workers : worker[w].at = "ended"
      BY <1>1, <3>2 DEF StopOK
    <3>4. UNCHANGED <<writes, writing, wrote>>
      BY <1>4, <3>1, <3>2, <3>3 DEF ActorTake, ActorRun
    <3> QED BY <3>1, <3>4
  <2>2. CASE stopper.at # "stopped"
    <3>1. ActorEnd
      <4>1. ASSUME NEW c \in Connections,
                   Connect(c) \/ CompleteAccept(c) \/ Accept(c) \/ OnData(c) \/ OnEof(c) \/
                   OnPosted(c)
            PROVE  stopper'.at = stopper.at
        BY <1>1, <4>1, DataEffect DEF Connect, CompleteAccept, Accept, OnEof, OnPosted,
           OnPieceDone, OnMarked,
           OnAborted, OnStop
      <4>2. ASSUME NEW w \in Workers, WorkerStep(w)
            PROVE  stopper' = stopper
        BY <4>2, WorkerBasics DEF WorkerFrame
      <4>3. CASE ActorTake \/ ActorRun \/ Revoke \/ CloseAcceptor \/ UNCHANGED vars
        BY <1>7, <2>2, <4>3 DEF ActorTake, ActorRun, Revoke, CloseAcceptor, vars
      <4>4. CASE StopBegin \/ StopSessions \/ StopPool \/ StopDatabase
        <5>1. stopper'.at \in {"closing", "waiting", "pool", "db"}
          BY <1>1, <4>4, StopEffect DEF StopThread
        <5> QED BY <1>7, <5>1
      <4> QED BY <1>7, <2>2, <4>1, <4>2, <4>3, <4>4 DEF Next, StopThread
    <3> QED BY <3>1 DEF ActorEnd, actorVars
  <2> QED BY <2>1, <2>2
<1> QED BY <1>3, <1>6, <1>7 DEF Leavings

(* A queue with no member of R counted has none.                            *)
LEMMA NoneCounted ==
  ASSUME NEW S, NEW q \in Seq(S), NEW R, CountIn(q, R) = 0
  PROVE  \A y \in R : ~In(q, y)
<1> DEFINE A == {i \in 1..Len(q) : q[i] \in R}
<1>1. Len(q) \in Nat
  OBVIOUS
<1>2. IsFiniteSet(A)
  <2>1. IsFiniteSet(1..Len(q))
    <3>1. 1 \in Int /\ Len(q) \in Int
      BY <1>1
    <3> QED BY <3>1, FS_Interval
  <2>2. A \in SUBSET (1..Len(q))
    OBVIOUS
  <2> HIDE DEF A
  <2> QED BY <2>1, <2>2, FS_Subset
<1>3. Cardinality(A) = 0
  BY DEF CountIn
<1>4. A = {}
  <2> HIDE DEF A
  <2> QED BY <1>2, <1>3, FS_EmptySet
<1> QED BY <1>4 DEF In

(* The numbers pushed, when all pieces were, in order.                      *)
LEMMA AllPushed ==
  ASSUME NEW q \in Seq(1..2), \A k \in 1..2 : Once(q, k), In(q, 1),
         \A i \in DOMAIN q : q[i] = i
  PROVE  q = << 1 >> \/ q = <<1, 2>>
<1>1. Len(q) \in Nat /\ DOMAIN q = 1..Len(q) /\ \A i \in 1..Len(q) : q[i] \in 1..2 /\ q[i] = i
  OBVIOUS
<1>2. Len(q) # 0
  BY <1>1 DEF In
<1>3. Len(q) \in 1..2
  <2>1. Len(q) \in 1..Len(q)
    BY <1>1, <1>2
  <2> QED BY <1>1, <2>1
<1>4. CASE Len(q) = 1
  <2>1. q[1] = 1
    BY <1>1, <1>4
  <2>2. q = << 1 >>
    BY <1>4, <2>1
  <2> QED BY <2>2
<1>5. CASE Len(q) = 2
  <2>1. q[1] = 1 /\ q[2] = 2
    BY <1>1, <1>5
  <2>2. q = <<1, 2>>
    BY <1>5, <2>1
  <2> QED BY <2>2
<1> QED BY <1>3, <1>4, <1>5

(* When the last piece is done and nothing has failed, the events of the    *)
(* batch are handled, if its pieces were decoded in order.                  *)
LEMMA LastPiece ==
  ASSUME Basics, Registered, Answers, AnswerTypes, Decoding, Leavings,
         NEW c \in Connections, InOrder(c),
         inbox[c] # <<>>, Head(inbox[c]) = "accepted", ~hasError[c], phase[c] # "closed",
         ~IoStopped, AllReceived(c), pending[c] <= 1
  PROVE  handled[c] = EventNames
<1>1. /\ Types /\ PiecesOK /\ JobsOK /\ CountOK(c) /\ WaitOK(c) /\ pending[c] \in Nat
      /\ DecodeTypes /\ PushedOK /\ BufferOK(c) /\ MetOK(c)
      /\ pending[c] <= received[c]
  BY DEF Basics, Answers, AnswerTypes, Decoding
<1>2. inbox[c] \in Seq(Handlers) /\ pushed[c] \in Seq(1..2) /\ handled[c] \in SUBSET EventNames
  BY <1>1 DEF Types, DecodeTypes
<1>3. /\ CountIn(Tail(inbox[c]), {"accepted", "failed"}) \in Nat
      /\ Results(c) = CountIn(Tail(inbox[c]), {"accepted", "failed"}) + 1
  BY <1>2, CountTail DEF Results
<1>4. /\ ~InFlight(<<c, 1>>) /\ ~InFlight(<<c, 2>>)
      /\ CountIn(Tail(inbox[c]), {"accepted", "failed"}) = 0 /\ pending[c] = 1
  <2>1. PICK a, b, d : /\ a = Flying(<<c, 1>>) /\ b = Flying(<<c, 2>>)
                       /\ d = CountIn(Tail(inbox[c]), {"accepted", "failed"})
    OBVIOUS
  <2>2. a \in {0, 1} /\ b \in {0, 1} /\ d \in Nat /\ pending[c] >= a + b + (d + 1)
    BY <1>1, <1>3, <2>1 DEF CountOK, Flying
  <2>3. a = 0 /\ b = 0 /\ d = 0 /\ pending[c] = 1
    BY <1>1, <2>2
  <2> QED BY <2>1, <2>3 DEF Flying
<1>5. ~In(inbox[c], "failed")
  <2>1. Tail(inbox[c]) \in Seq(Handlers)
    BY <1>2
  <2>2. ~In(Tail(inbox[c]), "failed")
    BY <1>4, <2>1, NoneCounted
  <2>3. In(inbox[c], "failed") /\ "failed" # Head(inbox[c]) => In(Tail(inbox[c]), "failed")
    BY <1>2, TailOfQueue
  <2> QED BY <2>2, <2>3
<1>6. \A w \in Workers : ~Holds(w, c)
  <2> SUFFICES ASSUME NEW w \in Workers, Holds(w, c) PROVE FALSE
    OBVIOUS
  <2>1. worker[w].at \in Busy /\ worker[w].job[1] = c
    BY DEF Holds, ConnOf, Busy
  <2>2. worker[w].job \in Jobs
    BY <1>1, <2>1 DEF Types
  <2>3. worker[w].job \in {<<c, 1>>, <<c, 2>>}
    BY <2>1, <2>2, JobNumbers
  <2>4. InFlight(worker[w].job)
    BY <2>1 DEF InFlight, WorksOn
  <2> QED BY <1>4, <2>3, <2>4
<1>7. Sound(c)
  BY <1>5, <1>6 DEF Sound
<1>8. \A event : Met(c, event) => event \in handled[c]
  BY <1>6 DEF Met, Ahead
<1>9. /\ received[c] = Len(pieces[c]) /\ Len(pieces[c]) \in 1..2
      /\ DOMAIN pieces[c] = 1..Len(pieces[c]) /\ BatchPieces(pieces[c])
  <2>1. received[c] = Len(pieces[c]) /\ Len(pieces[c]) \in 0..2
    BY <1>1 DEF AllReceived, PiecesOK
  <2>2. DOMAIN pieces[c] = 1..Len(pieces[c]) /\ BatchPieces(pieces[c])
    BY <1>1 DEF BufferOK, BatchPieces
  <2>3. 1 <= Len(pieces[c])
    BY <1>1, <1>4, <2>1
  <2> QED BY <2>1, <2>2, <2>3
<1>10. ASSUME NEW k \in 1..2
       PROVE  In(pushed[c], k) <=> k \in 1..received[c]
  <2>1. <<c, k>> \in Jobs /\ <<c, k>>[1] = c /\ <<c, k>>[2] = k
    BY DEF Jobs
  <2>2. In(pushed[c], k) <=> Decoded(<<c, k>>)
    BY <1>1, <2>1 DEF PushedOK
  <2>3. ASSUME Decoded(<<c, k>>)
        PROVE  k \in 1..received[c]
    <3>1. Numbered(<<c, k>>)
      BY <1>1, <2>1, <2>3 DEF Decoded, PiecesOK, Beyond, Busy
    <3> QED BY <1>9, <2>1, <3>1 DEF Numbered
  <2>4. ASSUME k \in 1..received[c]
        PROVE  Decoded(<<c, k>>)
    <3>1. InFlight(<<c, k>>) \/ <<c, k>> \in ran \cup poolRefused
      BY <1>1, <2>4 DEF WaitOK
    <3>2. poolRefused = {}
      BY DEF Leavings
    <3>3. <<c, k>> \in {<<c, 1>>, <<c, 2>>}
      BY <2>1, JobNumbers
    <3> QED BY <1>4, <3>1, <3>2, <3>3 DEF Decoded
  <2> QED BY <2>2, <2>3, <2>4
<1>11. \A k \in 1..2 : Once(pushed[c], k)
  <2> TAKE k \in 1..2
  <2>1. <<c, k>> \in Jobs /\ <<c, k>>[1] = c /\ <<c, k>>[2] = k
    BY DEF Jobs
  <2> QED BY <1>1, <2>1 DEF PushedOK
<1>12. 1 \in 1..2 /\ 2 \in 1..2 /\ 1 \in 1..received[c] /\ 1 \in DOMAIN pieces[c]
  <2>1. PICK n, m : n = received[c] /\ m = Len(pieces[c])
    OBVIOUS
  <2>2. n = m /\ m \in 1..2 /\ DOMAIN pieces[c] = 1..m
    BY <1>9, <2>1
  <2>3. 1 \in 1..n /\ 1 \in 1..m
    BY <2>2
  <2>4. 1 \in 1..2 /\ 2 \in 1..2
    OBVIOUS
  <2> QED BY <2>1, <2>2, <2>3, <2>4
<1>13. pushed[c] = << 1 >> \/ pushed[c] = <<1, 2>>
  <2>1. In(pushed[c], 1)
    BY <1>10, <1>12
  <2> QED BY <1>2, <1>11, <2>1, AllPushed DEF InOrder
<1>14. \A event \in EventNames : Met(c, event)
  <2>1. CASE pushed[c] = <<1, 2>>
    BY <1>1, <1>7, <2>1 DEF MetOK
  <2>2. CASE pushed[c] = << 1 >>
    <3>1. ~In(pushed[c], 2)
      BY <2>2 DEF In
    <3>2. Len(pieces[c]) = 1
      <4>1. 2 \notin 1..received[c]
        BY <1>10, <1>12, <3>1
      <4> QED BY <1>9, <4>1
    <3>3. In(Drain[pieces[c][1]].frames, << 1 >>) /\ In(Drain[pieces[c][1]].frames, << 2 >>)
      <4> QED BY <1>9, <1>12, <3>2, OnePiece
    <3>4. \A event \in EventNames : In(Drain[pieces[c][1]].frames, FrameOf(event))
      BY <3>3 DEF FrameOf
    <3> QED BY <1>1, <1>7, <2>2, <3>4 DEF MetOK
  <2> QED BY <1>13, <2>1, <2>2
<1> QED BY <1>2, <1>8, <1>14

(* An answer that was true stays so, and one that is given is true.         *)
LEMMA TrueAnswerStep ==
  ASSUME Basics, Registered, Answers, AnswerTypes, Decoding, Decoding', Leavings, [Next]_vars,
         NEW c \in Connections, TrueAnswer(c)
  PROVE  TrueAnswer(c)'
<1>1. Types /\ DecodeTypes /\ handled'[c] \in SUBSET EventNames /\ answer \in [Connections -> {0, 200, 400}]
      /\ pushed[c] \in Seq(1..2) /\ handled[c] \in SUBSET EventNames
  BY DEF Basics, Decoding, DecodeTypes, AnswerTypes
<1>2. /\ InOrder(c)' => InOrder(c)
      /\ handled[c] \subseteq handled'[c]
  <2>1. CASE UNCHANGED <<pushed, handled>>
    BY <2>1 DEF InOrder
  <2>2. ASSUME NEW w \in Workers, WorkerDecode(w)
        PROVE  (InOrder(c)' => InOrder(c)) /\ handled[c] \subseteq handled'[c]
    <3>1. PICK d, i : /\ d = ConnOf(w) /\ i = worker[w].job[2]
      OBVIOUS
    <3>2. handled' = handled /\ pushed' = [pushed EXCEPT ![d] = Append(@, i)]
      BY <2>2, <3>1 DEF WorkerDecode
    <3>3. pushed'[c] = pushed[c] \/ pushed'[c] = Append(pushed[c], i)
      <4>1. DOMAIN pushed = Connections
        BY <1>1 DEF DecodeTypes
      <4> QED BY <3>2, <4>1
    <3>4. \A k \in DOMAIN pushed[c] : /\ k \in DOMAIN Append(pushed[c], i)
                                      /\ Append(pushed[c], i)[k] = pushed[c][k]
      BY <1>1
    <3>5. ASSUME InOrder(c)' PROVE InOrder(c)
      <4>1. \A k \in DOMAIN pushed'[c] : pushed'[c][k] = k
        BY <3>5 DEF InOrder
      <4>2. CASE pushed'[c] = pushed[c]
        BY <4>1, <4>2 DEF InOrder
      <4>3. CASE pushed'[c] = Append(pushed[c], i)
        BY <3>4, <4>1, <4>3 DEF InOrder
      <4> QED BY <3>3, <4>2, <4>3
    <3> QED BY <3>2, <3>5
  <2>3. ASSUME NEW w \in Workers, WorkerEvent(w) \/ WorkerConsumed(w) \/ WorkerUpserted(w)
        PROVE  (InOrder(c)' => InOrder(c)) /\ handled[c] \subseteq handled'[c]
    <3>1. pushed' = pushed
      BY <2>3 DEF WorkerEvent, WorkerConsumed, WorkerUpserted
    <3>2. \/ handled' = handled
          \/ \E e : handled' = [handled EXCEPT ![ConnOf(w)] = @ \cup {e}]
      BY <2>3 DEF WorkerEvent, WorkerConsumed, WorkerUpserted, EventDone
    <3>3. handled[c] \subseteq handled'[c]
      <4>1. PICK d : d = ConnOf(w)
        OBVIOUS
      <4>2. DOMAIN handled = Connections
        BY <1>1 DEF DecodeTypes
      <4>3. ASSUME NEW e, handled' = [handled EXCEPT ![d] = @ \cup {e}]
            PROVE  handled[c] \subseteq handled'[c]
        <5>1. CASE d = c
          <6>1. handled'[c] = handled[c] \cup {e}
            BY <4>2, <4>3, <5>1
          <6> QED BY <6>1
        <5>2. CASE d # c
          <6>1. handled'[c] = handled[c]
            BY <4>2, <4>3, <5>2
          <6> QED BY <6>1
        <5> QED BY <5>1, <5>2
      <4> QED BY <3>2, <4>1, <4>3
    <3> QED BY <3>1, <3>3 DEF InOrder
  <2>4. \/ UNCHANGED <<pushed, handled>>
        \/ \E w \in Workers : \/ WorkerDecode(w)
                              \/ WorkerEvent(w) \/ WorkerConsumed(w) \/ WorkerUpserted(w)
    <3>1. ASSUME NEW d \in Connections,
                 Connect(d) \/ CompleteAccept(d) \/ Accept(d) \/ OnData(d) \/ OnEof(d) \/
                 OnPosted(d)
          PROVE  UNCHANGED <<pushed, handled>>
      BY <3>1 DEF Connect, CompleteAccept, Accept, OnData, OnEof, OnPosted, OnPieceDone,
         OnMarked, OnAborted,
         OnStop, poolVars
    <3>2. ASSUME NEW w \in Workers, WorkerTake(w) \/ WorkerFinish(w) \/ WorkerEnd(w)
          PROVE  UNCHANGED <<pushed, handled>>
      BY <3>2 DEF WorkerTake, WorkerFinish, WorkerEnd
    <3>3. CASE \/ ActorTake \/ ActorRun \/ Revoke
               \/ StopBegin \/ CloseAcceptor \/ StopThread \/ ActorEnd \/ UNCHANGED vars
      BY <3>3 DEF ActorTake, ActorRun, Revoke, StopBegin, CloseAcceptor, StopThread,
         StopSessions, StopPool, StopDatabase, ActorEnd, vars, poolVars
    <3> QED BY <3>1, <3>2, <3>3 DEF Next, WorkerStep
  <2> QED BY <2>1, <2>2, <2>3, <2>4
<1>3. CASE answer[c] = 200
  <2>1. InOrder(c)' => handled[c] = EventNames
    BY <1>2, <1>3 DEF TrueAnswer
  <2>2. InOrder(c)' => handled'[c] = EventNames
    <3>1. SUFFICES ASSUME InOrder(c)' PROVE handled'[c] = EventNames
      OBVIOUS
    <3>2. handled[c] = EventNames /\ handled[c] \subseteq handled'[c]
      BY <1>2, <2>1, <3>1
    <3>3. EventNames \subseteq handled'[c] /\ handled'[c] \subseteq EventNames
      BY <1>1, <3>2
    <3> QED BY <3>3
  <2> QED BY <2>2 DEF TrueAnswer
<1>4. CASE answer[c] # 200 /\ answer'[c] = 200
  <2>1. \/ UNCHANGED answer
        \/ \E d \in Connections : OnData(d) \/ (OnPieceDone(d) /\ phase[d] # "closed")
    <3>1. ASSUME NEW d \in Connections,
                 \/ Connect(d) \/ CompleteAccept(d) \/ Accept(d) \/ OnEof(d) \/ OnMarked(d)
                 \/ OnAborted(d) \/ OnStop(d)
                 \/ (OnPieceDone(d) /\ phase[d] = "closed")
          PROVE  UNCHANGED answer
      BY <3>1 DEF Connect, CompleteAccept, Accept, OnEof, OnPieceDone, OnMarked, OnAborted, OnStop
    <3>2. ASSUME NEW w \in Workers, WorkerStep(w)
          PROVE  UNCHANGED answer
      BY <3>2, WorkerBasics DEF WorkerFrame, sessionVars
    <3>3. CASE \/ ActorTake \/ ActorRun \/ Revoke
               \/ StopBegin \/ CloseAcceptor \/ StopThread \/ ActorEnd \/ UNCHANGED vars
      BY <3>3 DEF ActorTake, ActorRun, Revoke, StopBegin, CloseAcceptor, StopThread,
         StopSessions, StopPool, StopDatabase, ActorEnd, vars, sessionVars
    <3> QED BY <3>1, <3>2, <3>3 DEF Next, OnPosted
  <2>2. PICK d \in Connections : OnData(d) \/ (OnPieceDone(d) /\ phase[d] # "closed")
    BY <1>4, <2>1
  <2>3. pending[d] \in Nat
    BY DEF Answers
  <2>4. CASE OnData(d)
    <3>1. PICK n, e, a :
            /\ n = (IF PoolStopping THEN 0 ELSE 1) /\ e = (hasError[d] \/ PoolStopping)
            /\ a = Answer(d, received[d] + 1 = Len(pieces[d]), pending[d] + n, e)
      OBVIOUS
    <3>2. answer' = [answer EXCEPT ![d] = a]
      BY <2>4, <3>1 DEF OnData
    <3>3. d = c /\ a = 200
      BY <1>1, <1>4, <3>2
    <3>4. pending[d] + n = 0 /\ ~e
      BY <1>4, <3>1, <3>3 DEF Answer
    <3>5. n = 1
      BY <3>1, <3>4
    <3>6. \A m \in Nat : m + 1 # 0
      OBVIOUS
    <3> QED BY <2>3, <3>4, <3>5, <3>6
  <2>5. CASE OnPieceDone(d) /\ phase[d] # "closed"
    <3>1. PICK n, e, a :
            /\ n = (IF pending[d] > 0 THEN pending[d] - 1 ELSE 0)
            /\ e = (hasError[d] \/ Head(inbox[d]) = "failed")
            /\ a = Answer(d, AllReceived(d), n, e)
      OBVIOUS
    <3>2. /\ answer' = [answer EXCEPT ![d] = a] /\ ~IoStopped /\ inbox[d] # <<>>
          /\ Head(inbox[d]) \in {"accepted", "failed"}
      BY <2>5, <3>1 DEF OnPieceDone
    <3>3. d = c /\ a = 200
      BY <1>1, <1>4, <3>2
    <3>4. n = 0 /\ ~e /\ AllReceived(c)
      BY <1>4, <3>1, <3>3 DEF Answer
    <3>5. pending[c] <= 1
      BY <2>3, <3>1, <3>3, <3>4
    <3>6. InOrder(c) => handled[c] = EventNames
      BY <2>5, <3>1, <3>2, <3>3, <3>4, <3>5, LastPiece
    <3>7. InOrder(c)' => handled'[c] = EventNames
      <4>1. SUFFICES ASSUME InOrder(c)' PROVE handled'[c] = EventNames
        OBVIOUS
      <4>2. handled[c] = EventNames /\ handled[c] \subseteq handled'[c]
        BY <1>2, <3>6, <4>1
      <4>3. EventNames \subseteq handled'[c] /\ handled'[c] \subseteq EventNames
        BY <1>1, <4>2
      <4> QED BY <4>3
    <3> QED BY <3>7 DEF TrueAnswer
  <2> QED BY <2>2, <2>4, <2>5
<1>5. CASE answer'[c] # 200
  BY <1>5 DEF TrueAnswer
<1> QED BY <1>3, <1>4, <1>5

(* See above. *)
LEMMA AnswerTypesInit == Init => AnswerTypes
<1> SUFFICES ASSUME Init PROVE AnswerTypes
  OBVIOUS
<1>1. /\ hasError = [c \in Connections |-> FALSE] /\ answer = [c \in Connections |-> 0]
      /\ pending = [c \in Connections |-> 0] /\ received = [c \in Connections |-> 0]
  BY DEF Init
<1> QED BY <1>1 DEF AnswerTypes

(* See above. *)
LEMMA LeavingsInit == Init => Leavings
<1> SUFFICES ASSUME Init PROVE Leavings
  OBVIOUS
<1>1. poolRefused = {} /\ wrote = [j \in Writes |-> ""] /\ stopper.at = "running"
  BY DEF Init
<1>2. \A c \in Connections : wrote[Write("offline", c)] = ""
  BY <1>1, WriteNames
<1> QED BY <1>1, <1>2 DEF Leavings

(* A worker asks for a use of the token once, as there is one registration  *)
(* in a batch.                                                              *)
LEMMA AskedOnce ==
  ASSUME Basics, Decoding, NEW w \in Workers
  PROVE  AsksOnce(w)
<1> SUFFICES ASSUME worker[w].at = "events", worker[w].events # <<>>,
                    Head(worker[w].events) # "heartbeat"
             PROVE  ~Spent("consume", ConnOf(w))
  BY DEF AsksOnce
<1>1. ConnOf(w) \in Connections
  BY WorkerOpened DEF Busy
<1>2. worker[w].events \in Seq(EventNames)
  BY DEF Decoding, DecodeTypes
<1>3. Head(worker[w].events) \in EventNames /\ In(worker[w].events, Head(worker[w].events))
  BY <1>2, TailOfQueue
<1>4. In(worker[w].events, "register")
  BY <1>3 DEF EventNames
<1>5. Holds(w, ConnOf(w))
  BY DEF Holds
<1> QED BY <1>1, <1>4, <1>5 DEF Decoding, RegisterOK

(* The invariant of the server: the registrations and their writes, the     *)
(* pieces, what is decoded and handled of them, and what Stop leaves.       *)
LEMMA ServerInvariant ==
  Spec => [](Basics /\ Registered /\ Answers /\ AnswerTypes /\ Decoding /\ Stops /\ Leavings)
<1>1. Init => Basics /\ Registered /\ Answers /\ AnswerTypes /\ Decoding /\ Stops /\ Leavings
  BY BasicsInit, RegisteredInit, AnswersInit, AnswerTypesInit, DecodingInit, StopsInit,
     LeavingsInit
<1>2. /\ Basics /\ Registered /\ Answers /\ AnswerTypes /\ Decoding /\ Stops /\ Leavings
      /\ [Next]_vars
      => (Basics /\ Registered /\ Answers /\ AnswerTypes /\ Decoding /\ Stops /\ Leavings)'
  BY BasicsStep, AskedOnce, RegisteredStep, AnswersStep, AnswerTypesStep, DecodingStep,
     StopsStep, LeavingsStep
<1> QED BY <1>1, <1>2, PTL DEF Spec

(* Agents that race for the last use of a token, or against its end,       *)
(* cannot use it more often than it allows, and no agent gets a row        *)
(* without a use granted to a connection of its own: however many threads  *)
(* handle registrations and however their two writes interleave.           *)
THEOREM RegistrationPaidHolds == Spec => []RegistrationPaid
<1>1. Registered => RegistrationPaid
  BY DEF Registered, Paid, Granted, RegistrationPaid
<1> QED BY <1>1, ServerInvariant, PTL

(* When Stop got past both its waits in time, no offline mark is queued or  *)
(* under way and no session is open but for at most one, which an accept    *)
(* that had completed before the acceptor was closed has listed and started *)
(* after the sweep: for any number of connections, whatever order their     *)
(* handlers run in.                                                         *)
THEOREM CleanStopHolds == Spec => []CleanStop
<1>1. Types /\ Stops => CleanStop
  <2> SUFFICES ASSUME Types, Stops, IoStopped, ~stopper.timedOut
               PROVE  /\ Cardinality(sessions) <= 1
                      /\ \A c \in Connections \ sessions :
                           /\ phase[c] # "open"
                           /\ Write("offline", c) \notin Range(writes) \cup writing
    BY DEF CleanStop
  <2>1. \A c \in Connections \ sessions : phase[c] # "open" /\ ~Due(Write("offline", c))
    BY DEF Stops, SweptOK
  <2>2. DOMAIN writes = 1..Len(writes)
    <3>1. writes \in Seq(Writes)
      BY DEF Types
    <3> QED BY <3>1
  <2>3. \A c \in Connections \ sessions :
          phase[c] # "open" /\ Write("offline", c) \notin Range(writes) \cup writing
    BY <2>1, <2>2 DEF Due, In, Range
  <2>4. sessions = {} \/ \E c \in sessions : sessions = {c}
    <3>1. sessions \subseteq Connections
      BY DEF Types
    <3>2. stopper.at \in {"waiting", "pool", "db", "stopped"}
      BY Points DEF PointsOK
    <3>3. \A c \in sessions, d \in Connections : d \in sessions => c = d
      BY <3>2 DEF Stops, ClosedOK, LateOK
    <3> QED BY <3>1, <3>3
  <2>5. Cardinality(sessions) <= 1
    <3>1. CASE sessions = {}
      BY <3>1, FS_EmptySet
    <3>2. CASE sessions # {}
      <4>1. PICK c \in sessions : sessions = {c}
        BY <2>4, <3>2
      <4>2. Cardinality({c}) = 1
        BY FS_Singleton
      <4> QED BY <4>1, <4>2
    <3> QED BY <3>1, <3>2
  <2> QED BY <2>3, <2>5
<1>2. Basics => Types
  BY DEF Basics
<1> QED BY <1>1, <1>2, ServerInvariant, PTL

(* The batch is answered when every piece of it has been handled or was    *)
(* refused by the stopping pool, for any number of threads, that take the  *)
(* pieces in any order, and wherever Stop falls.                           *)
THEOREM AnswerWaitsHolds == Spec => []AnswerWaits
<1>1. Basics /\ Answers => AnswerWaits
  <2> SUFFICES ASSUME Basics, Answers, NEW c \in Connections, answer[c] # 0, NEW i \in DOMAIN pieces[c]
               PROVE  <<c, i>> \in ran \cup poolRefused
    BY DEF AnswerWaits
  <2>1. WaitOK(c)
    BY DEF Answers
  <2>2. i \in 1..received[c]
    BY <2>1 DEF WaitOK, AllReceived
  <2>3. InFlight(<<c, i>>) \/ <<c, i>> \in ran \cup poolRefused
    BY <2>1, <2>2 DEF WaitOK
  <2>4. <<c, i>> \in {<<c, 1>>, <<c, 2>>}
    <3>1. received[c] \in Nat /\ Len(pieces[c]) \in 0..2 /\ received[c] <= Len(pieces[c])
      BY DEF Basics, Types, PiecesOK
    <3>2. i = 1 \/ i = 2
      BY <2>2, <3>1
    <3> QED BY <3>2
  <2> QED BY <2>1, <2>3, <2>4 DEF WaitOK
<1> QED BY <1>1, ServerInvariant, PTL

(* The types of all the variables, for any number of sessions, threads and  *)
(* agents, and any cut of the batches: pending_event_chunks never counts    *)
(* more than the pieces of the batch, and what the decoder leaves in its    *)
(* buffers are bytes.                                                       *)
THEOREM TypesHold == Spec => []TypeOK
<1>1. Basics /\ Answers /\ AnswerTypes /\ Decoding => TypeOK
  <2> SUFFICES ASSUME Basics, Answers, AnswerTypes, Decoding PROVE TypeOK
    OBVIOUS
  <2>1. Types /\ PiecesOK /\ DecodeTypes
    BY DEF Basics, Decoding
  <2>2. ASSUME NEW c \in Connections
        PROVE  /\ received[c] \in 0..Len(pieces[c]) /\ pending[c] \in 0..2
               /\ Range(inbox[c]) \subseteq Handlers /\ pushed[c] \in Seq(1..2)
    <3>1. PICK r, n, p : r = received[c] /\ n = Len(pieces[c]) /\ p = pending[c]
      OBVIOUS
    <3>2. r \in Nat /\ n \in 0..2 /\ r <= n /\ p \in Nat /\ p <= r
      BY <2>1, <3>1 DEF Types, PiecesOK, Answers, AnswerTypes
    <3>3. r \in 0..n /\ p \in 0..2
      BY <3>2
    <3>4. inbox[c] \in Seq(Handlers) /\ pushed[c] \in Seq(1..2)
      BY <2>1 DEF Types, DecodeTypes
    <3>5. Range(inbox[c]) \subseteq Handlers
      BY <3>4 DEF Range
    <3> QED BY <3>1, <3>3, <3>4, <3>5
  <2>3. pending \in [Connections -> 0..2]
    BY <2>2 DEF Answers
  <2>4. \A w \in Workers :
          worker[w].at \in {"idle", "lock", "events", "consume", "upsert", "ended"}
    BY <2>1 DEF Types, Busy
  <2>5. wrote \in [Writes -> {"", "ok", "rejected", "failed", "stopped"}]
    <3>1. wrote \in [Writes -> {"", "ok", "rejected", "failed"}]
      BY <2>1 DEF Types
    <3> QED BY <3>1
  <2>6. stopper.at \in Range(StopPoints)
    BY <2>1 DEF Types
  <2>7. handled \in [Connections -> SUBSET {"register", "heartbeat"}]
    BY <2>1 DEF DecodeTypes, EventNames
  <2>8. /\ hasError \in [Connections -> BOOLEAN]
        /\ answer \in [Connections -> {0, 200, 400}]
    BY DEF AnswerTypes
  <2>9. \A c \in Connections : Range(inbox[c]) \subseteq
           {"accepted", "failed", "marked", "stop", "aborted"}
    BY <2>2 DEF Handlers
  <2>10. /\ acceptor \in {"armed", "idle", "closed"}
         /\ sessions \subseteq Connections
         /\ phase \in [Connections -> {"away", "knocking", "accepted", "open", "closed", "refused"}]
         /\ owner \in [Connections -> Agents \cup {Nil}]
         /\ reading \in [Connections -> BOOLEAN]
         /\ marking \in [Connections -> BOOLEAN]
         /\ done \in [Connections -> BOOLEAN]
         /\ current \in [Agents -> Connections \cup {Nil}]
         /\ tasks \in Seq(Jobs)
         /\ ran \subseteq Jobs /\ poolRefused \subseteq Jobs
         /\ writes \in Seq(Writes) /\ writing \subseteq Writes
         /\ token \in [status : {"active", "consumed", "revoked"}, uses : Nat]
         /\ agents \in [Agents -> {"none", "online", "offline"}]
    BY <2>1 DEF Types
  <2> QED BY <2>2, <2>3, <2>4, <2>5, <2>6, <2>7, <2>8, <2>9, <2>10 DEF TypeOK
<1> QED BY <1>1, ServerInvariant, PTL

(* No batch is answered before all its pieces were handled or refused, and  *)
(* when they were decoded in order, 200 says that its registration and its  *)
(* heartbeat were accepted, wherever the network cut the bytes and whatever *)
(* threads of the pool had the pieces.                                      *)
THEOREM AnswerTruthfulHolds == Spec => []AnswerTruthful
<1> DEFINE Truthful == \A c \in Connections : TrueAnswer(c)
<1>1. Init => Truthful
  <2> SUFFICES ASSUME Init, NEW c \in Connections PROVE TrueAnswer(c)
    OBVIOUS
  <2>1. answer[c] = 0
    BY DEF Init
  <2> QED BY <2>1 DEF TrueAnswer
<1>2. /\ Basics /\ Registered /\ Answers /\ AnswerTypes /\ Decoding /\ Decoding' /\ Leavings
      /\ Truthful /\ [Next]_vars
      => Truthful'
  <2> SUFFICES ASSUME Basics, Registered, Answers, AnswerTypes, Decoding, Decoding', Leavings,
                      Truthful, [Next]_vars
               PROVE  Truthful'
    OBVIOUS
  <2>1. ASSUME NEW c \in Connections
        PROVE  TrueAnswer(c)'
    BY TrueAnswerStep
  <2> QED BY <2>1
<1>3. AnswerWaits /\ Truthful => AnswerTruthful
  BY DEF AnswerTruthful, TrueAnswer, EventNames
<1> HIDE DEF Truthful
<1>4. Spec => []Truthful
  BY <1>1, <1>2, ServerInvariant, PTL DEF Spec
<1> QED BY <1>3, <1>4, AnswerWaitsHolds, PTL

----------------------------------------------------------------------------
(* The write actor is a work queue. *)

WritingActor == [x \in {"actor"} |-> writing]
WritesDone == {j \in Writes : wrote[j] \in {"ok", "rejected", "failed"}}
WritesRefused == {j \in Writes : wrote[j] = "stopped"}
EndedActor == IF stopper.at = "stopped" THEN {"actor"} ELSE {}

ActorStutters ==
  UNCHANGED <<writes, WritingActor, WritesDone, WritesRefused, EndedActor, ActorStopping>>

(* What the work queue sees, unchanged.                                     *)
LEMMA ActorStutter == ActorStutters => UNCHANGED Actor!vars
BY DEF ActorStutters, Actor!vars, WritingActor, WritesDone, WritesRefused, EndedActor

(* No write is ever refused: who submits one is gone when the actor stops.  *)
LEMMA NoneRefused ==
  ASSUME Types
  PROVE  WritesRefused = {}
<1>1. wrote \in [Writes -> {"", "ok", "rejected", "failed"}]
  BY DEF Types
<1>2. \A j \in Writes : wrote[j] # "stopped"
  BY <1>1
<1> QED BY <1>2 DEF WritesRefused

(* A step without a write, and with Stop where it is.                       *)
LEMMA ActorUntouched ==
  ASSUME UNCHANGED actorVars, stopper'.at = stopper.at
  PROVE  [Actor!Next]_(Actor!vars)
<1>1. ActorStopping' = ActorStopping
  BY DEF ActorStopping, Reached
<1>2. UNCHANGED <<writes, writing, wrote>>
  BY DEF actorVars
<1>3. ActorStutters
  BY <1>1, <1>2 DEF ActorStutters, WritingActor, WritesDone, WritesRefused, EndedActor
<1> QED BY <1>3, ActorStutter

(* The numbers of a queue.                                                  *)
LEMMA QueueDomain == ASSUME NEW S, NEW q \in Seq(S) PROVE DOMAIN q = 1..Len(q)
OBVIOUS

(* A write that is new is submitted.                                        *)
LEMMA ActorSubmits ==
  ASSUME Types, NEW j \in Writes, writes' = Append(writes, j),
         UNCHANGED <<writing, wrote, stopper>>,
         ~Due(j), wrote[j] = "", ~ActorStopping
  PROVE  [Actor!Next]_(Actor!vars)
<1>1. ActorStopping' = ActorStopping
  BY DEF ActorStopping, Reached
<1>2. UNCHANGED <<WritingActor, WritesDone, WritesRefused, EndedActor>>
  BY DEF WritingActor, WritesDone, WritesRefused, EndedActor
<1>3. j \notin Actor!Submitted
  <2>1. j \notin Range(writes)
    <3>1. writes \in Seq(Writes)
      BY DEF Types
    <3>2. DOMAIN writes = 1..Len(writes)
      BY <3>1, QueueDomain
    <3> QED BY <3>2 DEF Range, Due, In
  <2>2. j \notin UNION {WritingActor[w] : w \in {"actor"}}
    BY DEF WritingActor, Due
  <2>3. j \notin WritesDone /\ j \notin WritesRefused
    BY DEF WritesDone, WritesRefused
  <2>4. Actor!Submitted = Range(writes) \cup (UNION {WritingActor[w] : w \in {"actor"}})
                          \cup WritesDone \cup WritesRefused
    BY DEF Actor!Submitted, WritingActor, WritesDone, WritesRefused, Range, Actor!Range
  <2> QED BY <2>1, <2>2, <2>3, <2>4
<1>4. Actor!Submit(j)
  BY <1>1, <1>2, <1>3
     DEF Actor!Submit, WritingActor, WritesDone, WritesRefused, EndedActor
<1> QED BY <1>4 DEF Actor!Next

(* The steps of a worker: a registration's writes are new.                  *)
LEMMA WorkerActor ==
  ASSUME Basics, Registered, Decoding, NEW w \in Workers, WorkerStep(w)
  PROVE  [Actor!Next]_(Actor!vars)
<1>1. Types /\ StopOK /\ DecodeTypes /\ stopper' = stopper
  BY WorkerBasics DEF Basics, Decoding, WorkerFrame
<1>2. ASSUME UNCHANGED actorVars
      PROVE  [Actor!Next]_(Actor!vars)
  BY <1>1, <1>2, ActorUntouched
<1>3. CASE WorkerTake(w) \/ WorkerDecode(w) \/ WorkerFinish(w) \/ WorkerEnd(w)
  BY <1>2, <1>3 DEF WorkerTake, WorkerDecode, WorkerFinish, WorkerEnd
<1>4. CASE WorkerEvent(w) \/ WorkerConsumed(w) \/ WorkerUpserted(w)
  <2>1. PICK c, events : c = ConnOf(w) /\ events = worker[w].events
    OBVIOUS
  <2>2. /\ worker[w].at \in Beyond /\ events # <<>> /\ events \in Seq(EventNames)
        /\ \/ UNCHANGED actorVars
           \/ \E op \in {"consume", "upsert"} :
                /\ Head(events) = "register" /\ UNCHANGED <<writing, wrote>>
                /\ writes' = Append(writes, Write(op, c))
                /\ worker[w].at = "events" \/ (worker[w].at = "consume" /\ op = "upsert")
    BY <1>1, <1>4, <2>1, HandleEvents
  <2>3. ASSUME NEW op \in {"consume", "upsert"},
               Head(events) = "register", UNCHANGED <<writing, wrote>>,
               writes' = Append(writes, Write(op, c)),
               worker[w].at = "events" \/ (worker[w].at = "consume" /\ op = "upsert")
        PROVE  [Actor!Next]_(Actor!vars)
    <3>1. c \in Connections /\ Write(op, c) \in Writes
      <4>1. worker[w].job \in Jobs
        BY <1>1, <2>2 DEF Types, Busy, Beyond
      <4>2. c \in Connections
        BY <2>1, <4>1 DEF ConnOf, Jobs
      <4> QED BY <4>2, WriteNames
    <3>2. Holds(w, c) /\ In(events, "register")
      <4>1. 1 \in 1..Len(events) /\ Head(events) = events[1]
        BY <2>2
      <4> QED BY <2>1, <2>2, <2>3, <4>1 DEF Holds, Beyond, In
    <3>3. ~Spent(op, c)
      <4>1. RegisterOK(c)
        BY <3>1 DEF Decoding
      <4>2. /\ worker[w].at = "events" /\ In(worker[w].events, "register") =>
                 ~Spent("consume", c) /\ ~Spent("upsert", c)
            /\ worker[w].at = "consume" => ~Spent("upsert", c)
        BY <3>2, <4>1 DEF RegisterOK
      <4> QED BY <2>1, <2>3, <3>2, <4>2
    <3>4. ~ActorStopping
      <4>1. worker[w].at # "ended"
        BY <2>2 DEF Beyond
      <4> QED BY <1>1, <4>1 DEF StopOK
    <3> QED BY <1>1, <2>3, <3>1, <3>3, <3>4, ActorSubmits DEF Spent
  <2> QED BY <1>2, <2>2, <2>3
<1> QED BY <1>3, <1>4 DEF WorkerStep

(* The end of a session: its offline mark is new.                           *)
LEMMA CloseActor ==
  ASSUME Basics, Stops, Leavings, NEW c \in Connections,
         OnEof(c) \/ (OnStop(c) /\ phase[c] # "closed")
  PROVE  [Actor!Next]_(Actor!vars)
<1>1. Types
  BY DEF Basics
<1>2. PICK still \in BOOLEAN, rest \in Seq(Handlers) :
        Close(c, still, rest) /\ ~IoStopped /\ stopper' = stopper /\ phase[c] # "closed"
  <2>1. \A p : p = "open" => p # "closed"
    OBVIOUS
  <2> QED BY <1>1, <2>1, CloseSteps
<1>3. /\ writes' = writes \/ writes' = Append(writes, Write("offline", c))
      /\ UNCHANGED <<writing, wrote>>
  BY <1>1, <1>2, CloseEffect
<1>4. CASE writes' = writes
  BY <1>2, <1>3, <1>4, ActorUntouched DEF actorVars
<1>5. CASE writes' = Append(writes, Write("offline", c))
  <2>1. Write("offline", c) \in Writes
    BY WriteNames
  <2>2. ~Due(Write("offline", c))
    BY <1>2 DEF Stops, MarkOK
  <2>3. wrote[Write("offline", c)] = ""
    BY <1>2 DEF Leavings
  <2>4. ~ActorStopping
    BY <1>1, <1>2, StopOrder DEF Types
  <2> QED BY <1>1, <1>2, <1>3, <1>5, <2>1, <2>2, <2>3, <2>4, ActorSubmits
<1> QED BY <1>3, <1>4, <1>5

(* The steps of the actor itself.                                           *)
LEMMA OwnActor ==
  ASSUME Basics, Basics', Registered, Leavings, ActorTake \/ ActorRun
  PROVE  [Actor!Next]_(Actor!vars)
<1>1. Types /\ Types'
  BY DEF Basics
<1>2. stopper' = stopper /\ ActorStopping' = ActorStopping
      /\ EndedActor' = EndedActor /\ WritesRefused = {} /\ WritesRefused' = {}
  <2>1. stopper' = stopper
    BY DEF ActorTake, ActorRun
  <2>2. WritesRefused = {}
    BY <1>1, NoneRefused
  <2>3. WritesRefused' = {}
    <3>1. wrote' \in [Writes -> {"", "ok", "rejected", "failed"}]
      BY <1>1 DEF Types
    <3>2. \A j \in Writes : wrote'[j] # "stopped"
      BY <3>1
    <3> QED BY <3>2 DEF WritesRefused
  <2> QED BY <2>1, <2>2, <2>3 DEF ActorStopping, Reached, EndedActor
<1>3. CASE ActorTake
  <2>1. writing = {} /\ writes # <<>> /\ writing' = {Head(writes)} /\ writes' = Tail(writes)
        /\ wrote' = wrote
    BY <1>3 DEF ActorTake
  <2>2. "actor" \notin EndedActor
    BY <2>1 DEF EndedActor, Leavings
  <2>3. WritingActor["actor"] = {} /\ WritesDone' = WritesDone
    BY <2>1 DEF WritingActor, WritesDone
  <2>4. WritingActor' = [WritingActor EXCEPT !["actor"] = {Head(writes)}]
    BY <2>1 DEF WritingActor
  <2>5. Actor!Take("actor")
    BY <1>2, <2>1, <2>2, <2>3, <2>4
       DEF Actor!Take, WritingActor, WritesDone, WritesRefused, EndedActor
  <2> QED BY <2>5 DEF Actor!Next
<1>4. CASE ActorRun
  <2>1. PICK j \in writing : /\ writing' = {} /\ writes' = writes /\ wrote'[j] \in {"ok", "rejected", "failed"}
                             /\ \A i \in Writes \ {j} : wrote'[i] = wrote[i]
    BY <1>1, <1>4, RunEffect
  <2>2. writing = {j} /\ j \in Writes
    <3>1. \A i, k \in writing : i = k
      BY DEF Registered, OneWriting
    <3>2. writing \subseteq Writes
      BY <1>1 DEF Types
    <3> QED BY <2>1, <3>1, <3>2
  <2>3. WritesDone' = WritesDone \cup {j}
    BY <2>1, <2>2 DEF WritesDone
  <2>4. WritingActor["actor"] = {j}
    BY <2>2 DEF WritingActor
  <2>5. WritingActor' = [WritingActor EXCEPT !["actor"] = {}]
    BY <2>1 DEF WritingActor
  <2>6. {j} # {}
    OBVIOUS
  <2>7. Actor!Finish("actor")
    BY <1>2, <2>1, <2>3, <2>4, <2>5, <2>6
       DEF Actor!Finish, WritingActor, WritesDone, WritesRefused, EndedActor
  <2> QED BY <2>7 DEF Actor!Next
<1> QED BY <1>3, <1>4

(* The steps of Stop.                                                       *)
LEMMA StopActor ==
  ASSUME Basics, Basics', StopBegin \/ StopThread \/ ActorEnd
  PROVE  [Actor!Next]_(Actor!vars)
<1>1. Types /\ Types' /\ UNCHANGED <<writes, writing, wrote>>
  BY DEF Basics, StopBegin, StopThread, StopSessions, StopPool, StopDatabase, ActorEnd, actorVars
<1>2. /\ ActorStopping <=> stopper.at \in {"db", "stopped"}
      /\ ActorStopping' <=> stopper'.at \in {"db", "stopped"}
  BY <1>1, Points, StopOrderNext DEF PointsOK
<1>3. UNCHANGED <<WritingActor, WritesDone, WritesRefused>>
  BY <1>1 DEF WritingActor, WritesDone, WritesRefused
<1>4. \/ stopper.at = "running" /\ stopper'.at = "closing"
      \/ stopper.at = "closing" /\ stopper'.at = "waiting"
      \/ stopper.at = "waiting" /\ stopper'.at = "pool"
      \/ StopDatabase /\ stopper.at = "pool" /\ stopper'.at = "db"
      \/ ActorEnd /\ stopper.at = "db" /\ stopper'.at = "stopped"
  BY <1>1, StopEffect DEF StopBegin, StopThread, StopSessions, StopPool,
     StopDatabase, ActorEnd
<1>5. CASE /\ stopper.at \in {"running", "closing", "waiting"}
           /\ stopper'.at \in {"closing", "waiting", "pool"}
  <2>1. ActorStopping' = ActorStopping
    <3>1. ~ActorStopping /\ ~ActorStopping'
      BY <1>2, <1>5
    <3> QED BY <3>1 DEF ActorStopping, Reached
  <2>2. EndedActor' = EndedActor
    BY <1>5 DEF EndedActor
  <2> QED BY <1>1, <1>3, <2>1, <2>2, ActorStutter DEF ActorStutters
<1>6. CASE StopDatabase /\ stopper.at = "pool" /\ stopper'.at = "db"
  <2>1. ~ActorStopping /\ ActorStopping' = TRUE
    BY <1>2, <1>6 DEF ActorStopping, Reached
  <2>2. EndedActor' = EndedActor
    BY <1>6 DEF EndedActor
  <2>3. Actor!Stop
    BY <1>1, <1>3, <2>1, <2>2
       DEF Actor!Stop, WritingActor, WritesDone, WritesRefused, EndedActor
  <2> QED BY <2>3 DEF Actor!Next
<1>7. CASE ActorEnd /\ stopper.at = "db" /\ stopper'.at = "stopped"
  <2>1. ActorStopping /\ ActorStopping' = ActorStopping
    BY <1>2, <1>7 DEF ActorStopping, Reached
  <2>2. EndedActor = {} /\ EndedActor' = {"actor"}
    BY <1>7 DEF EndedActor
  <2>3. writing = {} /\ writes = <<>>
    BY <1>7 DEF ActorEnd
  <2>4. WritingActor["actor"] = {}
    BY <2>3 DEF WritingActor
  <2>5. EndedActor' = EndedActor \cup {"actor"} /\ "actor" \notin EndedActor
    BY <2>2
  <2>6. Actor!End("actor")
    BY <1>1, <1>3, <2>1, <2>3, <2>4, <2>5
       DEF Actor!End, WritingActor, WritesDone, WritesRefused, EndedActor
  <2> QED BY <2>6 DEF Actor!Next
<1> QED BY <1>4, <1>5, <1>6, <1>7

(* Every step is one of the work queue, or none.                            *)
LEMMA ActorStep ==
  /\ Basics /\ Basics' /\ Registered /\ Stops /\ Decoding /\ Leavings /\ [Next]_vars
  => [Actor!Next]_(Actor!vars)
<1> SUFFICES ASSUME Basics, Basics', Registered, Stops, Decoding, Leavings, [Next]_vars
             PROVE  [Actor!Next]_(Actor!vars)
  OBVIOUS
<1>1. ASSUME NEW c \in Connections,
             \/ Connect(c) \/ CompleteAccept(c) \/ Accept(c) \/ OnData(c) \/ OnPieceDone(c)
             \/ OnMarked(c)
             \/ OnAborted(c) \/ (OnStop(c) /\ phase[c] = "closed")
      PROVE  [Actor!Next]_(Actor!vars)
  <2>1. UNCHANGED actorVars
    BY <1>1 DEF Connect, CompleteAccept, Accept, OnData, OnPieceDone, OnMarked, OnAborted, OnStop
  <2>2. stopper'.at = stopper.at
    <3>1. CASE OnData(c)
      BY <3>1, DataEffect
    <3>2. CASE ~OnData(c)
      BY <1>1, <3>2 DEF Connect, CompleteAccept, Accept, OnPieceDone, OnMarked, OnAborted, OnStop
    <3> QED BY <3>1, <3>2
  <2> QED BY <2>1, <2>2, ActorUntouched
<1>2. ASSUME NEW c \in Connections, OnEof(c) \/ (OnStop(c) /\ phase[c] # "closed")
      PROVE  [Actor!Next]_(Actor!vars)
  BY <1>2, CloseActor
<1>3. ASSUME NEW w \in Workers, WorkerStep(w)
      PROVE  [Actor!Next]_(Actor!vars)
  BY <1>3, WorkerActor
<1>4. CASE ActorTake \/ ActorRun
  BY <1>4, OwnActor
<1>5. CASE StopBegin \/ StopThread \/ ActorEnd
  BY <1>5, StopActor
<1>6. CASE Revoke \/ CloseAcceptor \/ UNCHANGED vars
  <2>1. UNCHANGED <<actorVars, stopper>>
    BY <1>6 DEF Revoke, CloseAcceptor, vars
  <2> QED BY <2>1, ActorUntouched
<1> QED BY <1>1, <1>2, <1>3, <1>4, <1>5, <1>6 DEF Next, OnPosted

(* The write actor keeps the promise of a work queue, for any number of     *)
(* sessions and threads: the token's uses, the rows of the agents and the   *)
(* offline marks that are handed in are each written once, in their order,  *)
(* before the join of ServerDatabase::Stop, and none comes too late to it.  *)
THEOREM ActorIsImplemented == Spec => ActorSpec
<1>1. Init => Actor!Init
  <2> SUFFICES ASSUME Init PROVE Actor!Init
    OBVIOUS
  <2>1. /\ writes = <<>> /\ writing = {} /\ wrote = [j \in Writes |-> ""]
        /\ stopper.at = "running"
    BY DEF Init
  <2>2. WritingActor = [w \in {"actor"} |-> {}] /\ EndedActor = {}
    BY <2>1 DEF WritingActor, EndedActor
  <2>3. WritesDone = {} /\ WritesRefused = {}
    <3>1. \A j \in Writes : wrote[j] = ""
      BY <2>1
    <3> QED BY <3>1 DEF WritesDone, WritesRefused
  <2>4. ActorStopping = FALSE
    <3>1. Types
      BY BasicsInit DEF Basics
    <3>2. ~ActorStopping
      BY <2>1, <3>1, Points DEF PointsOK
    <3> QED BY <3>2 DEF ActorStopping, Reached
  <2> QED BY <2>1, <2>2, <2>3, <2>4
     DEF Actor!Init, WritingActor, WritesDone, WritesRefused, EndedActor
<1> QED BY <1>1, ActorStep, ServerInvariant, PTL DEF Spec, ActorSpec, Actor!Spec

----------------------------------------------------------------------------
(* The theorems of WorkQueue, of the worker pool and of the write actor.   *)

PoolProofs == INSTANCE WorkQueue_proofs WITH
  Threads <- Workers,
  queue <- tasks,
  running <- [w \in Workers |-> IF worker[w].at \in {"idle", "ended"} THEN {}
                                ELSE {worker[w].job}],
  finished <- ran,
  refused <- poolRefused,
  ended <- {w \in Workers : worker[w].at = "ended"},
  stopping <- PoolStopping

(* The worker pool, under either name. *)
LEMMA SamePool ==
  /\ PoolProofs!Init <=> Pool!Init
  /\ [PoolProofs!Next]_(PoolProofs!vars) <=> [Pool!Next]_(Pool!vars)
  /\ PoolProofs!RunOnce <=> Pool!RunOnce
  /\ PoolProofs!NothingLeft <=> Pool!NothingLeft
<1>1. \A f : PoolProofs!Range(f) = Pool!Range(f)
  BY DEF PoolProofs!Range, Pool!Range
<1>2. PoolProofs!Submitted = Pool!Submitted
  BY <1>1 DEF PoolProofs!Submitted, Pool!Submitted
<1>3. PoolProofs!Next <=> Pool!Next
  BY <1>2, Zenon DEF PoolProofs!Next, Pool!Next, PoolProofs!Submit, Pool!Submit,
     PoolProofs!Take, Pool!Take, PoolProofs!Finish, Pool!Finish,
     PoolProofs!End, Pool!End, PoolProofs!Stop, Pool!Stop
<1>4. PoolProofs!Init <=> Pool!Init
  BY Zenon DEF PoolProofs!Init, Pool!Init
<1>5. PoolProofs!vars = Pool!vars /\ (PoolProofs!vars)' = (Pool!vars)'
  BY Zenon DEF PoolProofs!vars, Pool!vars
<1>6. PoolProofs!RunOnce <=> Pool!RunOnce
  BY <1>1, Zenon DEF PoolProofs!RunOnce, Pool!RunOnce
<1>7. PoolProofs!NothingLeft <=> Pool!NothingLeft
  BY <1>2, Zenon DEF PoolProofs!NothingLeft, Pool!NothingLeft
<1> QED BY <1>3, <1>4, <1>5, <1>6, <1>7, Zenon

ActorProofs == INSTANCE WorkQueue_proofs WITH
  Threads <- {"actor"},
  Jobs <- Writes,
  queue <- writes,
  running <- [x \in {"actor"} |-> writing],
  finished <- {j \in Writes : wrote[j] \in {"ok", "rejected", "failed"}},
  refused <- {j \in Writes : wrote[j] = "stopped"},
  ended <- IF stopper.at = "stopped" THEN {"actor"} ELSE {},
  stopping <- ActorStopping

(* The write actor, under either name. *)
LEMMA SameActor ==
  /\ ActorProofs!Init <=> Actor!Init
  /\ [ActorProofs!Next]_(ActorProofs!vars) <=> [Actor!Next]_(Actor!vars)
  /\ ActorProofs!RunOnce <=> Actor!RunOnce
  /\ ActorProofs!NothingLeft <=> Actor!NothingLeft
<1>1. \A f : ActorProofs!Range(f) = Actor!Range(f)
  BY DEF ActorProofs!Range, Actor!Range
<1>2. ActorProofs!Submitted = Actor!Submitted
  BY <1>1 DEF ActorProofs!Submitted, Actor!Submitted
<1>3. ActorProofs!Next <=> Actor!Next
  BY <1>2, Zenon DEF ActorProofs!Next, Actor!Next, ActorProofs!Submit, Actor!Submit,
     ActorProofs!Take, Actor!Take, ActorProofs!Finish, Actor!Finish,
     ActorProofs!End, Actor!End, ActorProofs!Stop, Actor!Stop
<1>4. ActorProofs!Init <=> Actor!Init
  BY Zenon DEF ActorProofs!Init, Actor!Init
<1>5. ActorProofs!vars = Actor!vars /\ (ActorProofs!vars)' = (Actor!vars)'
  BY Zenon DEF ActorProofs!vars, Actor!vars
<1>6. ActorProofs!RunOnce <=> Actor!RunOnce
  BY <1>1, Zenon DEF ActorProofs!RunOnce, Actor!RunOnce
<1>7. ActorProofs!NothingLeft <=> Actor!NothingLeft
  BY <1>2, Zenon DEF ActorProofs!NothingLeft, Actor!NothingLeft
<1> QED BY <1>3, <1>4, <1>5, <1>6, <1>7, Zenon

(* Both queues of the server run a job once, and when their threads have   *)
(* returned (the joins of ControlServer::Stop and ServerDatabase::Stop)    *)
(* every job handed in was finished or refused.                            *)
THEOREM QueuesHold ==
  Spec => [](/\ Pool!RunOnce /\ Pool!NothingLeft
             /\ Actor!RunOnce /\ Actor!NothingLeft)
<1>1. PoolProofs!Spec => [](PoolProofs!RunOnce /\ PoolProofs!NothingLeft)
  BY PoolProofs!RunOnceHolds, PoolProofs!NothingLeftHolds, PTL
<1>2. ActorProofs!Spec => [](ActorProofs!RunOnce /\ ActorProofs!NothingLeft)
  BY ActorProofs!RunOnceHolds, ActorProofs!NothingLeftHolds, PTL
<1>3. Spec => PoolProofs!Spec
  BY PoolIsImplemented, SamePool, PTL DEF PoolSpec, Pool!Spec, PoolProofs!Spec
<1>4. Spec => ActorProofs!Spec
  BY ActorIsImplemented, SameActor, PTL DEF ActorSpec, Actor!Spec, ActorProofs!Spec
<1> QED BY <1>1, <1>2, <1>3, <1>4, SamePool, SameActor, PTL
=============================================================================
