---------------------------- MODULE FramingProofs ----------------------------
(***************************************************************************)
(* Proofs about Framing, for any bodies, noise and cuts of the bytes: the  *)
(* session keeps every step of the promise of MessageChannel, and closes   *)
(* on nobody who keeps to the protocol.                                    *)
(***************************************************************************)
EXTENDS Framing, SequenceTheorems, WellFoundedInduction, TLAPS

-----------------------------------------------------------------------------
(* Least elements, and numbers of digits.                                  *)

\* A set of naturals that is not empty has a least element.
LEMMA LeastOfSet ==
    ASSUME NEW S, S \subseteq Nat, S # {}
    PROVE  \E m \in S : \A j \in S : m <= j
  <1> DEFINE R == {ss \in Nat \X Nat : ss[1] < ss[2]}
  <1>1. IsWellFoundedOn(R, Nat)
    BY NatLessThanWellFounded DEF OpToRel
  <1>2. PICK m \in S : \A j \in S : ~(<<j, m>> \in R)
    <2> HIDE DEF R
    <2>1. QED
      BY <1>1, WFMin
  <1>3. ASSUME NEW j \in S PROVE m <= j
    <2>1. j \in Nat /\ m \in Nat
      OBVIOUS
    <2>2. <<j, m>> \in Nat \X Nat /\ <<j, m>>[1] = j /\ <<j, m>>[2] = m
      BY <2>1
    <2>3. ~(j < m)
      BY <1>2, <2>2
    <2>4. QED
      BY <2>1, <2>3
  <1>4. QED
    BY <1>3

\* What holds of 0 and goes from each number to the next holds up to n.
LEMMA Steps ==
    ASSUME NEW n \in Nat, NEW S, 0 \in S, \A i \in 0..n : i < n /\ i \in S => i + 1 \in S
    PROVE  n \in S
  <1> SUFFICES ASSUME n \notin S PROVE FALSE
    OBVIOUS
  <1> DEFINE Missing == {i \in 0..n : i \notin S}
  <1>1. Missing \subseteq Nat /\ Missing # {}
    OBVIOUS
  <1>2. PICK m \in Missing : \A j \in Missing : m <= j
    BY <1>1, LeastOfSet
  <1>3. m \in 1..n
    OBVIOUS
  <1>4. m - 1 \in 0..n /\ m - 1 \notin Missing
    BY <1>2, <1>3
  <1>5. m - 1 \in S
    BY <1>4
  <1>6. (m - 1) + 1 \in S
    BY <1>3, <1>4, <1>5
  <1>7. QED
    BY <1>3, <1>6

\* The value of digits one by one.
LEMMA NumberOfDigits ==
    ASSUME NEW digits \in Seq(0..9)
    PROVE  \E f \in [0..Len(digits) -> Nat] :
             /\ Number(digits) = f[Len(digits)]
             /\ f[0] = 0
             /\ \A n \in 1..Len(digits) : f[n] = 10 * f[n - 1] + digits[n]
  <1> DEFINE N == Len(digits)
  <1> DEFINE Adds(f, n) == f[0] = 0 /\ \A i \in 1..n : f[i] = 10 * f[i - 1] + digits[i]
  <1> DEFINE UpTo(f) == [n \in 0..N |-> IF n = 0 THEN 0 ELSE 10 * f[n - 1] + digits[n]]
  <1>1. N \in Nat /\ \A n \in 1..N : digits[n] \in Nat
    OBVIOUS
  <1>2. \E f \in [0..N -> Nat] : Adds(f, N)
    <2> DEFINE S == {n \in 0..N : \E f \in [0..n -> Nat] : Adds(f, n)}
    <2>1. 0 \in S
      <3>1. [i \in 0..0 |-> 0] \in [0..0 -> Nat] /\ Adds([i \in 0..0 |-> 0], 0)
        OBVIOUS
      <3>2. 0 \in 0..N
        BY <1>1
      <3>3. \E f \in [0..0 -> Nat] : Adds(f, 0)
        <4> HIDE DEF Adds
        <4>1. QED
          BY <3>1
      <3>4. QED
        BY <3>2, <3>3
    <2>2. ASSUME NEW n \in 0..N, n < N, n \in S PROVE n + 1 \in S
      <3>1. PICK f \in [0..n -> Nat] : Adds(f, n)
        BY <2>2
      <3> DEFINE g == [i \in 0..(n + 1) |-> IF i = n + 1 THEN 10 * f[n] + digits[n + 1] ELSE f[i]]
      <3>2. 10 * f[n] + digits[n + 1] \in Nat
        <4>1. n \in 0..n /\ n + 1 \in 1..N
          BY <1>1, <2>2
        <4>2. f[n] \in Nat /\ digits[n + 1] \in Nat
          BY <1>1, <4>1
        <4>3. QED
          BY <4>2
      <3>3. g \in [0..(n + 1) -> Nat]
        BY <3>2
      <3>4. Adds(g, n + 1)
        <4>1. g[0] = 0
          BY <3>1, <1>1
        <4>2. ASSUME NEW i \in 1..(n + 1) PROVE g[i] = 10 * g[i - 1] + digits[i]
          <5>1. CASE i = n + 1
            BY <5>1, <1>1
          <5>2. CASE i # n + 1
            <6>1. i \in 1..n
              BY <5>2, <1>1
            <6>2. g[i] = f[i] /\ g[i - 1] = f[i - 1]
              BY <6>1, <5>2
            <6>3. QED
              BY <6>1, <6>2, <3>1
          <5>3. QED
            BY <5>1, <5>2
        <4>3. QED
          BY <4>1, <4>2
      <3>5. n + 1 \in 0..N
        BY <2>2, <1>1
      <3>6. QED
        BY <3>3, <3>4, <3>5
    <2>3. N \in S
      <3> HIDE DEF S
      <3>1. QED
        BY <1>1, <2>1, <2>2, Steps
    <2>4. QED
      BY <2>3
  <1>3. \E f : f = UpTo(f)
    <2>1. PICK f \in [0..N -> Nat] : Adds(f, N)
      BY <1>2
    <2>2. ASSUME NEW n \in 0..N PROVE f[n] = UpTo(f)[n]
      <3>1. CASE n = 0
        BY <2>1, <3>1
      <3>2. CASE n # 0
        BY <2>1, <3>2, n \in 1..N
      <3>3. QED
        BY <3>1, <3>2
    <2>3. QED
      BY <2>2
  <1> DEFINE F == CHOOSE f : f = UpTo(f)
  <1>4. F = UpTo(F)
    <2> HIDE DEF UpTo
    <2>1. QED
      BY <1>3
  <1>5. Number(digits) = F[N]
    BY DEF Number
  <1> HIDE DEF F
  <1>6. Adds(F, N)
    <2>1. F[0] = UpTo(F)[0]
      BY <1>4
    <2>2. ASSUME NEW n \in 1..N PROVE F[n] = 10 * F[n - 1] + digits[n]
      <3>1. F[n] = UpTo(F)[n]
        BY <1>4
      <3>2. n \in 0..N /\ n # 0
        BY <1>1
      <3>3. QED
        BY <3>1, <3>2
    <2>3. QED
      BY <1>1, <2>1, <2>2
  <1>7. ASSUME NEW n \in 0..N PROVE F[n] \in Nat
    <2> DEFINE S == {i \in 0..N : F[i] \in Nat}
    <2>1. 0 \in S
      BY <1>1, <1>6
    <2>2. ASSUME NEW i \in 0..n, i < n, i \in S PROVE i + 1 \in S
      <3>1. i + 1 \in 1..N /\ (i + 1) - 1 = i
        BY <1>1, <2>2
      <3>2. F[i + 1] = 10 * F[i] + digits[i + 1]
        BY <1>6, <3>1
      <3>3. F[i + 1] \in Nat
        BY <1>1, <2>2, <3>1, <3>2
      <3>4. QED
        BY <3>1, <3>3
    <2>3. n \in S
      <3> HIDE DEF S
      <3>1. QED
        BY <1>1, <2>1, <2>2, Steps
    <2>4. QED
      BY <2>3
  <1>8. F \in [0..N -> Nat]
    <2>1. DOMAIN F = 0..N /\ F = [n \in 0..N |-> F[n]]
      BY <1>4
    <2>2. QED
      BY <2>1, <1>7
  <1>9. QED
    BY <1>5, <1>6, <1>8

-----------------------------------------------------------------------------
(* Headers.                                                                *)

\* Min of FiniteSetsExt picks that least element.
LEMMA LeastIsMin ==
    ASSUME NEW S, S \subseteq Nat, S # {}
    PROVE  Min(S) \in S /\ \A j \in S : Min(S) <= j
  <1>1. \E m \in S : \A j \in S : m <= j
    BY LeastOfSet
  <1>2. QED
    BY <1>1 DEF Min

\* Where async_read_until stops.
LEMMA HashIsFirst ==
    ASSUME buffer \in Seq(Byte)
    PROVE  /\ HashAt \in 0..Len(buffer)
           /\ HashAt # 0 => buffer[HashAt] = Hash
           /\ \A i \in 1..Len(buffer) : buffer[i] = Hash => HashAt # 0 /\ HashAt <= i
  <1> DEFINE S == {i \in 1..Len(buffer) : buffer[i] = Hash}
  <1>1. S \subseteq Nat /\ Len(buffer) \in Nat
    OBVIOUS
  <1>2. HashAt = IF S # {} THEN Min(S) ELSE 0
    BY DEF HashAt, SelectInSeq
  <1>3. CASE S = {}
    BY <1>1, <1>2, <1>3
  <1>4. CASE S # {}
    <2>1. Min(S) \in S /\ \A j \in S : Min(S) <= j
      BY <1>1, <1>4, LeastIsMin
    <2> DEFINE m == Min(S)
    <2>2. HashAt = m
      BY <1>2, <1>4
    <2>3. m \in 1..Len(buffer) /\ buffer[m] = Hash
      BY <2>1
    <2>4. \A i \in 1..Len(buffer) : buffer[i] = Hash => m <= i
      BY <2>1
    <2> HIDE DEF m
    <2>5. QED
      BY <1>1, <2>2, <2>3, <2>4
  <1>5. QED
    BY <1>3, <1>4

\* Of a header that begins with a digit the digits count.
LEMMA LengthOfHeader ==
    ASSUME NEW header \in Seq(Byte), IsLength(header)
    PROVE  LengthOf(header) \in Nat
  <1> DEFINE S == {i \in 1..Len(header) : header[i] >= 10}
             end == IF S # {} THEN Min(S) ELSE 0
             digits == IF end = 0 THEN header ELSE SubSeq(header, 1, end - 1)
  <1>1. Len(header) \in Nat /\ \A i \in 1..Len(header) : header[i] \in 0..11
    BY DEF Byte
  <1>2. LengthOf(header) = Number(digits)
    BY DEF LengthOf, SelectInSeq
  <1>3. digits \in Seq(0..9)
    <2>1. CASE S = {}
      <3>1. \A i \in 1..Len(header) : header[i] \in 0..9
        BY <1>1, <2>1
      <3>2. header \in Seq(0..9)
        BY <3>1, SeqDef
      <3>3. QED
        BY <2>1, <3>2
    <2>2. CASE S # {}
      <3>1. Min(S) \in S /\ \A j \in S : Min(S) <= j
        BY <2>2, LeastIsMin, S \subseteq Nat
      <3> DEFINE m == Min(S)
      <3>2. m \in 1..Len(header) /\ \A i \in S : m <= i
        BY <3>1
      <3>3. ASSUME NEW i \in 1..(m - 1) PROVE header[i] \in 0..9
        <4>1. i \in 1..Len(header) /\ i \notin S
          <5> HIDE DEF m, S
          <5>1. QED
            BY <1>1, <3>2
        <4>2. QED
          BY <1>1, <4>1
      <3>4. digits = SubSeq(header, 1, m - 1)
        <4>1. m # 0
          BY <1>1, <3>2
        <4> HIDE DEF S
        <4>2. end = m
          BY <2>2
        <4> HIDE DEF end, m
        <4>3. QED
          BY <4>1, <4>2
      <3> HIDE DEF m, S
      <3>5. SubSeq(header, 1, m - 1) \in Seq(0..9)
        <4>1. 1 \in Int /\ m - 1 \in Int
          BY <1>1, <3>2
        <4>2. QED
          BY <3>3, <4>1, SubSeqProperties
      <3>6. QED
        BY <3>4, <3>5
    <2>3. QED
      BY <2>1, <2>2
  <1>4. QED
    <2> HIDE DEF digits
    <2>1. PICK f \in [0..Len(digits) -> Nat] : Number(digits) = f[Len(digits)]
      BY <1>3, NumberOfDigits
    <2>2. QED
      BY <1>2, <1>3, <2>1

\* The client's header says the length of its body.
LEMMA LengthOfDigits ==
    ASSUME NEW n \in 0..99
    PROVE  /\ LengthDigits(n) \in Seq(0..9)
           /\ Len(LengthDigits(n)) \in 1..2
           /\ IsLength(LengthDigits(n))
           /\ LengthOf(LengthDigits(n)) = n
  <1> DEFINE d == LengthDigits(n)
  <1>1. d \in Seq(0..9) /\ Len(d) \in 1..2
        /\ IF n < 10 THEN Len(d) = 1 /\ d[1] = n
                     ELSE Len(d) = 2 /\ 10 * d[1] + d[2] = n
    <2>1. CASE n < 10
      BY <2>1 DEF LengthDigits
    <2>2. CASE n >= 10
      <3>1. n \div 10 \in 0..9 /\ n % 10 \in 0..9 /\ 10 * (n \div 10) + (n % 10) = n
        BY <2>2
      <3>2. d = <<n \div 10, n % 10>>
        BY <2>2 DEF LengthDigits
      <3>3. QED
        BY <2>2, <3>1, <3>2
    <2>3. QED
      BY <2>1, <2>2
  <1> HIDE DEF d
  <1>2. IsLength(d)
    BY <1>1 DEF IsLength
  <1>3. LengthOf(d) = Number(d)
    <2>1. {i \in 1..Len(d) : d[i] >= 10} = {}
      BY <1>1
    <2>2. QED
      BY <2>1 DEF LengthOf, SelectInSeq
  <1>4. PICK f \in [0..Len(d) -> Nat] :
          /\ Number(d) = f[Len(d)]
          /\ f[0] = 0
          /\ \A i \in 1..Len(d) : f[i] = 10 * f[i - 1] + d[i]
    BY <1>1, NumberOfDigits
  <1>5. Number(d) = n
    <2>1. f[1] = 10 * f[1 - 1] + d[1] /\ d[1] \in 0..9
      BY <1>1, <1>4
    <2>2. f[1] = d[1]
      BY <1>4, <2>1
    <2>3. CASE n < 10
      BY <1>1, <1>4, <2>2, <2>3
    <2>4. CASE n >= 10
      <3>1. f[2] = 10 * f[2 - 1] + d[2]
        BY <1>1, <1>4, <2>4
      <3>2. QED
        BY <1>1, <1>4, <2>2, <2>4, <3>1
    <2>5. QED
      BY <2>3, <2>4
  <1>6. QED
    BY <1>1, <1>2, <1>3, <1>5 DEF d

\* The digits in front of a body are bytes.
LEMMA FrameDigits ==
    ASSUME NEW body \in Bodies
    PROVE  LengthDigits(Len(body)) \in Seq(Byte)
  <1> DEFINE d == LengthDigits(Len(body))
  <1>1. Len(body) \in 0..99
    <2>1. body \in Seq(Byte) /\ Len(body) < 100
      BY FramingAssumption
    <2>2. Len(body) \in Nat
      BY <2>1, LenProperties
    <2>3. \A n \in Nat : n < 100 => n \in 0..99
      OBVIOUS
    <2>4. QED
      BY <2>1, <2>2, <2>3
  <1>2. d \in Seq(0..9)
    BY <1>1, LengthOfDigits
  <1>3. 0..9 \subseteq Byte
    BY DEF Byte
  <1>4. QED
    BY <1>2, <1>3, SeqMonotonic

\* The parts of a frame.
LEMMA FrameParts ==
    ASSUME NEW body \in Bodies
    PROVE  /\ body \in Seq(Byte) /\ Len(body) \in 0..99
           /\ LengthDigits(Len(body)) \in Seq(0..9)
           /\ Len(LengthDigits(Len(body))) \in 1..2
           /\ Frame(body) \in Seq(Byte)
           /\ Len(Frame(body)) = Len(LengthDigits(Len(body))) + 1 + Len(body)
           /\ \A j \in 1..Len(LengthDigits(Len(body))) :
                Frame(body)[j] = LengthDigits(Len(body))[j]
           /\ Frame(body)[Len(LengthDigits(Len(body))) + 1] = Hash
           /\ \A j \in 1..Len(body) :
                Frame(body)[Len(LengthDigits(Len(body))) + 1 + j] = body[j]
  <1> DEFINE d == LengthDigits(Len(body))
  <1>1. body \in Seq(Byte) /\ Len(body) \in 0..99
    <2>1. body \in Seq(Byte) /\ Len(body) < 100
      BY FramingAssumption
    <2>2. Len(body) \in Nat
      BY <2>1, LenProperties
    <2>3. \A n \in Nat : n < 100 => n \in 0..99
      OBVIOUS
    <2>4. QED
      BY <2>1, <2>2, <2>3
  <1>2. d \in Seq(0..9) /\ Len(d) \in 1..2
    BY <1>1, LengthOfDigits
  <1>3. d \in Seq(Byte)
    BY FrameDigits
  <1>4. Frame(body) = (d \o <<Hash>>) \o body
    BY DEF Frame
  <1> HIDE DEF d
  <1>5. <<Hash>> \in Seq(Byte) /\ Len(<<Hash>>) = 1 /\ <<Hash>>[1] = Hash
    BY DEF Hash, Byte
  <1> DEFINE h == d \o <<Hash>>
  <1>6. /\ h \in Seq(Byte) /\ Len(h) = Len(d) + 1 /\ h[Len(d) + 1] = Hash
        /\ \A j \in 1..Len(d) : h[j] = d[j]
    BY <1>2, <1>3, <1>5
  <1> HIDE DEF h
  <1>7. /\ h \o body \in Seq(Byte) /\ Len(h \o body) = Len(h) + Len(body)
        /\ \A j \in 1..Len(h) : (h \o body)[j] = h[j]
        /\ \A j \in 1..Len(body) : (h \o body)[Len(h) + j] = body[j]
    BY <1>1, <1>2, <1>6
  <1>8. QED
    <2>1. Frame(body) = h \o body
      BY <1>4 DEF h
    <2>2. \A j \in 1..Len(d) : j \in 1..Len(h)
      BY <1>2, <1>6
    <2>3. Len(d) + 1 \in 1..Len(h)
      BY <1>2, <1>6
    <2>4. QED
      BY <1>1, <1>2, <1>6, <1>7, <2>1, <2>2, <2>3 DEF d

-----------------------------------------------------------------------------
(* Where the frames are among the bytes.                                   *)

\* Where the session still has something before it: the i-th message ends at
\* at[i], as far as the bytes go; at[k] is where the messages begin.
Frames(s, bodies, k, at) ==
    \A i \in (k + 1)..Len(bodies) :
        /\ at[i] = at[i - 1] + Len(Frame(bodies[i]))
        /\ at[i] <= at[Len(bodies)]
        /\ \A j \in 1..Len(Frame(bodies[i])) :
             at[i - 1] + j \in 1..Len(s) => s[at[i - 1] + j] = Frame(bodies[i])[j]

\* One more message is sent.
LEMMA FramesSent ==
    ASSUME NEW s \in Seq(Byte), NEW bodies \in Seq(Bodies), NEW k \in 0..Len(bodies),
           NEW at \in [Nat -> Int], Frames(s, bodies, k, at), at[Len(bodies)] = Len(s),
           NEW body \in Bodies
    PROVE  \E to \in [Nat -> Int] :
             /\ Frames(s \o Frame(body), Append(bodies, body), k, to)
             /\ to[k] = at[k]
             /\ to[Len(Append(bodies, body))] = Len(s \o Frame(body))
  <1> DEFINE n == Len(bodies)
             f == Frame(body)
             more == Append(bodies, body)
             to == [i \in Nat |-> IF i = n + 1 THEN Len(s) + Len(f) ELSE at[i]]
             t == s \o f
  <1>1. n \in Nat /\ k \in Nat /\ k <= n /\ Len(s) \in Nat
    OBVIOUS
  <1>2. f \in Seq(Byte) /\ Len(f) \in Nat
    BY FrameParts, LenProperties
  <1> HIDE DEF f
  <1>3. /\ Len(more) = n + 1 /\ more[n + 1] = body
        /\ \A i \in 1..n : more[i] = bodies[i] /\ bodies[i] \in Bodies
    OBVIOUS
  <1>4. /\ t \in Seq(Byte) /\ Len(t) = Len(s) + Len(f)
        /\ \A i \in 1..Len(s) : t[i] = s[i]
        /\ \A i \in 1..Len(f) : t[Len(s) + i] = f[i]
    BY <1>1, <1>2
  <1>5. to \in [Nat -> Int] /\ to[n + 1] = Len(s) + Len(f) /\ \A i \in 0..n : to[i] = at[i]
    BY <1>1, <1>2
  <1> HIDE DEF to, more, t
  <1>6. ASSUME NEW i \in (k + 1)..(n + 1)
        PROVE  /\ to[i] = to[i - 1] + Len(Frame(more[i]))
               /\ to[i] <= to[n + 1]
               /\ \A j \in 1..Len(Frame(more[i])) :
                    to[i - 1] + j \in 1..Len(t) => t[to[i - 1] + j] = Frame(more[i])[j]
    <2>1. CASE i = n + 1
      <3>1. more[i] = body /\ to[i] = Len(s) + Len(f) /\ to[i - 1] = Len(s)
        <4>1. i - 1 = n /\ n \in 0..n
          BY <1>1, <2>1
        <4>2. to[n] = at[n] /\ at[n] = Len(s)
          BY <1>5, <4>1
        <4>3. QED
          BY <1>3, <1>5, <2>1, <4>1, <4>2
      <3>2. QED
        BY <1>2, <1>4, <2>1, <3>1 DEF f
    <2>2. CASE i # n + 1
      <3>1. i \in (k + 1)..n /\ i \in 1..n /\ i - 1 \in 0..n /\ i \in 0..n
        BY <1>1, <2>2
      <3>2. more[i] = bodies[i] /\ to[i] = at[i] /\ to[i - 1] = at[i - 1]
        BY <1>3, <1>5, <3>1
      <3> DEFINE b == bodies[i]
      <3>3. Len(Frame(b)) \in Nat
        BY <1>3, <3>1, FrameParts, LenProperties
      <3>4. /\ at[i] = at[i - 1] + Len(Frame(b)) /\ at[i] <= Len(s)
            /\ \A j \in 1..Len(Frame(b)) :
                 at[i - 1] + j \in 1..Len(s) => s[at[i - 1] + j] = Frame(b)[j]
        BY <3>1 DEF Frames
      <3>5. at[i - 1] \in Int /\ at[i] \in Int
        BY <3>1
      <3> HIDE DEF b
      <3>6. ASSUME NEW j \in 1..Len(Frame(b)), at[i - 1] + j \in 1..Len(t)
            PROVE  t[at[i - 1] + j] = Frame(b)[j]
        <4>1. \A x, y, l, m \in Int : x + j \in 1..l /\ y = x + Len(Frame(b)) /\ y <= m => x + j \in 1..m
          BY <3>3
        <4>2. Len(t) \in Int /\ Len(s) \in Int
          BY <1>1, <1>2, <1>4
        <4>3. at[i - 1] + j \in 1..Len(s)
          BY <3>4, <3>5, <3>6, <4>1, <4>2
        <4>4. QED
          BY <1>4, <3>4, <4>3
      <3>7. at[i] <= to[n + 1]
        <4>1. \A x, l, m \in Int : x <= l /\ m >= 0 => x <= l + m
          OBVIOUS
        <4>2. Len(s) \in Int /\ Len(f) \in Int /\ Len(f) >= 0
          BY <1>1, <1>2
        <4>3. QED
          BY <1>5, <3>4, <3>5, <4>1, <4>2
      <3>8. QED
        BY <3>2, <3>4, <3>6, <3>7 DEF b
    <2>3. QED
      BY <2>1, <2>2
  <1>7. Frames(t, more, k, to)
    BY <1>3, <1>6 DEF Frames
  <1>8. to[k] = at[k] /\ to[Len(more)] = Len(t)
    BY <1>1, <1>3, <1>4, <1>5
  <1>9. QED
    BY <1>5, <1>7, <1>8 DEF t, more, f

\* More bytes behind the last message, or fewer bytes altogether.
LEMMA FramesKept ==
    ASSUME NEW s \in Seq(Byte), NEW t \in Seq(Byte), NEW bodies \in Seq(Bodies),
           NEW k \in 0..Len(bodies), NEW at \in [Nat -> Int], Frames(s, bodies, k, at),
           Len(t) <= Len(s) \/ at[Len(bodies)] <= Len(s),
           \A i \in 1..Len(s) : i <= Len(t) => t[i] = s[i]
    PROVE  Frames(t, bodies, k, at)
  <1> SUFFICES ASSUME NEW i \in (k + 1)..Len(bodies), NEW j \in 1..Len(Frame(bodies[i])),
                      at[i - 1] + j \in 1..Len(t)
               PROVE  t[at[i - 1] + j] = Frame(bodies[i])[j]
    BY DEF Frames
  <1> DEFINE f == Frame(bodies[i])
             p == at[i - 1] + j
  <1>1. /\ at[i] = at[i - 1] + Len(f) /\ at[i] <= at[Len(bodies)]
        /\ p \in 1..Len(s) => s[p] = f[j]
    BY DEF Frames
  <1>2. i \in 1..Len(bodies) /\ i \in Nat /\ i - 1 \in Nat /\ Len(bodies) \in Nat
    OBVIOUS
  <1>3. Len(f) \in Nat /\ at[i - 1] \in Int /\ at[i] \in Int /\ at[Len(bodies)] \in Int
    <2>1. f \in Seq(Byte)
      <3>1. bodies[i] \in Bodies
        BY <1>2, ElementOfSeq
      <3>2. QED
        BY <3>1, FrameParts
    <2>2. Len(f) \in Nat
      BY <2>1, LenProperties
    <2>3. QED
      BY <1>2, <2>2
  <1>4. Len(s) \in Nat /\ Len(t) \in Nat
    OBVIOUS
  <1> HIDE DEF f
  <1>5. j \in 1..Len(f)
    BY DEF f
  <1>6. p \in 1..Len(s) /\ p <= Len(t)
    <2>1. p \in Int /\ p >= 1 /\ p <= Len(t) /\ p <= at[i]
      <3> DEFINE x == at[i - 1]
                 y == at[i]
      <3>1. x \in Int /\ y \in Int /\ y = x + Len(f) /\ x + j \in 1..Len(t)
        BY <1>1, <1>3
      <3> HIDE DEF x, y
      <3>2. x + j \in Int /\ x + j >= 1 /\ x + j <= Len(t) /\ x + j <= y
        BY <1>3, <1>4, <1>5, <3>1
      <3>3. QED
        BY <3>2 DEF x, y
    <2> HIDE DEF p
    <2>2. CASE Len(t) <= Len(s)
      BY <1>4, <2>1, <2>2
    <2>3. CASE at[Len(bodies)] <= Len(s)
      <3> DEFINE x == at[i]
                 y == at[Len(bodies)]
      <3>1. x \in Int /\ y \in Int /\ p <= x /\ x <= y /\ y <= Len(s)
        BY <1>1, <1>3, <2>1, <2>3
      <3> HIDE DEF x, y
      <3>2. p <= Len(s)
        BY <1>4, <2>1, <3>1
      <3>3. QED
        BY <1>4, <2>1, <3>2
    <2>4. QED
      BY <2>2, <2>3
  <1> HIDE DEF p
  <1>7. t[p] = f[j]
    BY <1>1, <1>6
  <1>8. QED
    BY <1>7 DEF p, f

\* The first bytes are taken.
LEMMA FramesTaken ==
    ASSUME NEW s \in Seq(Byte), NEW c \in 0..Len(s), NEW bodies \in Seq(Bodies),
           NEW k \in 0..Len(bodies), NEW at \in [Nat -> Int], Frames(s, bodies, k, at)
    PROVE  \E to \in [Nat -> Int] : /\ Frames(Rest(s, c), bodies, k, to)
                                   /\ \A i \in Nat : to[i] = at[i] - c
  <1> DEFINE to == [i \in Nat |-> at[i] - c]
             t == Rest(s, c)
  <1>1. to \in [Nat -> Int] /\ \A i \in Nat : to[i] = at[i] - c
    OBVIOUS
  <1>2. /\ t \in Seq(Byte) /\ Len(t) = Len(s) - c
        /\ \A i \in 1..Len(t) : t[i] = s[c + i]
    <2>1. \A i \in (c + 1)..Len(s) : s[i] \in Byte
      OBVIOUS
    <2>2. c + 1 \in Int /\ Len(s) \in Int
      OBVIOUS
    <2>3. /\ SubSeq(s, c + 1, Len(s)) \in Seq(Byte)
          /\ Len(SubSeq(s, c + 1, Len(s))) = IF c + 1 <= Len(s) THEN Len(s) - (c + 1) + 1 ELSE 0
          /\ \A i \in 1..(Len(s) - (c + 1) + 1) : SubSeq(s, c + 1, Len(s))[i] = s[(c + 1) + i - 1]
      BY <2>1, <2>2, SubSeqProperties
    <2>4. QED
      BY <2>3 DEF Rest
  <1> HIDE DEF to, t
  <1>3. ASSUME NEW i \in (k + 1)..Len(bodies)
        PROVE  /\ to[i] = to[i - 1] + Len(Frame(bodies[i]))
               /\ to[i] <= to[Len(bodies)]
               /\ \A j \in 1..Len(Frame(bodies[i])) :
                    to[i - 1] + j \in 1..Len(t) => t[to[i - 1] + j] = Frame(bodies[i])[j]
    <2> DEFINE f == Frame(bodies[i])
    <2>1. i \in 1..Len(bodies) /\ i \in Nat /\ i - 1 \in Nat /\ Len(bodies) \in Nat
      OBVIOUS
    <2>2. Len(f) \in Nat
      BY <2>1, FrameParts, LenProperties
    <2>3. /\ at[i] = at[i - 1] + Len(f) /\ at[i] <= at[Len(bodies)]
          /\ \A j \in 1..Len(f) : at[i - 1] + j \in 1..Len(s) => s[at[i - 1] + j] = f[j]
      BY DEF Frames
    <2>4. at[i] \in Int /\ at[i - 1] \in Int /\ at[Len(bodies)] \in Int
      BY <2>1
    <2>5. to[i] = at[i] - c /\ to[i - 1] = at[i - 1] - c /\ to[Len(bodies)] = at[Len(bodies)] - c
      BY <1>1, <2>1
    <2> HIDE DEF f
    <2>6. ASSUME NEW j \in 1..Len(f), to[i - 1] + j \in 1..Len(t)
          PROVE  t[to[i - 1] + j] = f[j]
      <3>1. c \in Nat /\ Len(s) \in Nat
        OBVIOUS
      <3>2. c + (to[i - 1] + j) = at[i - 1] + j /\ at[i - 1] + j \in 1..Len(s)
        <4> DEFINE x == at[i - 1]
                   y == to[i - 1]
        <4>1. x \in Int /\ y = x - c /\ y + j \in 1..Len(t)
          BY <2>4, <2>5, <2>6
        <4>2. Len(t) = Len(s) - c
          BY <1>2
        <4> HIDE DEF x, y
        <4>3. c + (y + j) = x + j /\ x + j \in 1..Len(s)
          BY <2>2, <3>1, <4>1, <4>2
        <4>4. QED
          BY <4>3 DEF x, y
      <3>3. QED
        BY <1>2, <2>3, <2>6, <3>2
    <2>7. to[i] = to[i - 1] + Len(f) /\ to[i] <= to[Len(bodies)]
      BY <2>2, <2>3, <2>4, <2>5
    <2>8. QED
      BY <2>6, <2>7 DEF f
  <1>4. Frames(t, bodies, k, to)
    BY <1>3 DEF Frames
  <1>5. QED
    BY <1>1, <1>4 DEF t

-----------------------------------------------------------------------------
(* The inductive invariant.                                                *)

\* What the session has not processed yet.
Stream == buffer \o net

\* The next message begins where the session is: at its header, or behind it.
Begins(at) ==
    at[Len(processed)] =
        IF reading = "body" THEN -(Len(LengthDigits(size)) + 1) ELSE 0

\* Nothing is behind the messages but noise; nothing is missing but what a
\* connection lost that broke.
Ends(at) ==
    /\ ~broken => Len(Stream) <= at[Len(sent)]
    /\ ~dropped => at[Len(sent)] <= Len(Stream)

Kept(at) ==
    /\ at \in [Nat -> Int]
    /\ Begins(at) /\ Ends(at)
    /\ Frames(Stream, sent, Len(processed), at)

\* The session and the messages fit together.
OnTrack ==
    /\ Len(processed) <= Len(sent)
    /\ reading = "body" =>
         Len(processed) < Len(sent) /\ size = Len(sent[Len(processed) + 1])
    /\ \E at : Kept(at)

\* All messages are processed, and what follows is noise.
Astray == broken /\ Len(processed) >= Len(sent)

KeptInv == reading = "closed" \/ Astray \/ OnTrack

Inv == TypeOK /\ KeptInv /\ OnlyBreakersAreClosed

-----------------------------------------------------------------------------
(* Types.                                                                  *)

\* What is left of a sequence.
LEMMA RestOf ==
    ASSUME NEW s \in Seq(Byte), NEW n \in 0..Len(s)
    PROVE  /\ Rest(s, n) \in Seq(Byte) /\ Len(Rest(s, n)) = Len(s) - n
           /\ \A i \in 1..(Len(s) - n) : Rest(s, n)[i] = s[n + i]
           /\ SubSeq(s, 1, n) \in Seq(Byte) /\ Len(SubSeq(s, 1, n)) = n
           /\ \A i \in 1..n : SubSeq(s, 1, n)[i] = s[i]
  <1>1. n \in Int /\ n + 1 \in Int /\ Len(s) \in Int /\ 1 \in Int
    OBVIOUS
  <1>2. \A i \in (n + 1)..Len(s) : s[i] \in Byte
    OBVIOUS
  <1>3. \A i \in 1..n : s[i] \in Byte
    OBVIOUS
  <1>4. /\ SubSeq(s, n + 1, Len(s)) \in Seq(Byte)
        /\ Len(SubSeq(s, n + 1, Len(s))) = IF n + 1 <= Len(s) THEN Len(s) - (n + 1) + 1 ELSE 0
        /\ \A i \in 1..(Len(s) - (n + 1) + 1) : SubSeq(s, n + 1, Len(s))[i] = s[(n + 1) + i - 1]
    BY <1>1, <1>2, SubSeqProperties
  <1>5. /\ SubSeq(s, 1, n) \in Seq(Byte)
        /\ Len(SubSeq(s, 1, n)) = IF 1 <= n THEN n - 1 + 1 ELSE 0
        /\ \A i \in 1..(n - 1 + 1) : SubSeq(s, 1, n)[i] = s[1 + i - 1]
    BY <1>1, <1>3, SubSeqProperties
  <1>6. QED
    BY <1>4, <1>5 DEF Rest

\* Every step keeps the type invariant.
LEMMA NextType == TypeOK /\ [Next]_vars => TypeOK'
  <1> SUFFICES ASSUME TypeOK, [Next]_vars PROVE TypeOK'
    OBVIOUS
  <1> USE DEF TypeOK
  <1>1. ASSUME NEW body \in Bodies, Send(body) PROVE TypeOK'
    <2>1. net \o Frame(body) \in Seq(Byte)
      BY FrameParts, ConcatProperties
    <2>2. QED
      BY <1>1, <2>1 DEF Send
  <1>2. ASSUME NEW bytes \in Noise, SendNoise(bytes) PROVE TypeOK'
    <2>1. net \o bytes \in Seq(Byte)
      BY FramingAssumption, ConcatProperties
    <2>2. QED
      BY <1>2, <2>1 DEF SendNoise
  <1>3. CASE Drop
    BY <1>3, RestOf DEF Drop
  <1>4. CASE ReadHeaderBytes \/ ReadBodyBytes
    <2>1. PICK n \in 1..Len(net) : buffer' = buffer \o SubSeq(net, 1, n) /\ net' = Rest(net, n)
      <3>1. CASE ReadHeaderBytes
        BY <3>1 DEF ReadHeaderBytes
      <3>2. CASE ReadBodyBytes
        <4>1. ToRead \in Nat /\ Len(net) \in Nat
          BY DEF ToRead
        <4>2. (IF ToRead < Len(net) THEN ToRead ELSE Len(net)) <= Len(net)
          BY <4>1
        <4>3. PICK n \in 1..(IF ToRead < Len(net) THEN ToRead ELSE Len(net)) :
                buffer' = buffer \o SubSeq(net, 1, n) /\ net' = Rest(net, n)
          BY <3>2 DEF ReadBodyBytes
        <4>4. n \in 1..Len(net)
          BY <4>1, <4>2
        <4>5. QED
          BY <4>3, <4>4
      <3>3. QED
        BY <1>4, <3>1, <3>2
    <2>2. n \in 0..Len(net)
      OBVIOUS
    <2>3. net' \in Seq(Byte) /\ buffer' \in Seq(Byte)
      BY <2>1, <2>2, RestOf, ConcatProperties
    <2>4. QED
      BY <1>4, <2>3 DEF ReadHeaderBytes, ReadBodyBytes
  <1>5. CASE Header
    <2>1. HashAt \in 1..Len(buffer)
      BY <1>5, HashIsFirst DEF Header
    <2>2. HashAt - 1 \in 0..Len(buffer) /\ HashAt \in 0..Len(buffer)
      BY <2>1
    <2>3. buffer' \in Seq(Byte)
      BY <1>5, <2>2, RestOf DEF Header, AfterHeader
    <2>4. size' \in Nat
      BY <1>5, <2>2, RestOf, LengthOfHeader DEF Header
    <2>5. QED
      BY <1>5, <2>3, <2>4 DEF Header
  <1>6. CASE BadHeader
    BY <1>6 DEF BadHeader
  <1>7. CASE Body
    <2>1. size \in 0..Len(buffer)
      BY <1>7 DEF Body, ToRead
    <2>2. buffer' \in Seq(Byte) /\ processed' \in Seq(Seq(Byte))
      BY <1>7, <2>1, RestOf DEF Body
    <2>3. QED
      BY <1>7, <2>2 DEF Body
  <1>8. CASE ReadFails
    BY <1>8 DEF ReadFails
  <1>9. CASE UNCHANGED vars
    BY <1>9 DEF vars
  <1>10. QED
    BY <1>1, <1>2, <1>3, <1>4, <1>5, <1>6, <1>7, <1>8, <1>9 DEF Next, Session

-----------------------------------------------------------------------------
(* Reads.                                                                  *)

\* A read moves bytes from the system into the buffer.
LEMMA ReadMoves ==
    ASSUME TypeOK, NEW n \in 0..Len(net)
    PROVE  (buffer \o SubSeq(net, 1, n)) \o Rest(net, n) = Stream
  <1> DEFINE got == SubSeq(net, 1, n)
             rest == Rest(net, n)
  <1>1. buffer \in Seq(Byte) /\ net \in Seq(Byte)
    BY DEF TypeOK
  <1>2. /\ got \in Seq(Byte) /\ Len(got) = n /\ \A i \in 1..n : got[i] = net[i]
        /\ rest \in Seq(Byte) /\ Len(rest) = Len(net) - n
        /\ \A i \in 1..(Len(net) - n) : rest[i] = net[n + i]
    BY <1>1, RestOf
  <1> HIDE DEF got, rest
  <1>3. got \o rest = net
    <2>1. n \in Nat /\ Len(net) \in Nat /\ n <= Len(net)
      BY <1>1
    <2>2. /\ got \o rest \in Seq(Byte) /\ Len(got \o rest) = Len(net)
          /\ \A i \in 1..Len(net) : (got \o rest)[i] = IF i <= n THEN got[i] ELSE rest[i - n]
      BY <1>2, <2>1, ConcatProperties
    <2>3. ASSUME NEW i \in 1..Len(net) PROVE (got \o rest)[i] = net[i]
      <3>1. CASE i <= n
        <4>1. i \in 1..n
          BY <2>1, <3>1
        <4>2. QED
          BY <1>2, <2>2, <3>1, <4>1
      <3>2. CASE ~(i <= n)
        <4>1. i - n \in 1..(Len(net) - n) /\ n + (i - n) = i
          BY <2>1, <3>2
        <4>2. rest[i - n] = net[n + (i - n)]
          BY <1>2, <4>1
        <4>3. (got \o rest)[i] = rest[i - n]
          BY <2>1, <2>2, <3>2
        <4>4. QED
          BY <4>1, <4>2, <4>3
      <3>3. QED
        BY <3>1, <3>2
    <2>4. QED
      BY <1>1, <2>2, <2>3, SeqEqual
  <1>4. (buffer \o got) \o rest = buffer \o (got \o rest)
    BY <1>1, <1>2, ConcatAssociative
  <1>5. QED
    BY <1>3, <1>4 DEF Stream, got, rest

\* The session takes bytes from the buffer.
LEMMA SessionTakes ==
    ASSUME TypeOK, NEW n \in 0..Len(buffer)
    PROVE  /\ Rest(buffer, n) \o net = Rest(Stream, n)
           /\ Stream \in Seq(Byte) /\ n \in 0..Len(Stream)
           /\ Len(Stream) = Len(buffer) + Len(net)
           /\ \A i \in 1..Len(buffer) : Stream[i] = buffer[i]
  <1> DEFINE rest == Rest(buffer, n)
             all == Stream
             left == Rest(all, n)
  <1>1. buffer \in Seq(Byte) /\ net \in Seq(Byte)
    BY DEF TypeOK
  <1>2. Len(buffer) \in Nat /\ Len(net) \in Nat /\ n \in Nat /\ n <= Len(buffer)
    BY <1>1
  <1>3. /\ all \in Seq(Byte) /\ Len(all) = Len(buffer) + Len(net)
        /\ \A i \in 1..(Len(buffer) + Len(net)) :
             all[i] = IF i <= Len(buffer) THEN buffer[i] ELSE net[i - Len(buffer)]
    BY <1>1, ConcatProperties DEF Stream
  <1>4. n \in 0..Len(all)
    BY <1>2, <1>3
  <1>5. /\ rest \in Seq(Byte) /\ Len(rest) = Len(buffer) - n
        /\ \A i \in 1..(Len(buffer) - n) : rest[i] = buffer[n + i]
    BY <1>1, RestOf
  <1>6. /\ left \in Seq(Byte) /\ Len(left) = Len(all) - n
        /\ \A i \in 1..(Len(all) - n) : left[i] = all[n + i]
    <2> HIDE DEF all
    <2>1. QED
      BY <1>3, <1>4, RestOf
  <1> HIDE DEF rest, left, all
  <1>7. /\ rest \o net \in Seq(Byte) /\ Len(rest \o net) = Len(rest) + Len(net)
        /\ \A i \in 1..(Len(rest) + Len(net)) :
             (rest \o net)[i] = IF i <= Len(rest) THEN rest[i] ELSE net[i - Len(rest)]
    BY <1>1, <1>5, ConcatProperties
  <1>8. ASSUME NEW i \in 1..Len(left) PROVE (rest \o net)[i] = left[i]
    <2>1. /\ i \in Nat /\ i \in 1..(Len(all) - n) /\ n + i \in 1..(Len(buffer) + Len(net))
          /\ i \in 1..(Len(rest) + Len(net))
      BY <1>2, <1>3, <1>5, <1>6
    <2>2. left[i] = IF n + i <= Len(buffer) THEN buffer[n + i] ELSE net[(n + i) - Len(buffer)]
      BY <1>3, <1>6, <2>1
    <2>3. CASE i <= Len(rest)
      <3>1. i \in 1..(Len(buffer) - n) /\ n + i <= Len(buffer)
        BY <1>2, <1>5, <2>1, <2>3
      <3>2. QED
        BY <1>5, <1>7, <2>1, <2>2, <2>3, <3>1
    <2>4. CASE ~(i <= Len(rest))
      <3>1. ~(n + i <= Len(buffer)) /\ i - Len(rest) = (n + i) - Len(buffer)
        BY <1>2, <1>5, <2>1, <2>4
      <3>2. QED
        BY <1>7, <2>1, <2>2, <2>4, <3>1
    <2>5. QED
      BY <2>3, <2>4
  <1>9. Len(left) = Len(rest \o net)
    BY <1>2, <1>3, <1>5, <1>6, <1>7
  <1>10. rest \o net = left
    BY <1>6, <1>7, <1>8, <1>9, SeqEqual
  <1>11. \A i \in 1..Len(buffer) : all[i] = buffer[i]
    BY <1>2, <1>3
  <1>12. QED
    BY <1>3, <1>4, <1>10, <1>11 DEF rest, left, all

-----------------------------------------------------------------------------
(* What the session finds.                                                 *)

\* Where the next message is: its frame, as far as the bytes go, begins or has
\* begun at the start of the stream.
LEMMA NextFrame ==
    ASSUME TypeOK, NEW at, Kept(at), Len(processed) < Len(sent)
    PROVE  LET body == sent[Len(processed) + 1]
               from == at[Len(processed)]
           IN  /\ body \in Bodies /\ from \in Int
               /\ at[Len(processed) + 1] = from + Len(Frame(body))
               /\ \A j \in 1..Len(Frame(body)) :
                    from + j \in 1..Len(Stream) => Stream[from + j] = Frame(body)[j]
  <1> DEFINE k == Len(processed)
  <1>1. k \in Nat /\ Len(sent) \in Nat /\ k + 1 \in 1..Len(sent) /\ (k + 1) - 1 = k
    BY DEF TypeOK
  <1>2. sent[k + 1] \in Bodies
    BY <1>1, ElementOfSeq DEF TypeOK
  <1>3. at[k] \in Int
    BY <1>1 DEF Kept
  <1>4. k + 1 \in (k + 1)..Len(sent)
    BY <1>1
  <1>5. /\ at[k + 1] = at[(k + 1) - 1] + Len(Frame(sent[k + 1]))
        /\ \A j \in 1..Len(Frame(sent[k + 1])) :
             at[(k + 1) - 1] + j \in 1..Len(Stream) =>
                 Stream[at[(k + 1) - 1] + j] = Frame(sent[k + 1])[j]
    BY <1>4 DEF Kept, Frames
  <1>6. QED
    BY <1>1, <1>2, <1>3, <1>5

\* A header that is there is the one of the next message.
LEMMA HeaderIsNext ==
    ASSUME TypeOK, NEW at, Kept(at), Len(processed) < Len(sent),
           reading = "header", HashAt # 0
    PROVE  LET body == sent[Len(processed) + 1]
           IN  /\ SubSeq(buffer, 1, HashAt - 1) = LengthDigits(Len(body))
               /\ HashAt = Len(LengthDigits(Len(body))) + 1
               /\ HashAt \in 1..Len(buffer)
  <1> DEFINE body == sent[Len(processed) + 1]
             d == LengthDigits(Len(body))
             f == Frame(body)
             h == HashAt
  <1>1. buffer \in Seq(Byte) /\ Len(buffer) \in Nat
    BY DEF TypeOK
  <1>2. at[Len(processed)] = 0
    BY DEF Kept, Begins
  <1>3. body \in Bodies /\ \A j \in 1..Len(f) : j \in 1..Len(Stream) => Stream[j] = f[j]
    <2>1. \A j \in 1..Len(f) : 0 + j = j
      OBVIOUS
    <2>2. QED
      BY <1>2, <2>1, NextFrame
  <1>4. /\ d \in Seq(0..9) /\ Len(d) \in 1..2
        /\ Len(body) \in 0..99 /\ Len(f) = Len(d) + 1 + Len(body)
        /\ \A j \in 1..Len(d) : f[j] = d[j]
        /\ f[Len(d) + 1] = Hash
    <2> HIDE DEF body
    <2>1. QED
      BY <1>3, FrameParts
  <1>5. /\ Len(Stream) \in Nat /\ Len(buffer) <= Len(Stream)
        /\ \A j \in 1..Len(buffer) : Stream[j] = buffer[j]
    <2>1. 0 \in 0..Len(buffer)
      BY <1>1
    <2>2. Len(net) \in Nat
      BY DEF TypeOK
    <2>3. QED
      BY <1>1, <2>1, <2>2, SessionTakes
  <1> HIDE DEF body, d, f
  <1>6. \A j \in 1..Len(f) : j <= Len(buffer) => buffer[j] = f[j]
    <2> SUFFICES ASSUME NEW j \in 1..Len(f), j <= Len(buffer) PROVE buffer[j] = f[j]
      OBVIOUS
    <2>1. j \in 1..Len(buffer) /\ j \in 1..Len(Stream)
      BY <1>1, <1>4, <1>5
    <2>2. QED
      BY <1>3, <1>5, <2>1
  <1>7. /\ h \in 1..Len(buffer) /\ buffer[h] = Hash
        /\ \A i \in 1..Len(buffer) : buffer[i] = Hash => h <= i
    BY <1>1, HashIsFirst
  <1> HIDE DEF h
  <1>8. h > Len(d)
    <2> SUFFICES ASSUME h <= Len(d) PROVE FALSE
      BY <1>1, <1>4, <1>7
    <2>1. h \in 1..Len(d) /\ h \in 1..Len(f) /\ h <= Len(buffer)
      BY <1>1, <1>4, <1>7
    <2>2. Hash = d[h] /\ d[h] \in 0..9
      BY <1>4, <1>6, <1>7, <2>1
    <2>3. QED
      BY <2>2 DEF Hash
  <1>9. h = Len(d) + 1
    <2>1. Len(d) + 1 \in 1..Len(buffer) /\ Len(d) + 1 \in 1..Len(f)
      BY <1>1, <1>4, <1>7, <1>8
    <2>2. buffer[Len(d) + 1] = Hash
      BY <1>4, <1>6, <2>1
    <2>3. h <= Len(d) + 1
      BY <1>7, <2>1, <2>2
    <2>4. QED
      BY <1>1, <1>4, <1>7, <1>8, <2>3
  <1>10. SubSeq(buffer, 1, h - 1) = d
    <2>1. h - 1 = Len(d) /\ h - 1 \in 0..Len(buffer)
      BY <1>1, <1>4, <1>7, <1>9
    <2> DEFINE b == SubSeq(buffer, 1, h - 1)
    <2>2. b \in Seq(Byte) /\ Len(b) = Len(d) /\ \A i \in 1..Len(d) : b[i] = buffer[i]
      BY <1>1, <2>1, RestOf
    <2>3. d \in Seq(Byte)
      BY <1>3, FrameDigits DEF d
    <2> HIDE DEF b
    <2>4. ASSUME NEW i \in 1..Len(b) PROVE b[i] = d[i]
      <3>1. i \in 1..Len(d) /\ i \in 1..Len(f) /\ i <= Len(buffer)
        BY <1>1, <1>4, <2>1, <2>2
      <3>2. QED
        BY <1>4, <1>6, <2>2, <3>1
    <2>5. b = d
      BY <2>2, <2>3, <2>4, SeqEqual
    <2>6. QED
      BY <2>5 DEF b
  <1>11. QED
    BY <1>7, <1>9, <1>10 DEF body, d, h

\* Without a message to come, and without noise, there is no header.
LEMMA NoHeaderIsLeft ==
    ASSUME TypeOK, NEW at, Kept(at), Len(processed) = Len(sent), ~broken,
           reading = "header"
    PROVE  HashAt = 0
  <1>1. buffer \in Seq(Byte) /\ Len(buffer) \in Nat /\ Len(net) \in Nat
    BY DEF TypeOK
  <1>2. Len(Stream) <= 0
    BY DEF Kept, Begins, Ends
  <1>3. 0 \in 0..Len(buffer)
    BY <1>1
  <1>4. Len(Stream) = Len(buffer) + Len(net)
    BY <1>3, SessionTakes
  <1>5. Len(buffer) = 0
    BY <1>1, <1>2, <1>4
  <1>6. QED
    BY <1>1, <1>5, HashIsFirst

\* A body that is complete is the next one.
LEMMA BodyIsNext ==
    ASSUME TypeOK, NEW at, Kept(at), Len(processed) < Len(sent), reading = "body",
           size = Len(sent[Len(processed) + 1]), ToRead = 0
    PROVE  /\ SubSeq(buffer, 1, size) = sent[Len(processed) + 1]
           /\ size \in 0..Len(buffer)
           /\ at[Len(processed) + 1] = size
  <1> DEFINE body == sent[Len(processed) + 1]
             d == LengthDigits(Len(body))
             f == Frame(body)
             from == at[Len(processed)]
  <1>1. buffer \in Seq(Byte) /\ Len(buffer) \in Nat /\ size \in Nat
    BY DEF TypeOK
  <1>2. size \in 0..Len(buffer)
    BY <1>1 DEF ToRead
  <1>3. from = -(Len(d) + 1)
    BY DEF Kept, Begins
  <1>4. /\ body \in Bodies /\ at[Len(processed) + 1] = from + Len(f)
        /\ \A j \in 1..Len(f) : from + j \in 1..Len(Stream) => Stream[from + j] = f[j]
    BY NextFrame
  <1>5. /\ body \in Seq(Byte) /\ Len(d) \in 1..2 /\ Len(f) = Len(d) + 1 + Len(body)
        /\ \A j \in 1..Len(body) : f[Len(d) + 1 + j] = body[j]
    <2> HIDE DEF body
    <2>1. QED
      BY <1>4, FrameParts
  <1>6. /\ Len(Stream) \in Nat /\ Len(buffer) <= Len(Stream)
        /\ \A j \in 1..Len(buffer) : Stream[j] = buffer[j]
    <2>1. Len(net) \in Nat
      BY DEF TypeOK
    <2>2. QED
      BY <1>1, <1>2, <2>1, SessionTakes
  <1>7. size = Len(body)
    OBVIOUS
  <1> HIDE DEF body, d, f, from
  <1>8. at[Len(processed) + 1] = size
    BY <1>1, <1>3, <1>4, <1>5, <1>7
  <1>9. /\ SubSeq(buffer, 1, size) \in Seq(Byte) /\ Len(SubSeq(buffer, 1, size)) = size
        /\ \A j \in 1..size : SubSeq(buffer, 1, size)[j] = buffer[j]
    BY <1>1, <1>2, RestOf
  <1>10. ASSUME NEW j \in 1..size PROVE buffer[j] = body[j]
    <2> DEFINE p == Len(d) + 1 + j
    <2>1. p \in 1..Len(f) /\ from + p = j /\ j \in 1..Len(buffer) /\ j \in 1..Len(Stream)
      BY <1>1, <1>2, <1>3, <1>5, <1>6, <1>7
    <2>2. f[p] = body[j]
      BY <1>5, <1>7
    <2> HIDE DEF p
    <2>3. Stream[j] = f[p]
      BY <1>4, <2>1
    <2>4. QED
      BY <1>6, <2>1, <2>2, <2>3
  <1>11. SubSeq(buffer, 1, size) = body
    BY <1>5, <1>7, <1>9, <1>10, SeqEqual
  <1>12. QED
    BY <1>2, <1>8, <1>11 DEF body

-----------------------------------------------------------------------------
(* The steps.                                                              *)

\* A new connection is on track with nothing sent.
LEMMA InitInv == Init => Inv
  <1> SUFFICES ASSUME Init PROVE Inv
    OBVIOUS
  <1>1. TypeOK
    <2>1. \A S : <<>> \in Seq(S)
      BY EmptySeq
    <2>2. QED
      BY <2>1 DEF Init, TypeOK
  <1>2. OnTrack
    <2> DEFINE at == [i \in Nat |-> 0]
    <2>1. Len(Stream) = 0 /\ Len(sent) = 0 /\ Len(processed) = 0
      BY DEF Init, Stream
    <2>2. at \in [Nat -> Int] /\ at[0] = 0
      OBVIOUS
    <2>3. Frames(Stream, sent, Len(processed), at)
      <3>1. (0 + 1)..0 = {}
        OBVIOUS
      <3>2. QED
        BY <2>1, <3>1 DEF Frames
    <2> HIDE DEF at
    <2>4. Kept(at)
      BY <2>1, <2>2, <2>3 DEF Init, Kept, Begins, Ends
    <2>5. QED
      BY <2>1, <2>4 DEF Init, OnTrack
  <1>3. OnlyBreakersAreClosed
    BY DEF Init, OnlyBreakersAreClosed
  <1>4. QED
    BY <1>1, <1>2, <1>3 DEF Inv, KeptInv

\* A client that broke the protocol sends no more messages.
LEMMA StaysAstray == TypeOK /\ Astray /\ [Next]_vars => Astray'
  <1> SUFFICES ASSUME TypeOK, Astray, [Next]_vars PROVE Astray'
    OBVIOUS
  <1>1. CASE Body
    <2>1. Len(processed') = Len(processed) + 1
      BY <1>1 DEF Body, TypeOK
    <2>2. Len(processed) \in Nat /\ Len(sent) \in Nat
      BY DEF TypeOK
    <2>3. QED
      BY <1>1, <2>1, <2>2 DEF Body, Astray
  <1>2. CASE ~Body
    <2>1. broken' = broken /\ sent' = sent /\ processed' = processed
      BY <1>2 DEF Next, Session, Send, SendNoise, Drop, ReadHeaderBytes, Header, BadHeader,
         ReadBodyBytes, ReadFails, Astray, vars
    <2>2. QED
      BY <2>1 DEF Astray
  <1>3. QED
    BY <1>1, <1>2

\* What the client writes is behind everything unread.
LEMMA AppendedToNet ==
    ASSUME buffer \in Seq(Byte), net \in Seq(Byte), NEW bytes \in Seq(Byte)
    PROVE  Stream \o bytes = buffer \o (net \o bytes)
  BY ConcatAssociative DEF Stream

\* The client's steps.
LEMMA SendKeeps ==
    ASSUME TypeOK, OnTrack, NEW body \in Bodies, Send(body)
    PROVE  OnTrack'
  <1> DEFINE k == Len(processed)
             n == Len(sent)
  <1>1. PICK at : Kept(at)
    BY DEF OnTrack
  <1>2. k \in Nat /\ n \in Nat /\ k \in 0..n /\ sent \in Seq(Bodies)
        /\ buffer \in Seq(Byte) /\ net \in Seq(Byte) /\ Len(buffer) \in Nat
    BY DEF OnTrack, TypeOK
  <1>3. Stream \in Seq(Byte)
    BY <1>2, ConcatProperties DEF Stream
  <1>4. at \in [Nat -> Int] /\ at[n] = Len(Stream)
    <2>1. Len(Stream) \in Nat /\ at[n] \in Int
      BY <1>1, <1>2, <1>3, LenProperties DEF Kept
    <2>2. Len(Stream) <= at[n] /\ at[n] <= Len(Stream)
      BY <1>1 DEF Kept, Ends, Send
    <2>3. QED
      BY <1>1, <2>1, <2>2 DEF Kept
  <1>5. PICK to \in [Nat -> Int] :
          /\ Frames(Stream \o Frame(body), Append(sent, body), k, to)
          /\ to[k] = at[k]
          /\ to[Len(Append(sent, body))] = Len(Stream \o Frame(body))
    BY <1>1, <1>2, <1>3, <1>4, FramesSent DEF Kept
  <1>6. Stream' = Stream \o Frame(body)
    <2>1. Frame(body) \in Seq(Byte)
      BY FrameParts
    <2>2. Stream \o Frame(body) = buffer \o (net \o Frame(body))
      BY <1>2, <2>1, AppendedToNet
    <2>3. buffer' = buffer /\ net' = net \o Frame(body)
      BY DEF Send
    <2>4. QED
      BY <2>2, <2>3 DEF Stream
  <1>7. /\ sent' = Append(sent, body) /\ processed' = processed /\ reading' = reading
        /\ size' = size /\ broken' = broken /\ dropped' = dropped
    BY DEF Send
  <1>8. Len(sent') = n + 1 /\ \A i \in 1..n : sent'[i] = sent[i]
    BY <1>2, <1>7
  <1>9. Kept(to)'
    <2>1. Len(Stream') \in Nat
      <3>1. Stream' \in Seq(Byte)
        BY <1>3, <1>6, FrameParts, ConcatProperties
      <3>2. QED
        BY <3>1, LenProperties
    <2>2. to[Len(sent')] = Len(Stream')
      BY <1>5, <1>6, <1>7
    <2>3. Ends(to)'
      BY <2>1, <2>2 DEF Ends
    <2>4. Begins(to)'
      BY <1>1, <1>5, <1>7 DEF Kept, Begins
    <2>5. QED
      BY <1>5, <1>6, <1>7, <2>3, <2>4 DEF Kept
  <1>10. Len(processed') <= Len(sent')
    BY <1>2, <1>7, <1>8
  <1>11. reading' = "body" =>
           Len(processed') < Len(sent') /\ size' = Len(sent'[Len(processed') + 1])
    <2> SUFFICES ASSUME reading' = "body"
                 PROVE  Len(processed') < Len(sent') /\ size' = Len(sent'[Len(processed') + 1])
      OBVIOUS
    <2>1. k < n /\ size = Len(sent[k + 1])
      BY <1>7 DEF OnTrack
    <2>2. k + 1 \in 1..n
      BY <1>2, <2>1
    <2>3. QED
      BY <1>2, <1>7, <1>8, <2>1, <2>2
  <1>12. QED
    BY <1>9, <1>10, <1>11 DEF OnTrack

\* Noise only adds bytes behind the last message's.
LEMMA NoiseKeeps ==
    ASSUME TypeOK, OnTrack, NEW bytes \in Noise, SendNoise(bytes)
    PROVE  OnTrack'
  <1>1. PICK at : Kept(at)
    BY DEF OnTrack
  <1>2. /\ Len(processed) \in 0..Len(sent) /\ sent \in Seq(Bodies) /\ Len(sent) \in Nat
        /\ buffer \in Seq(Byte) /\ net \in Seq(Byte) /\ bytes \in Seq(Byte)
    BY FramingAssumption DEF OnTrack, TypeOK
  <1>3. Stream \in Seq(Byte) /\ Len(Stream) \in Nat
    BY <1>2, ConcatProperties, LenProperties DEF Stream
  <1>4. Stream' = Stream \o bytes
    BY <1>2, ConcatAssociative DEF SendNoise, Stream
  <1>5. /\ Stream' \in Seq(Byte) /\ Len(Stream') = Len(Stream) + Len(bytes)
        /\ \A i \in 1..Len(Stream) : Stream'[i] = Stream[i]
    BY <1>2, <1>3, <1>4
  <1>6. at \in [Nat -> Int] /\ at[Len(sent)] <= Len(Stream)
    BY <1>1 DEF Kept, Ends, SendNoise
  <1>7. Frames(Stream', sent, Len(processed), at)
    BY <1>1, <1>2, <1>3, <1>5, <1>6, FramesKept DEF Kept
  <1>8. /\ sent' = sent /\ processed' = processed /\ reading' = reading
        /\ size' = size /\ broken' = TRUE /\ dropped' = dropped
    BY DEF SendNoise
  <1>9. Kept(at)'
    <2>1. at[Len(sent)] <= Len(Stream')
      <3>1. Len(bytes) \in Nat /\ at[Len(sent)] \in Int
        BY <1>2, <1>6, LenProperties
      <3>2. QED
        BY <1>3, <1>5, <1>6, <3>1
    <2>2. QED
      BY <1>1, <1>6, <1>7, <1>8, <2>1 DEF Kept, Begins, Ends
  <1>10. QED
    BY <1>8, <1>9 DEF OnTrack

\* A drop only cuts bytes off the end of the stream.
LEMMA DropKeeps ==
    ASSUME TypeOK, OnTrack, Drop
    PROVE  OnTrack'
  <1>1. PICK at : Kept(at)
    BY DEF OnTrack
  <1>2. PICK n \in 0..Len(net) : net' = SubSeq(net, 1, n)
    BY DEF Drop
  <1>3. /\ Len(processed) \in 0..Len(sent) /\ sent \in Seq(Bodies) /\ Len(sent) \in Nat
        /\ buffer \in Seq(Byte) /\ net \in Seq(Byte)
        /\ Len(buffer) \in Nat /\ Len(net) \in Nat
    BY DEF OnTrack, TypeOK
  <1>4. net' \in Seq(Byte) /\ Len(net') = n /\ \A i \in 1..n : net'[i] = net[i]
    BY <1>2, <1>3, RestOf
  <1>5. /\ Stream \in Seq(Byte) /\ Len(Stream) = Len(buffer) + Len(net)
        /\ \A i \in 1..(Len(buffer) + Len(net)) :
             Stream[i] = IF i <= Len(buffer) THEN buffer[i] ELSE net[i - Len(buffer)]
    BY <1>3, ConcatProperties DEF Stream
  <1>6. /\ Stream' \in Seq(Byte) /\ Len(Stream') = Len(buffer) + n
        /\ \A i \in 1..(Len(buffer) + n) :
             Stream'[i] = IF i <= Len(buffer) THEN buffer[i] ELSE net'[i - Len(buffer)]
    <2>1. Stream' = buffer \o net'
      BY DEF Drop, Stream
    <2> DEFINE rest == net'
    <2>2. rest \in Seq(Byte) /\ Len(rest) = n
      BY <1>4
    <2> HIDE DEF rest
    <2>3. /\ buffer \o rest \in Seq(Byte) /\ Len(buffer \o rest) = Len(buffer) + n
          /\ \A i \in 1..(Len(buffer) + n) :
               (buffer \o rest)[i] = IF i <= Len(buffer) THEN buffer[i] ELSE rest[i - Len(buffer)]
      BY <1>3, <2>2, ConcatProperties
    <2>4. QED
      BY <2>1, <2>3 DEF rest
  <1>7. Len(Stream') <= Len(Stream) /\ Len(Stream') \in Nat /\ Len(Stream) \in Nat
    BY <1>3, <1>5, <1>6
  <1>8. ASSUME NEW i \in 1..Len(Stream), i <= Len(Stream') PROVE Stream'[i] = Stream[i]
    <2>1. i \in 1..(Len(buffer) + n) /\ i \in 1..(Len(buffer) + Len(net))
      BY <1>3, <1>5, <1>6, <1>8
    <2>2. CASE i <= Len(buffer)
      BY <1>5, <1>6, <2>1, <2>2
    <2>3. CASE ~(i <= Len(buffer))
      <3>1. i - Len(buffer) \in 1..n
        BY <1>3, <2>1, <2>3
      <3>2. QED
        BY <1>4, <1>5, <1>6, <2>1, <2>3, <3>1
    <2>4. QED
      BY <2>2, <2>3
  <1>9. at \in [Nat -> Int]
    BY <1>1 DEF Kept
  <1>10. Frames(Stream', sent, Len(processed), at)
    BY <1>1, <1>3, <1>5, <1>6, <1>7, <1>8, <1>9, FramesKept DEF Kept
  <1>11. /\ sent' = sent /\ processed' = processed /\ reading' = reading
         /\ size' = size /\ broken' = broken /\ dropped' = TRUE
    BY DEF Drop
  <1>12. Kept(at)'
    <2>1. ~broken => Len(Stream') <= at[Len(sent)]
      <3>1. at[Len(sent)] \in Int
        BY <1>3, <1>9
      <3>2. ~broken => Len(Stream) <= at[Len(sent)]
        BY <1>1 DEF Kept, Ends
      <3>3. QED
        BY <1>7, <3>1, <3>2
    <2>2. QED
      BY <1>1, <1>9, <1>10, <1>11, <2>1 DEF Kept, Begins, Ends
  <1>13. QED
    BY <1>11, <1>12 DEF OnTrack

\* The session's reads.
LEMMA ReadKeeps ==
    ASSUME TypeOK, OnTrack, ReadHeaderBytes \/ ReadBodyBytes
    PROVE  OnTrack'
  <1>1. PICK at : Kept(at)
    BY DEF OnTrack
  <1>2. ToRead \in Nat /\ Len(net) \in Nat
    BY DEF TypeOK, ToRead
  <1>3. \E n \in 0..Len(net) : buffer' = buffer \o SubSeq(net, 1, n) /\ net' = Rest(net, n)
    <2>1. CASE ReadHeaderBytes
      <3>1. PICK n \in 1..Len(net) : buffer' = buffer \o SubSeq(net, 1, n) /\ net' = Rest(net, n)
        BY <2>1 DEF ReadHeaderBytes
      <3>2. n \in 0..Len(net)
        OBVIOUS
      <3>3. QED
        BY <3>1, <3>2
    <2>2. CASE ReadBodyBytes
      <3>1. PICK n \in 1..(IF ToRead < Len(net) THEN ToRead ELSE Len(net)) :
              buffer' = buffer \o SubSeq(net, 1, n) /\ net' = Rest(net, n)
        BY <2>2 DEF ReadBodyBytes
      <3>2. n \in 0..Len(net)
        BY <1>2
      <3>3. QED
        BY <3>1, <3>2
    <2>3. QED
      BY <2>1, <2>2
  <1>4. Stream' = Stream
    BY <1>3, ReadMoves DEF Stream
  <1>5. UNCHANGED <<reading, size, dropped, sent, processed, broken>>
    BY DEF ReadHeaderBytes, ReadBodyBytes
  <1>6. Kept(at)'
    BY <1>1, <1>4, <1>5 DEF Kept, Begins, Ends
  <1>7. QED
    BY <1>5, <1>6 DEF OnTrack

\* The session takes n bytes, behind which it is on track.
LEMMA TakingKeeps ==
    ASSUME TypeOK, NEW at, Kept(at), Len(processed) <= Len(sent), NEW n \in 0..Len(buffer),
           buffer' = Rest(buffer, n), UNCHANGED <<net, sent, broken, dropped>>
    PROVE  \E to \in [Nat -> Int] : /\ Frames(Stream', sent, Len(processed), to)
                                   /\ Ends(to)'
                                   /\ \A i \in Nat : to[i] = at[i] - n
  <1>1. /\ Len(processed) \in 0..Len(sent) /\ sent \in Seq(Bodies) /\ Len(sent) \in Nat
        /\ at \in [Nat -> Int]
    BY DEF TypeOK, Kept
  <1>2. /\ Stream' = Rest(Stream, n) /\ Stream \in Seq(Byte) /\ n \in 0..Len(Stream)
    <2>1. Stream' = Rest(buffer, n) \o net
      BY DEF Stream
    <2>2. QED
      BY <2>1, SessionTakes
  <1>3. PICK to \in [Nat -> Int] : /\ Frames(Rest(Stream, n), sent, Len(processed), to)
                                 /\ \A i \in Nat : to[i] = at[i] - n
    BY <1>1, <1>2, FramesTaken DEF Kept
  <1>4. Ends(to)'
    <2>1. Len(Stream') = Len(Stream) - n /\ Len(Stream) \in Nat /\ n \in Int
      <3> DEFINE all == Stream
      <3>1. all \in Seq(Byte) /\ n \in 0..Len(all) /\ Stream' = Rest(all, n)
        BY <1>2
      <3> HIDE DEF all
      <3>2. Len(all) \in Nat
        BY <3>1, LenProperties
      <3>3. Len(Rest(all, n)) = Len(all) - n
        BY <3>1, RestOf
      <3>4. n \in Int
        BY <3>1, <3>2
      <3>5. QED
        BY <3>1, <3>2, <3>3, <3>4 DEF all
    <2>2. to[Len(sent)] = at[Len(sent)] - n /\ at[Len(sent)] \in Int
      BY <1>1, <1>3
    <2>3. /\ ~broken => Len(Stream) <= at[Len(sent)]
          /\ ~dropped => at[Len(sent)] <= Len(Stream)
      BY DEF Kept, Ends
    <2>4. /\ ~broken => Len(Stream') <= to[Len(sent)]
          /\ ~dropped => to[Len(sent)] <= Len(Stream')
      BY <2>1, <2>2, <2>3
    <2>5. QED
      BY <2>4 DEF Ends
  <1>5. QED
    BY <1>2, <1>3, <1>4

\* A header taken leaves the stream at the body of the next message.
LEMMA HeaderKeeps ==
    ASSUME TypeOK, OnTrack, ~Astray, Header
    PROVE  OnTrack'
  <1> DEFINE k == Len(processed)
             body == sent[k + 1]
             h == Len(LengthDigits(Len(body))) + 1
  <1>1. PICK at : Kept(at)
    BY DEF OnTrack
  <1>2. k \in Nat /\ Len(sent) \in Nat /\ k <= Len(sent)
    BY DEF OnTrack, TypeOK
  <1>3. k < Len(sent)
    <2> SUFFICES ASSUME k = Len(sent) PROVE FALSE
      BY <1>2
    <2>1. ~broken /\ reading = "header" /\ HashAt # 0
      BY <1>2 DEF Astray, Header
    <2>2. QED
      BY <1>1, <2>1, NoHeaderIsLeft
  <1>4. /\ SubSeq(buffer, 1, HashAt - 1) = LengthDigits(Len(body))
        /\ HashAt = h /\ HashAt \in 1..Len(buffer)
    BY <1>1, <1>3, HeaderIsNext DEF Header
  <1>5. body \in Bodies
    BY <1>1, <1>3, NextFrame
  <1> HIDE DEF body, h
  <1>6. size' = Len(body)
    <2>1. Len(body) \in 0..99
      BY <1>5, FrameParts
    <2>2. QED
      BY <1>4, <2>1, LengthOfDigits DEF Header
  <1>7. h \in 0..Len(buffer) /\ buffer' = Rest(buffer, h)
    BY <1>4 DEF Header, AfterHeader
  <1>8. PICK to \in [Nat -> Int] :
          Frames(Stream', sent, k, to) /\ Ends(to)' /\ \A i \in Nat : to[i] = at[i] - h
    BY <1>1, <1>2, <1>7, TakingKeeps DEF Header
  <1>9. reading' = "body" /\ processed' = processed /\ sent' = sent
    BY DEF Header
  <1>10. Begins(to)'
    <2>1. at[k] = 0
      BY <1>1 DEF Kept, Begins, Header
    <2>2. to[k] = 0 - h
      BY <1>2, <1>8, <2>1
    <2>3. h = Len(LengthDigits(size')) + 1
      BY <1>6 DEF h
    <2>4. h \in Int
      BY <1>7
    <2>5. to[k] = -(Len(LengthDigits(size')) + 1)
      BY <2>2, <2>3, <2>4
    <2>6. QED
      BY <1>9, <2>5 DEF Begins
  <1>11. Kept(to)'
    BY <1>8, <1>9, <1>10 DEF Kept
  <1>12. QED
    BY <1>3, <1>6, <1>9, <1>11 DEF OnTrack, body

\* A body taken leaves the stream at the next header.
LEMMA BodyKeeps ==
    ASSUME TypeOK, OnTrack, Body
    PROVE  OnTrack'
  <1> DEFINE k == Len(processed)
  <1>1. PICK at : Kept(at)
    BY DEF OnTrack
  <1>2. /\ k \in Nat /\ Len(sent) \in Nat /\ k < Len(sent) /\ size = Len(sent[k + 1])
        /\ reading = "body" /\ ToRead = 0
    BY DEF OnTrack, TypeOK, Body
  <1>3. size \in 0..Len(buffer) /\ at[k + 1] = size
    BY <1>1, <1>2, BodyIsNext
  <1>4. PICK to \in [Nat -> Int] :
          Frames(Stream', sent, k, to) /\ Ends(to)' /\ \A i \in Nat : to[i] = at[i] - size
    <2>1. buffer' = Rest(buffer, size) /\ UNCHANGED <<net, sent, broken, dropped>>
      BY DEF Body
    <2>2. Len(processed) <= Len(sent)
      BY <1>2
    <2>3. QED
      BY <1>1, <1>3, <2>1, <2>2, TakingKeeps
  <1>5. reading' = "header" /\ sent' = sent /\ Len(processed') = k + 1
    BY DEF Body, TypeOK
  <1>6. Begins(to)'
    <2>1. to[k + 1] = at[k + 1] - size /\ size \in Int
      BY <1>2, <1>3, <1>4
    <2>2. to[k + 1] = 0
      BY <1>3, <2>1
    <2>3. QED
      BY <1>5, <2>2 DEF Begins
  <1>7. Frames(Stream', sent, k + 1, to)
    <2>1. ((k + 1) + 1)..Len(sent) \subseteq (k + 1)..Len(sent)
      BY <1>2
    <2>2. QED
      BY <1>4, <2>1 DEF Frames
  <1>8. Kept(to)'
    BY <1>4, <1>5, <1>6, <1>7 DEF Kept
  <1>9. Len(processed') <= Len(sent')
    BY <1>2, <1>5
  <1>10. QED
    BY <1>5, <1>8, <1>9 DEF OnTrack

\* A header that is not a length comes from a client that broke the protocol.
LEMMA BadHeaderIsNoise == TypeOK /\ KeptInv /\ BadHeader => broken
  <1> SUFFICES ASSUME TypeOK, OnTrack, ~broken, BadHeader PROVE FALSE
    BY DEF KeptInv, Astray, BadHeader
  <1>1. PICK at : Kept(at)
    BY DEF OnTrack
  <1>2. reading = "header" /\ HashAt # 0 /\ ~IsLength(SubSeq(buffer, 1, HashAt - 1))
    BY DEF BadHeader
  <1>3. Len(processed) \in Nat /\ Len(sent) \in Nat /\ Len(processed) <= Len(sent)
    BY DEF OnTrack, TypeOK
  <1>4. Len(processed) # Len(sent)
    BY <1>1, <1>2, NoHeaderIsLeft
  <1>5. Len(processed) < Len(sent)
    BY <1>3, <1>4
  <1> DEFINE body == sent[Len(processed) + 1]
  <1>6. SubSeq(buffer, 1, HashAt - 1) = LengthDigits(Len(body)) /\ body \in Bodies
    BY <1>1, <1>2, <1>5, HeaderIsNext, NextFrame
  <1> HIDE DEF body
  <1>7. Len(body) \in 0..99
    BY <1>6, FrameParts
  <1>8. QED
    BY <1>2, <1>6, <1>7, LengthOfDigits

\* Every step keeps the session on track, or astray.
LEMMA NextKept == TypeOK /\ KeptInv /\ [Next]_vars => KeptInv'
  <1> SUFFICES ASSUME TypeOK, KeptInv, [Next]_vars PROVE KeptInv'
    OBVIOUS
  <1>1. CASE reading = "closed"
    <2>1. reading' = reading
      BY <1>1 DEF Next, Session, Send, SendNoise, Drop, ReadHeaderBytes, Header, BadHeader,
         ReadBodyBytes, Body, ReadFails, vars
    <2>2. QED
      BY <1>1, <2>1 DEF KeptInv
  <1>2. CASE Astray
    BY <1>2, StaysAstray DEF KeptInv
  <1>3. CASE OnTrack /\ ~Astray
    <2>1. ASSUME NEW body \in Bodies, Send(body) PROVE OnTrack'
      BY <1>3, <2>1, SendKeeps
    <2>2. ASSUME NEW bytes \in Noise, SendNoise(bytes) PROVE OnTrack'
      BY <1>3, <2>2, NoiseKeeps
    <2>3. CASE Drop
      BY <1>3, <2>3, DropKeeps DEF KeptInv
    <2>4. CASE ReadHeaderBytes \/ ReadBodyBytes
      BY <1>3, <2>4, ReadKeeps DEF KeptInv
    <2>5. CASE Header
      BY <1>3, <2>5, HeaderKeeps DEF KeptInv
    <2>6. CASE Body
      BY <1>3, <2>6, BodyKeeps DEF KeptInv
    <2>7. CASE BadHeader \/ ReadFails
      BY <2>7 DEF BadHeader, ReadFails, KeptInv
    <2>8. CASE UNCHANGED vars
      BY <1>3, <2>8 DEF vars, KeptInv, OnTrack, Kept, Begins, Ends, Stream
    <2>9. QED
      BY <2>1, <2>2, <2>3, <2>4, <2>5, <2>6, <2>7, <2>8 DEF Next, Session, KeptInv
  <1>4. QED
    BY <1>1, <1>2, <1>3 DEF KeptInv

\* A session ends for a reason.
LEMMA NextClosed ==
    TypeOK /\ KeptInv /\ OnlyBreakersAreClosed /\ [Next]_vars => OnlyBreakersAreClosed'
  <1> SUFFICES ASSUME TypeOK, KeptInv, OnlyBreakersAreClosed, [Next]_vars
               PROVE  OnlyBreakersAreClosed'
    OBVIOUS
  <1>1. CASE BadHeader
    BY <1>1, BadHeaderIsNoise DEF BadHeader, OnlyBreakersAreClosed
  <1>2. CASE ReadFails
    BY <1>2 DEF ReadFails, OnlyBreakersAreClosed
  <1>3. CASE ~BadHeader /\ ~ReadFails
    BY <1>3 DEF OnlyBreakersAreClosed, Next, Session, Send, SendNoise, Drop, ReadHeaderBytes,
       Header, ReadBodyBytes, Body, vars
  <1>4. QED
    BY <1>1, <1>2, <1>3

-----------------------------------------------------------------------------
(* The theorems.                                                           *)

\* The session stays on track with the messages of its client until that
\* client breaks the protocol.
THEOREM Invariance == Spec => []Inv
  <1>1. Inv /\ [Next]_vars => Inv'
    BY NextType, NextKept, NextClosed DEF Inv
  <1>2. QED
    BY InitInv, <1>1, PTL DEF Spec

\* Bytes, lengths and bodies keep their types, whatever is sent.
THEOREM TypeCorrect == Spec => []TypeOK
  BY Invariance, PTL DEF Inv

\* No session is closed on a client that keeps to the protocol and to its
\* connection (tcp_session.hpp:36-89), whatever its bodies look like.
THEOREM NobodyElseIsClosed == Spec => []OnlyBreakersAreClosed
  BY Invariance, PTL DEF Inv

\* Each step of the session is one of MessageChannel, or none.
LEMMA ChannelStep == Inv /\ [Next]_vars => [Channel!Next]_(Channel!vars)
  <1> SUFFICES ASSUME Inv, [Next]_vars PROVE [Channel!Next]_(Channel!vars)
    OBVIOUS
  <1> USE DEF Channel!Next, Channel!vars
  <1>1. ASSUME NEW body \in Bodies, Send(body) PROVE Channel!SendBody(body)
    BY <1>1 DEF Send, Channel!SendBody
  <1>2. ASSUME NEW bytes \in Noise, SendNoise(bytes) PROVE Channel!BreakProtocol
    BY <1>2 DEF SendNoise, Channel!BreakProtocol
  <1>3. CASE Body
    <2> DEFINE k == Len(processed)
               got == SubSeq(buffer, 1, size)
    <2>1. TypeOK /\ processed \in Seq(Seq(Byte)) /\ k \in Nat /\ Len(sent) \in Nat
      BY DEF Inv, TypeOK
    <2>2. processed' = Append(processed, got) /\ UNCHANGED <<sent, broken>>
          /\ reading = "body" /\ reading' = "header" /\ ToRead = 0
      BY <1>3 DEF Body
    <2>3. CASE Astray
      <3>1. size \in 0..Len(buffer) /\ buffer \in Seq(Byte)
        BY <2>2 DEF Inv, TypeOK, ToRead
      <3>2. got \in Seq(Byte)
        BY <3>1, RestOf
      <3> HIDE DEF got
      <3>3. Len(processed') = k + 1 /\ SubSeq(processed', 1, k) = processed
        BY <2>1, <2>2, <3>2, AppendProperties
      <3>4. QED
        BY <2>2, <2>3, <3>3 DEF Astray, Channel!ProcessStray
    <2>4. CASE OnTrack
      <3>1. PICK at : Kept(at)
        BY <2>4 DEF OnTrack
      <3>2. k < Len(sent) /\ size = Len(sent[k + 1])
        BY <2>2, <2>4 DEF OnTrack
      <3>3. got = sent[k + 1]
        BY <2>1, <2>2, <3>1, <3>2, BodyIsNext
      <3>4. QED
        BY <2>2, <3>2, <3>3 DEF Channel!Process
    <2>5. QED
      BY <2>2, <2>3, <2>4 DEF Inv, KeptInv
  <1>4. CASE BadHeader \/ ReadFails
    <2>1. reading # "closed" /\ reading' = "closed" /\ UNCHANGED <<sent, processed, broken>>
      BY <1>4 DEF BadHeader, ReadFails
    <2>2. QED
      BY <2>1 DEF Channel!Close
  <1>5. CASE Drop \/ ReadHeaderBytes \/ Header \/ ReadBodyBytes \/ UNCHANGED vars
    BY <1>5 DEF Drop, ReadHeaderBytes, Header, ReadBodyBytes, vars
  <1>6. QED
    BY <1>1, <1>2, <1>3, <1>4, <1>5 DEF Next, Session

\* However the bytes are cut into reads, whatever bodies look like and wherever
\* the connection breaks, the session keeps the safety part of the promise.
THEOREM SessionIsChannel == Spec => Channel!Init /\ [][Channel!Next]_(Channel!vars)
  <1>1. Init => Channel!Init
    BY DEF Init, Channel!Init
  <1>2. QED
    BY <1>1, ChannelStep, Invariance, PTL DEF Spec
=============================================================================
