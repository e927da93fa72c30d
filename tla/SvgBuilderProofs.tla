-------------------------- MODULE SvgBuilderProofs --------------------------
(***************************************************************************)
(* What holds of SvgBuilder for every set of items and fonts: the cache of *)
(* emoji and how its pictures are scaled, the spans of a line, what is     *)
(* written of them and their tags, the lines of a vector and the box       *)
(* around them.                                                            *)
(***************************************************************************)
EXTENDS SvgBuilder, SequenceTheorems, WellFoundedInduction, TLAPS

-----------------------------------------------------------------------------
(* Least elements, and induction by hand.                                  *)

\* A set of naturals that is not empty has a least element.
LEMMA LeastOfSet ==
    ASSUME NEW S, S \subseteq Nat, S # {}
    PROVE  \E m \in S : \A j \in S : m <= j
<1> DEFINE R == {ss \in Nat \X Nat : ss[1] < ss[2]}
<1>1. IsWellFoundedOn(R, Nat)
  BY NatLessThanWellFounded DEF OpToRel
<1>2. PICK m \in S : \A j \in S : ~(<<j, m>> \in R)
  <2> HIDE DEF R
  <2> QED
    BY <1>1, WFMin
<1>3. ASSUME NEW j \in S PROVE m <= j
  <2>1. j \in Nat /\ m \in Nat
    OBVIOUS
  <2>2. <<j, m>> \in Nat \X Nat /\ <<j, m>>[1] = j /\ <<j, m>>[2] = m
    BY <2>1
  <2>3. ~(j < m)
    BY <1>2, <2>2
  <2> QED
    BY <2>1, <2>3
<1> QED
  BY <1>3

\* The least of two numbers.
LEMMA LessOf ==
    ASSUME NEW m \in Int, NEW n \in Int
    PROVE  Min({m, n}) = IF m <= n THEN m ELSE n
<1> DEFINE low == IF m <= n THEN m ELSE n
<1>1. low \in {m, n} /\ \A x \in {m, n} : low <= x
  OBVIOUS
<1>2. \A x \in {m, n} : (\A y \in {m, n} : x <= y) => x = low
  OBVIOUS
<1> QED
  BY <1>1, <1>2 DEF Min

\* What holds of 0 and goes from each number to the next holds up to n.
LEMMA UpTo ==
    ASSUME NEW n \in Nat, NEW S, 0 \in S, \A i \in 0..(n - 1) : i \in S => i + 1 \in S
    PROVE  n \in S
<1> SUFFICES ASSUME n \notin S PROVE FALSE
  OBVIOUS
<1> DEFINE Missing == {i \in 0..n : i \notin S}
<1>1. PICK m \in Missing : \A j \in Missing : m <= j
  <2>1. Missing \subseteq Nat /\ Missing # {}
    OBVIOUS
  <2> QED
    BY <2>1, LeastOfSet
<1>2. m \in 1..n
  OBVIOUS
<1>3. m - 1 \in 0..n /\ m - 1 \notin Missing
  BY <1>1, <1>2
<1>4. m - 1 \in 0..(n - 1) /\ m - 1 \in S
  BY <1>2, <1>3
<1>5. (m - 1) + 1 \in S
  BY <1>4
<1> QED
  BY <1>2, <1>5

-----------------------------------------------------------------------------
(* Functions that are defined by recursion: they are what they say.        *)

\* A value goes through n steps.
StepsOf(n, T) == [1..n -> [T -> T]]

CanRun(T, n, base, step) ==
    \E f \in [0..n -> T] : f[0] = base /\ \A k \in 1..n : f[k] = step[k][f[k - 1]]

\* There is a function that goes through them: by counting them up.
LEMMA RunExists ==
    ASSUME NEW T, NEW n \in Nat, NEW base \in T, NEW step \in StepsOf(n, T)
    PROVE  CanRun(T, n, base, step)
<1> USE DEF CanRun, StepsOf
<1> DEFINE Runs(f, m) == f[0] = base /\ \A k \in 1..m : f[k] = step[k][f[k - 1]]
           S == {m \in 0..n : \E f \in [0..m -> T] : Runs(f, m)}
<1>1. 0 \in S
  <2> DEFINE f == [k \in 0..0 |-> base]
  <2>1. f \in [0..0 -> T] /\ Runs(f, 0)
    OBVIOUS
  <2>2. 0 \in 0..n
    OBVIOUS
  <2> QED
    BY <2>1, <2>2
<1>2. ASSUME NEW m \in 0..(n - 1), m \in S PROVE m + 1 \in S
  <2>1. PICK f \in [0..m -> T] : Runs(f, m)
    BY <1>2
  <2> DEFINE g == [k \in 0..(m + 1) |-> IF k = m + 1 THEN step[m + 1][f[m]] ELSE f[k]]
  <2>2. m + 1 \in 1..n /\ m + 1 \in 0..n /\ m \in 0..m /\ 0 \in 0..m /\ 0 # m + 1
    OBVIOUS
  <2>3. step[m + 1][f[m]] \in T
    BY <2>2
  <2>4. \A k \in 0..(m + 1) : k # m + 1 => k \in 0..m /\ g[k] = f[k]
    OBVIOUS
  <2>5. g \in [0..(m + 1) -> T]
    BY <2>3, <2>4
  <2>6. ASSUME NEW k \in 1..(m + 1) PROVE g[k] = step[k][g[k - 1]]
    <3>1. k \in 0..(m + 1) /\ k - 1 \in 0..(m + 1) /\ k - 1 # m + 1
      OBVIOUS
    <3>2. g[k - 1] = f[k - 1]
      BY <2>4, <3>1
    <3>3. CASE k = m + 1
      BY <3>1, <3>2, <3>3
    <3>4. CASE k # m + 1
      <4>1. k \in 1..m /\ g[k] = f[k]
        BY <2>4, <3>1, <3>4
      <4> QED
        BY <2>1, <3>2, <4>1
    <3> QED
      BY <3>3, <3>4
  <2>7. g[0] = base
    BY <2>1, <2>2, <2>4
  <2> QED
    BY <2>2, <2>5, <2>6, <2>7
<1>3. n \in S
  <2> HIDE DEF S
  <2> QED
    BY <1>1, <1>2, UpTo
<1> QED
  BY <1>3

-----------------------------------------------------------------------------
(* The symbols of a text.                                                  *)

\* A symbol has at least one byte.
LEMMA SymbolStep ==
    ASSUME NEW src, NEW offset \in Nat
    PROVE  After(src, offset) \in Nat /\ After(src, offset) > offset
<1>1. SequenceLength(src[offset + 1]) \in {1, 2, 3, 4}
  BY DEF SequenceLength
<1> QED
  BY <1>1 DEF After

\* A symbol has one of the four classes.
LEMMA ClassType == \A symbol : classify(symbol) \in Classes
BY DEF classify, Classes

\* What a symbol is after each of its bytes.
DecodedBy(cp, lead, bytes) ==
    /\ cp[0] = lead
    /\ \A k \in 1..Len(bytes) : cp[k] = (cp[k - 1] * 64) + (bytes[k] % 64)
    /\ cp[Len(bytes)] = Decode(lead, bytes)

\* There are such numbers: a recursive definition is what it says.
LEMMA DecodeRuns ==
    ASSUME NEW lead \in Nat, NEW bytes \in Seq(Nat)
    PROVE  \E cp : DecodedBy(cp, lead, bytes)
<1> DEFINE n == Len(bytes)
           T == Nat
           step == [k \in 1..n |-> [x \in T |-> (x * 64) + (bytes[k] % 64)]]
           Eq(cp) == cp = [k \in 0..n |->
                             IF k = 0 THEN lead ELSE (cp[k - 1] * 64) + (bytes[k] % 64)]
           cp == CHOOSE cp : Eq(cp)
<1>1. n \in Nat /\ \A k \in 1..n : bytes[k] \in Nat
  OBVIOUS
<1>2. \A x, y \in Nat : (x * 64) + (y % 64) \in Nat
  OBVIOUS
<1>3. step \in [1..n -> [T -> T]] /\ lead \in T
  BY <1>1, <1>2
<1>4. PICK f \in [0..n -> T] : f[0] = lead /\ \A k \in 1..n : f[k] = step[k][f[k - 1]]
  <2>1. n \in Nat /\ lead \in T /\ step \in StepsOf(n, T)
    BY <1>1, <1>3 DEF StepsOf
  <2> HIDE DEF n, T, step
  <2>2. CanRun(T, n, lead, step)
    BY <2>1, RunExists
  <2> QED
    BY <2>2 DEF CanRun
<1>5. \A k \in 0..n : f[k] = IF k = 0 THEN lead ELSE (f[k - 1] * 64) + (bytes[k] % 64)
  <2> SUFFICES ASSUME NEW k \in 1..n
               PROVE  f[k] = (f[k - 1] * 64) + (bytes[k] % 64)
    BY <1>4
  <2>1. f[k - 1] \in Nat
    OBVIOUS
  <2>2. step[k][f[k - 1]] = (f[k - 1] * 64) + (bytes[k] % 64)
    BY <2>1
  <2> QED
    BY <1>4, <2>2
<1>6. Eq(f)
  <2> DEFINE g == [k \in 0..n |-> IF k = 0 THEN lead ELSE (f[k - 1] * 64) + (bytes[k] % 64)]
  <2>1. \A k \in 0..n : f[k] = g[k]
    BY <1>5
  <2>2. f = [k \in 0..n |-> f[k]] /\ g = [k \in 0..n |-> g[k]]
    OBVIOUS
  <2>3. f = g
    <3> HIDE DEF g
    <3> QED
      BY <2>1, <2>2
  <2> QED
    BY <2>3
<1>7. Eq(cp)
  <2> HIDE DEF Eq
  <2> QED
    BY <1>6
<1>8. Decode(lead, bytes) = cp[n]
  BY DEF Decode
<1> HIDE DEF cp
<1>9. cp[0] = lead
  BY <1>1, <1>7
<1>10. ASSUME NEW k \in 1..n PROVE cp[k] = (cp[k - 1] * 64) + (bytes[k] % 64)
  <2>1. k \in 0..n /\ k # 0
    OBVIOUS
  <2> QED
    BY <1>7, <2>1
<1> QED
  <2>1. DecodedBy(cp, lead, bytes)
    BY <1>8, <1>9, <1>10 DEF DecodedBy
  <2> QED
    BY <2>1

\* A symbol is a number, whatever the bytes it is made of.
LEMMA DecodeType ==
    ASSUME NEW lead \in Nat, NEW bytes \in Seq(Nat)
    PROVE  Decode(lead, bytes) \in Nat
<1> DEFINE n == Len(bytes)
<1>1. n \in Nat /\ \A k \in 1..n : bytes[k] \in Nat
  OBVIOUS
<1>2. \A x, y \in Nat : (x * 64) + (y % 64) \in Nat
  OBVIOUS
<1>3. PICK cp : DecodedBy(cp, lead, bytes)
  BY DecodeRuns
<1>4. /\ cp[0] = lead
      /\ \A k \in 1..n : cp[k] = (cp[k - 1] * 64) + (bytes[k] % 64)
      /\ Decode(lead, bytes) = cp[n]
  BY <1>3 DEF DecodedBy
<1> DEFINE S == {m \in 0..n : cp[m] \in Nat}
<1>5. 0 \in S
  BY <1>1, <1>4
<1>6. ASSUME NEW m \in 0..(n - 1), m \in S PROVE m + 1 \in S
  <2>1. m + 1 \in 0..n /\ (m + 1) - 1 = m /\ m + 1 \in 1..n
    BY <1>1
  <2>2. cp[m + 1] = (cp[m] * 64) + (bytes[m + 1] % 64)
    BY <1>4, <2>1
  <2> QED
    BY <1>1, <1>2, <1>6, <2>1, <2>2
<1>7. n \in S
  <2> HIDE DEF S, n
  <2> QED
    BY <1>1, <1>5, <1>6, UpTo
<1>8. cp[n] \in Nat
  BY <1>7
<1>9. Decode(lead, bytes) = cp[n]
  BY <1>4
<1> HIDE DEF n
<1> QED
  BY <1>8, <1>9

\* Bytes are decoded to a number.
LEMMA SymbolType ==
    ASSUME NEW src \in Seq(Nat), NEW k \in 0..(Len(src) - 1)
    PROVE  SymbolAt(src, k) \in Nat
<1> DEFINE low == Min({After(src, k), Len(src)})
<1>1. src[k + 1] \in Nat /\ k \in Nat /\ Len(src) \in Nat
  OBVIOUS
<1>2. \A byte \in Nat : LeadBits(byte) \in Nat
  <2>1. \A byte \in Nat : byte % 32 \in Nat /\ byte % 16 \in Nat /\ byte % 8 \in Nat
    OBVIOUS
  <2> QED
    BY <2>1 DEF LeadBits
<1>3. low \in Int /\ low <= Len(src)
  <2>1. After(src, k) \in Nat
    BY <1>1, SymbolStep
  <2>2. low = IF After(src, k) <= Len(src) THEN After(src, k) ELSE Len(src)
    BY <1>1, <2>1, LessOf
  <2> QED
    BY <1>1, <2>1, <2>2
<1> HIDE DEF low
<1>4. SubSeq(src, k + 2, low) \in Seq(Nat)
  <2>1. \A i \in (k + 2)..low : src[i] \in Nat
    <3> SUFFICES ASSUME NEW i \in (k + 2)..low PROVE src[i] \in Nat
      OBVIOUS
    <3>1. i \in 1..Len(src)
      BY <1>1, <1>3
    <3> QED
      BY <3>1, ElementOfSeq
  <2>2. k + 2 \in Int
    BY <1>1
  <2> QED
    BY <1>3, <2>1, <2>2, SubSeqProperties
<1> QED
  BY <1>1, <1>2, <1>4, DecodeType DEF SymbolAt, low

\* A symbol of a part of a text is the one the text has there, unless the part
\* ends inside of it.
LEMMA SymbolOfPart ==
    ASSUME NEW src \in Seq(Nat), NEW begin \in Nat, NEW end \in 0..Len(src),
           NEW k \in begin..(end - 1)
    PROVE  LET part == SubSeq(src, begin + 1, end)
           IN /\ part \in Seq(Nat) /\ Len(part) = end - begin
              /\ After(part, k - begin) = After(src, k) - begin
              /\ (After(src, k) <= end \/ end = Len(src)) =>
                   SymbolAt(part, k - begin) = SymbolAt(src, k)
<1> DEFINE part == SubSeq(src, begin + 1, end)
           n == After(src, k)
<1>0. /\ Len(src) \in Nat /\ end \in Nat /\ k \in Nat /\ end <= Len(src)
      /\ begin <= k /\ k < end
  OBVIOUS
<1>1. /\ part \in Seq(Nat) /\ Len(part) = end - begin
      /\ \A i \in 1..(end - begin) : part[i] = src[begin + i]
  <2>1. \A i \in (begin + 1)..end : src[i] \in Nat
    BY <1>0, ElementOfSeq
  <2>2. /\ part \in Seq(Nat)
        /\ Len(part) = IF begin + 1 <= end THEN end - (begin + 1) + 1 ELSE 0
        /\ \A i \in 1..(end - (begin + 1) + 1) : part[i] = src[(begin + 1) + i - 1]
    BY <1>0, <2>1, SubSeqProperties
  <2>3. \A i \in 1..(end - begin) : (begin + 1) + i - 1 = begin + i
    BY <1>0
  <2>4. end - (begin + 1) + 1 = end - begin
    BY <1>0
  <2> QED
    BY <1>0, <2>2, <2>3, <2>4
<1>2. part[(k - begin) + 1] = src[k + 1]
  <2>1. (k - begin) + 1 \in 1..(end - begin) /\ begin + ((k - begin) + 1) = k + 1
    BY <1>0
  <2> QED
    BY <1>1, <2>1
<1> HIDE DEF part
<1>3. SequenceLength(src[k + 1]) \in {1, 2, 3, 4}
  BY DEF SequenceLength
<1>4. n \in Nat /\ n > k /\ After(part, k - begin) = n - begin
  <2>1. After(part, k - begin) = (k - begin) + SequenceLength(src[k + 1])
    BY <1>2 DEF After
  <2>2. n = k + SequenceLength(src[k + 1])
    BY DEF After
  <2>3. ASSUME NEW step \in {1, 2, 3, 4}
        PROVE  k + step \in Nat /\ k + step > k /\ (k - begin) + step = (k + step) - begin
    BY <1>0
  <2> QED
    BY <1>3, <2>1, <2>2, <2>3
<1> HIDE DEF n
<1>5. ASSUME n <= end \/ end = Len(src)
      PROVE  SymbolAt(part, k - begin) = SymbolAt(src, k)
  <2>0. n \in Int /\ n - begin \in Int /\ Len(part) \in Int /\ Len(src) \in Int
    BY <1>0, <1>1, <1>4
  <2> DEFINE m == IF n <= Len(src) THEN n ELSE Len(src)
  <2>1. Min({n, Len(src)}) = m
    BY <2>0, LessOf
  <2>2. Min({n - begin, Len(part)}) = m - begin
    <3>1. Min({n - begin, Len(part)}) = IF n - begin <= Len(part) THEN n - begin ELSE Len(part)
      BY <2>0, LessOf
    <3>2. (IF n - begin <= Len(part) THEN n - begin ELSE Len(part)) = m - begin
      BY <1>0, <1>1, <1>4, <1>5
    <3> QED
      BY <3>1, <3>2
  <2>3. m \in Nat /\ m <= end /\ k < m
    BY <1>0, <1>4, <1>5
  <2> HIDE DEF m
  <2>4. SubSeq(part, (k - begin) + 2, m - begin) = SubSeq(src, k + 2, m)
    <3> DEFINE left == SubSeq(part, (k - begin) + 2, m - begin)
               right == SubSeq(src, k + 2, m)
    <3>1. \A i \in ((k - begin) + 2)..(m - begin) : part[i] \in Nat /\ part[i] = src[begin + i]
      <4> SUFFICES ASSUME NEW i \in ((k - begin) + 2)..(m - begin)
                   PROVE  part[i] \in Nat /\ part[i] = src[begin + i]
        OBVIOUS
      <4>1. i \in 1..Len(part)
        BY <1>0, <1>1, <2>3
      <4> QED
        BY <1>1, <4>1, ElementOfSeq
    <3>2. \A i \in (k + 2)..m : src[i] \in Nat
      <4> SUFFICES ASSUME NEW i \in (k + 2)..m PROVE src[i] \in Nat
        OBVIOUS
      <4>1. i \in 1..Len(src)
        BY <1>0, <2>3
      <4> QED
        BY <4>1, ElementOfSeq
    <3>a. (k - begin) + 2 \in Int /\ m - begin \in Int /\ k + 2 \in Int /\ m \in Int
      BY <1>0, <2>3
    <3>3. /\ left \in Seq(Nat)
          /\ Len(left) = IF (k - begin) + 2 <= m - begin THEN (m - begin) - ((k - begin) + 2) + 1 ELSE 0
          /\ \A i \in 1..((m - begin) - ((k - begin) + 2) + 1) :
               left[i] = part[((k - begin) + 2) + i - 1]
      BY <3>1, <3>a, SubSeqProperties
    <3>4. /\ right \in Seq(Nat)
          /\ Len(right) = IF k + 2 <= m THEN m - (k + 2) + 1 ELSE 0
          /\ \A i \in 1..(m - (k + 2) + 1) : right[i] = src[(k + 2) + i - 1]
      BY <3>2, <3>a, SubSeqProperties
    <3>5. Len(left) = Len(right)
      BY <1>0, <2>3, <3>3, <3>4
    <3>6. ASSUME NEW i \in 1..Len(left) PROVE left[i] = right[i]
      <4>1. /\ i \in 1..((m - begin) - ((k - begin) + 2) + 1) /\ i \in 1..(m - (k + 2) + 1)
            /\ ((k - begin) + 2) + i - 1 \in ((k - begin) + 2)..(m - begin)
            /\ begin + (((k - begin) + 2) + i - 1) = (k + 2) + i - 1
        BY <1>0, <2>3, <3>3
      <4>2. left[i] = part[((k - begin) + 2) + i - 1] /\ right[i] = src[(k + 2) + i - 1]
        BY <3>3, <3>4, <4>1
      <4>3. part[((k - begin) + 2) + i - 1] = src[begin + (((k - begin) + 2) + i - 1)]
        BY <3>1, <4>1
      <4> QED
        BY <4>1, <4>2, <4>3
    <3> HIDE DEF left, right
    <3>7. left = right
      BY <3>3, <3>4, <3>5, <3>6, SeqEqual
    <3> QED
      BY <3>7 DEF left, right
  <2>5. SymbolAt(part, k - begin)
          = Decode(LeadBits(part[(k - begin) + 1]),
                   SubSeq(part, (k - begin) + 2, Min({After(part, k - begin), Len(part)})))
    BY DEF SymbolAt
  <2>6. SymbolAt(src, k)
          = Decode(LeadBits(src[k + 1]), SubSeq(src, k + 2, Min({n, Len(src)})))
    BY DEF SymbolAt, n
  <2> QED
    BY <1>2, <1>4, <2>1, <2>2, <2>4, <2>5, <2>6
<1> QED
  BY <1>1, <1>4, <1>5 DEF part, n

\* The elements of a part.
LEMMA PartElements ==
    ASSUME NEW src \in Seq(Nat), NEW from \in 0..Len(src), NEW to \in 0..Len(src), from <= to
    PROVE  /\ SubSeq(src, from + 1, to) \in Seq(Nat)
           /\ Len(SubSeq(src, from + 1, to)) = to - from
           /\ \A j \in 1..(to - from) : SubSeq(src, from + 1, to)[j] = src[from + j]
<1> DEFINE part == SubSeq(src, from + 1, to)
<1>1. Len(src) \in Nat /\ from \in Nat /\ to \in Nat /\ to <= Len(src)
  OBVIOUS
<1>2. \A i \in (from + 1)..to : src[i] \in Nat
  BY <1>1, ElementOfSeq
<1>3. /\ part \in Seq(Nat)
      /\ Len(part) = IF from + 1 <= to THEN to - (from + 1) + 1 ELSE 0
      /\ \A i \in 1..(to - (from + 1) + 1) : part[i] = src[(from + 1) + i - 1]
  BY <1>1, <1>2, SubSeqProperties
<1> HIDE DEF part
<1>4. \A i \in 1..(to - from) : (from + 1) + i - 1 = from + i
  BY <1>1
<1>5. to - (from + 1) + 1 = to - from
  BY <1>1
<1>6. part \in Seq(Nat) /\ Len(part) = to - from /\ \A j \in 1..(to - from) : part[j] = src[from + j]
  BY <1>1, <1>3, <1>4, <1>5
<1> QED
  BY <1>6 DEF part

\* The recursion of SymbolsOf goes up, and ends with the text.
SymbolsFrom(src, f, low) ==
    f = [k \in Nat |-> IF k >= Len(src) \/ k < low THEN <<>>
                       ELSE <<SymbolAt(src, k)>> \o f[After(src, k)]]

\* There is a function with the recursion of SymbolsOf, built from the end of
\* the text.
LEMMA SymbolsExist ==
    ASSUME NEW src \in Seq(Nat)
    PROVE  \E f : SymbolsFrom(src, f, 0)
<1> DEFINE n == Len(src)
           S == {m \in 0..n : \E f : SymbolsFrom(src, f, n - m)}
<1>0. n \in Nat
  OBVIOUS
<1>1. 0 \in S
  <2> DEFINE f == [k \in Nat |-> <<>>]
  <2>1. \A k \in Nat : k >= n \/ k < n - 0
    BY <1>0
  <2>2. SymbolsFrom(src, f, n - 0)
    BY <1>0, <2>1 DEF SymbolsFrom
  <2> QED
    BY <1>0, <2>2
<1>2. ASSUME NEW m \in 0..(n - 1), m \in S PROVE m + 1 \in S
  <2>1. PICK f : SymbolsFrom(src, f, n - m)
    BY <1>2
  <2> DEFINE low == n - (m + 1)
             g == [k \in Nat |-> IF k = low THEN <<SymbolAt(src, k)>> \o f[After(src, k)]
                                 ELSE f[k]]
  <2>2. low \in Nat /\ low < n /\ n - m = low + 1
    BY <1>0
  <2>a. \A k \in Nat : g[k] = IF k = low THEN <<SymbolAt(src, k)>> \o f[After(src, k)]
                               ELSE f[k]
    OBVIOUS
  <2>b. DOMAIN g = Nat /\ g = [k \in DOMAIN g |-> g[k]]
    OBVIOUS
  <2> HIDE DEF g
  <2>3. \A k \in Nat : k >= low => g[After(src, k)] = f[After(src, k)]
    <3> SUFFICES ASSUME NEW k \in Nat, k >= low
                 PROVE  g[After(src, k)] = f[After(src, k)]
      OBVIOUS
    <3>1. After(src, k) \in Nat /\ After(src, k) # low
      BY <2>2, SymbolStep
    <3> QED
      BY <2>a, <3>1
  <2>4. ASSUME NEW k \in Nat
        PROVE  g[k] = IF k >= n \/ k < low THEN <<>>
                      ELSE <<SymbolAt(src, k)>> \o g[After(src, k)]
    <3>1. f[k] = IF k >= n \/ k < n - m THEN <<>>
                 ELSE <<SymbolAt(src, k)>> \o f[After(src, k)]
      BY <2>1 DEF SymbolsFrom
    <3>2. CASE k = low
      <4>1. g[k] = <<SymbolAt(src, k)>> \o f[After(src, k)]
        BY <2>a, <3>2
      <4>2. g[After(src, k)] = f[After(src, k)] /\ ~(k >= n \/ k < low)
        BY <2>2, <2>3, <3>2
      <4> QED
        BY <4>1, <4>2
    <3>3. CASE k # low
      <4> USE <2>2
      <4>1. g[k] = f[k]
        BY <2>a, <3>3
      <4>2. k < n - m <=> k < low
        <5> HIDE DEF n, low
        <5> QED
          BY <1>0, <3>3
      <4>3. CASE k >= n \/ k < low
        BY <3>1, <4>1, <4>2, <4>3
      <4>4. CASE ~(k >= n \/ k < low)
        <5>1. f[After(src, k)] = g[After(src, k)]
          BY <2>2, <2>3, <4>4
        <5> QED
          BY <3>1, <4>1, <4>2, <4>4, <5>1
      <4> QED
        BY <4>3, <4>4
    <3> QED
      BY <3>2, <3>3
  <2>5. g = [k \in Nat |-> IF k >= n \/ k < low THEN <<>>
                           ELSE <<SymbolAt(src, k)>> \o g[After(src, k)]]
    <3> HIDE DEF low
    <3> DEFINE h == [k \in Nat |-> IF k >= n \/ k < low THEN <<>>
                           ELSE <<SymbolAt(src, k)>> \o g[After(src, k)]]
    <3>1. \A k \in Nat : g[k] = h[k]
      BY <2>4
    <3>2. DOMAIN h = Nat /\ h = [k \in DOMAIN h |-> h[k]]
      OBVIOUS
    <3> QED
      BY ONLY <2>b, <3>1, <3>2
  <2>6. SymbolsFrom(src, g, low)
    BY <2>5 DEF SymbolsFrom
  <2> QED
    BY <1>0, <2>6
<1>3. n \in S
  <2> HIDE DEF S, n
  <2> QED
    BY <1>0, <1>1, <1>2, UpTo
<1> QED
  BY <1>0, <1>3

\* What is read from each offset on.
ReadFrom(src, from) ==
    /\ SymbolsOf(src) = from[0]
    /\ \A k \in Nat : k >= Len(src) => from[k] = <<>>
    /\ \A k \in Nat : k < Len(src) => from[k] = <<SymbolAt(src, k)>> \o from[After(src, k)]

\* SymbolsOf is what its recursion says.
LEMMA SymbolsBy ==
    ASSUME NEW src \in Seq(Nat)
    PROVE  \E from : ReadFrom(src, from)
<1> DEFINE Eq(f) == f = [k \in Nat |-> IF k >= Len(src) THEN <<>>
                                       ELSE <<SymbolAt(src, k)>> \o f[After(src, k)]]
           from == CHOOSE f : Eq(f)
<1>1. Eq(from)
  <2>1. PICK f : SymbolsFrom(src, f, 0)
    BY SymbolsExist
  <2>2. \A k \in Nat : ~(k < 0)
    OBVIOUS
  <2>3. Eq(f)
    BY <2>1, <2>2 DEF SymbolsFrom
  <2> HIDE DEF Eq
  <2> QED
    BY <2>3
<1>2. SymbolsOf(src) = from[0]
  BY DEF SymbolsOf
<1> HIDE DEF from
<1>3. \A k \in Nat : from[k] = IF k >= Len(src) THEN <<>>
                               ELSE <<SymbolAt(src, k)>> \o from[After(src, k)]
  BY <1>1
<1> HIDE DEF Eq
<1>4. \A k \in Nat : k < Len(src) => ~(k >= Len(src))
  OBVIOUS
<1>5. ReadFrom(src, from)
  BY <1>2, <1>3, <1>4 DEF ReadFrom
<1> QED
  BY <1>5

\* Symbols that are reached from the start through offsets of a set.
LEMMA SymbolsReached ==
    ASSUME NEW src \in Seq(Nat), NEW S \in SUBSET Nat, 0 \in S, NEW T,
           \A k \in S : k < Len(src) => After(src, k) \in S /\ SymbolAt(src, k) \in T
    PROVE  SymbolsOf(src) \in Seq(T)
<1> DEFINE n == Len(src)
<1>1. n \in Nat
  OBVIOUS
<1>2. PICK from : ReadFrom(src, from)
  BY SymbolsBy
<1> DEFINE Good == {m \in 0..n : \A k \in S : k >= n - m => from[k] \in Seq(T)}
<1>3. 0 \in Good
  <2>1. <<>> \in Seq(T)
    OBVIOUS
  <2>2. \A k \in S : k >= n - 0 => k \in Nat /\ k >= n
    BY <1>1
  <2>3. \A k \in S : k >= n - 0 => from[k] \in Seq(T)
    BY <1>2, <2>1, <2>2 DEF ReadFrom
  <2>4. 0 \in 0..n
    BY <1>1
  <2> QED
    BY <2>3, <2>4
<1>4. ASSUME NEW m \in 0..(n - 1), m \in Good PROVE m + 1 \in Good
  <2> SUFFICES ASSUME NEW k \in S, k >= n - (m + 1) PROVE from[k] \in Seq(T)
    BY <1>1
  <2>1. CASE k >= n - m
    BY <1>4, <2>1
  <2>2. CASE ~(k >= n - m)
    <3>1. k < n /\ k \in Nat
      BY <1>1, <2>2
    <3>2. After(src, k) \in S /\ After(src, k) >= n - m
      BY <1>1, <2>2, <3>1, SymbolStep
    <3>3. from[After(src, k)] \in Seq(T)
      BY <1>4, <3>2
    <3>4. SymbolAt(src, k) \in T
      BY <3>1
    <3>5. <<SymbolAt(src, k)>> \in Seq(T)
      BY <3>4
    <3>6. from[k] = <<SymbolAt(src, k)>> \o from[After(src, k)]
      BY <1>2, <3>1 DEF ReadFrom
    <3> QED
      BY <3>3, <3>5, <3>6, ConcatProperties
  <2> QED
    BY <2>1, <2>2
<1>5. n \in Good
  <2> HIDE DEF Good, n
  <2> QED
    BY <1>1, <1>3, <1>4, UpTo
<1>6. 0 \in S /\ 0 >= n - n
  BY <1>1
<1> QED
  BY <1>2, <1>5, <1>6 DEF ReadFrom

-----------------------------------------------------------------------------
(* Sequences of sequences, made flat.                                      *)

\* What FlattenSeq has after each of the sequences.
FlatBy(seqs, f) ==
    \A i \in 1..Len(seqs) : f[i] = IF i = 1 THEN seqs[i] ELSE f[i - 1] \o seqs[i]

\* FlattenSeq is what its recursion says.
LEMMA FlattenRuns ==
    ASSUME NEW X, NEW seqs \in Seq(Seq(X)), seqs # <<>>
    PROVE  \E f \in [1..Len(seqs) -> Seq(X)] :
             FlatBy(seqs, f) /\ FlattenSeq(seqs) = f[Len(seqs)]
<1> DEFINE n == Len(seqs)
           T == Seq(X)
           step == [k \in 1..n |-> [x \in T |-> x \o seqs[k]]]
           Eq(f) == f = [i \in 1..n |-> IF i = 1 THEN seqs[i] ELSE f[i - 1] \o seqs[i]]
           flat == CHOOSE f : Eq(f)
<1>1. n \in Nat \ {0} /\ \A k \in 1..n : seqs[k] \in T
  OBVIOUS
<1>2. \A x, y \in T : x \o y \in T
  OBVIOUS
<1>3. step \in StepsOf(n, T) /\ <<>> \in T
  BY <1>1, <1>2 DEF StepsOf
<1>4. PICK g \in [0..n -> T] : g[0] = <<>> /\ \A k \in 1..n : g[k] = step[k][g[k - 1]]
  <2> HIDE DEF n, T, step
  <2>1. CanRun(T, n, <<>>, step)
    BY <1>1, <1>3, RunExists
  <2> QED
    BY <2>1 DEF CanRun
<1> DEFINE f == [i \in 1..n |-> g[i]]
<1>5. ASSUME NEW i \in 1..n
      PROVE  /\ f[i] \in T
             /\ f[i] = IF i = 1 THEN seqs[i] ELSE f[i - 1] \o seqs[i]
  <2>1. i - 1 \in 0..n /\ i \in 0..n
    BY <1>1
  <2>2. g[i - 1] \in T /\ g[i] \in T /\ f[i] = g[i]
    BY <1>4, <2>1
  <2>3. step[i][g[i - 1]] = g[i - 1] \o seqs[i]
    <3> HIDE DEF T
    <3> QED
      BY <2>2
  <2>4. g[i] = g[i - 1] \o seqs[i]
    BY <1>4, <2>3
  <2>5. CASE i = 1
    <3>1. g[i - 1] = <<>>
      BY <1>4, <2>5
    <3>2. <<>> \o seqs[i] = seqs[i]
      BY <1>1
    <3> QED
      BY <2>2, <2>4, <2>5, <3>1, <3>2
  <2>6. CASE i # 1
    <3>1. f[i - 1] = g[i - 1]
      BY <1>1, <2>6
    <3> HIDE DEF f
    <3> QED
      BY <2>2, <2>4, <2>6, <3>1
  <2> QED
    BY <2>5, <2>6
<1>6. Eq(f)
  <2> DEFINE h == [i \in 1..n |-> IF i = 1 THEN seqs[i] ELSE f[i - 1] \o seqs[i]]
  <2>1. \A i \in 1..n : f[i] = h[i]
    BY <1>5
  <2>2. f = [i \in 1..n |-> f[i]] /\ h = [i \in 1..n |-> h[i]]
    OBVIOUS
  <2>3. f = h
    <3> HIDE DEF h, f
    <3> QED
      BY <2>1, <2>2
  <2> QED
    BY <2>3
<1>7. Eq(flat)
  <2> HIDE DEF Eq
  <2> QED
    BY <1>6
<1>8. FlattenSeq(seqs) = flat[n]
  BY <1>1 DEF FlattenSeq
<1> HIDE DEF flat
<1> DEFINE S == {m \in 0..n : m = 0 \/ flat[m] \in T}
<1>9. ASSUME NEW m \in 0..(n - 1), m \in S PROVE m + 1 \in S
  <2>1. m + 1 \in 1..n /\ (m + 1) - 1 = m /\ m + 1 \in 0..n
    OBVIOUS
  <2>2. flat[m + 1] = IF m + 1 = 1 THEN seqs[m + 1] ELSE flat[m] \o seqs[m + 1]
    BY <1>7, <2>1
  <2>3. flat[m + 1] \in T
    <3>1. CASE m = 0
      BY <1>1, <2>1, <2>2, <3>1
    <3>2. CASE m # 0
      <4>1. flat[m] \in T /\ m + 1 # 1
        BY <1>9, <3>2
      <4> QED
        BY <1>1, <1>2, <2>1, <2>2, <4>1
    <3> QED
      BY <3>1, <3>2
  <2> QED
    BY <2>1, <2>3
<1>10. ASSUME NEW m \in 1..n PROVE flat[m] \in T
  <2>1. 0 \in S /\ m \in Nat
    BY <1>1
  <2>2. \A i \in 0..(m - 1) : i \in S => i + 1 \in S
    BY <1>1, <1>9
  <2> HIDE DEF S
  <2>3. m \in S
    BY <2>1, <2>2, UpTo
  <2> QED
    BY <2>3 DEF S
<1>11. flat \in [1..n -> T]
  <2>1. flat = [i \in 1..n |-> flat[i]]
    BY <1>7
  <2> QED
    BY <1>10, <2>1
<1>12. FlatBy(seqs, flat)
  BY <1>7 DEF FlatBy
<1> QED
  BY <1>8, <1>11, <1>12

\* Nothing in a row is nothing.
LEMMA FlattenEmpty == FlattenSeq(<<>>) = <<>>
BY DEF FlattenSeq

\* What is in a row is of the elements that were.
LEMMA FlattenType ==
    ASSUME NEW X, NEW seqs \in Seq(Seq(X))
    PROVE  FlattenSeq(seqs) \in Seq(X)
<1>1. CASE seqs = <<>>
  <2>1. FlattenSeq(seqs) = <<>>
    BY <1>1, FlattenEmpty, Zenon
  <2> QED
    BY <2>1
<1>2. CASE seqs # <<>>
  <2>1. PICK f \in [1..Len(seqs) -> Seq(X)] : FlattenSeq(seqs) = f[Len(seqs)]
    BY <1>2, FlattenRuns
  <2>2. Len(seqs) \in 1..Len(seqs)
    BY <1>2
  <2> QED
    BY <2>1, <2>2
<1> QED
  BY <1>1, <1>2

\* One sequence more.
LEMMA FlattenAppend ==
    ASSUME NEW X, NEW seqs \in Seq(Seq(X)), NEW last \in Seq(X)
    PROVE  FlattenSeq(Append(seqs, last)) = FlattenSeq(seqs) \o last
<1> DEFINE more == Append(seqs, last)
           n == Len(seqs)
<1>1. /\ more \in Seq(Seq(X)) /\ more # <<>> /\ Len(more) = n + 1 /\ more[n + 1] = last
      /\ n \in Nat /\ \A i \in 1..n : more[i] = seqs[i]
  <2> DEFINE Y == Seq(X)
  <2>1. seqs \in Seq(Y) /\ last \in Y
    OBVIOUS
  <2> HIDE DEF Y
  <2>2. Append(seqs, last) \in Seq(Y) /\ n \in Nat
    BY <2>1
  <2>3. Len(more) = n + 1 /\ more[n + 1] = last /\ \A i \in 1..n : more[i] = seqs[i]
    BY <2>1, <2>2
  <2>4. more # <<>>
    <3>1. Len(more) # 0
      BY <2>2, <2>3
    <3>2. Len(<<>>) = 0
      OBVIOUS
    <3> QED
      BY <3>1, <3>2, Zenon
  <2> QED
    BY <2>2, <2>3, <2>4 DEF Y
<1> HIDE DEF more
<1>2. PICK g \in [1..(n + 1) -> Seq(X)] : FlatBy(more, g) /\ FlattenSeq(more) = g[n + 1]
  BY <1>1, FlattenRuns
<1>3. CASE seqs = <<>>
  <2>1. n = 0 /\ 1 \in 1..Len(more)
    BY <1>1, <1>3
  <2>2. g[1] = last
    BY <1>1, <1>2, <2>1 DEF FlatBy
  <2>3. <<>> \o last = last
    OBVIOUS
  <2> QED
    BY <1>2, <1>3, <2>1, <2>2, <2>3, FlattenEmpty DEF more
<1>4. CASE seqs # <<>>
  <2>0. n # 0
    BY <1>4
  <2>1. PICK f \in [1..n -> Seq(X)] : FlatBy(seqs, f) /\ FlattenSeq(seqs) = f[n]
    BY <1>4, FlattenRuns
  <2> DEFINE S == {m \in 0..n : m = 0 \/ f[m] = g[m]}
  <2>2. ASSUME NEW m \in 0..(n - 1), m \in S PROVE m + 1 \in S
    <3>1. m + 1 \in 1..n /\ (m + 1) - 1 = m /\ m + 1 \in 1..Len(more) /\ m + 1 \in 0..n
      BY <1>1
    <3>2. /\ f[m + 1] = IF m + 1 = 1 THEN seqs[m + 1] ELSE f[m] \o seqs[m + 1]
          /\ g[m + 1] = IF m + 1 = 1 THEN more[m + 1] ELSE g[m] \o more[m + 1]
          /\ more[m + 1] = seqs[m + 1]
      BY <1>1, <1>2, <2>1, <3>1 DEF FlatBy
    <3>3. m + 1 = 1 \/ f[m] = g[m]
      BY <2>2
    <3> QED
      BY <3>1, <3>2, <3>3
  <2>3. n \in S
    <3>1. 0 \in S
      BY <1>1
    <3> HIDE DEF S
    <3> QED
      BY <1>1, <2>2, <3>1, UpTo
  <2>4. f[n] = g[n]
    BY <2>0, <2>3
  <2>5. g[n + 1] = g[n] \o last
    <3>1. n + 1 \in 1..Len(more) /\ n + 1 # 1 /\ (n + 1) - 1 = n
      BY <1>1, <2>0
    <3> QED
      BY <1>1, <1>2, <3>1 DEF FlatBy
  <2> QED
    BY <1>2, <2>1, <2>4, <2>5 DEF more
<1> QED
  BY <1>3, <1>4

\* What each element of a sequence stands for, in a row.
Mapped(f, list) == FlattenSeq([i \in 1..Len(list) |-> f[list[i]]])

\* f stands for the elements of D, in a list and in one that is longer.
Maps(f, D, X, list, last) == f \in [D -> Seq(X)] /\ list \in Seq(D) /\ last \in D

\* What the last element of the longer list stands for comes last.
MapsOn(f, X, list, last) ==
    /\ Mapped(f, list) \in Seq(X)
    /\ Mapped(f, Append(list, last)) = Mapped(f, list) \o f[last]

\* One element more.
LEMMA FlattenMap ==
    ASSUME NEW X, NEW D, NEW f, NEW list, NEW last, Maps(f, D, X, list, last)
    PROVE  MapsOn(f, X, list, last)
<1> DEFINE longer == Append(list, last)
           Y == Seq(X)
           n == Len(list)
           parts == [i \in 1..n |-> f[list[i]]]
           all == [i \in 1..Len(longer) |-> f[longer[i]]]
<1>1. /\ n \in Nat /\ Len(longer) = n + 1 /\ longer[n + 1] = last
      /\ \A i \in 1..n : longer[i] = list[i] /\ list[i] \in D
  BY DEF Maps
<1>2. f[last] \in Y /\ \A i \in 1..n : f[list[i]] \in Y
  BY <1>1 DEF Maps
<1> HIDE DEF Y, longer
<1>3. parts \in Seq(Y) /\ Len(parts) = n /\ \A i \in 1..n : parts[i] = f[list[i]]
  BY <1>1, <1>2
<1>4. \A i \in 1..(n + 1) : f[longer[i]] \in Y
  <2> SUFFICES ASSUME NEW i \in 1..(n + 1) PROVE f[longer[i]] \in Y
    OBVIOUS
  <2>1. i \in 1..n \/ i = n + 1
    BY <1>1
  <2> QED
    BY <1>1, <1>2, <2>1
<1>5. /\ all \in Seq(Y) /\ Len(all) = n + 1
      /\ \A i \in 1..(n + 1) : all[i] = f[longer[i]]
  BY <1>1, <1>4
<1> HIDE DEF parts, all
<1> DEFINE sum == Append(parts, f[last])
<1>6. /\ sum \in Seq(Y) /\ Len(sum) = n + 1 /\ sum[n + 1] = f[last]
      /\ \A i \in 1..n : sum[i] = parts[i]
  BY <1>1, <1>2, <1>3
<1> HIDE DEF sum
<1>7. all = sum
  <2>1. ASSUME NEW i \in 1..(n + 1) PROVE all[i] = sum[i]
    <3>1. i \in 1..n \/ i = n + 1
      BY <1>1
    <3> QED
      BY <1>1, <1>3, <1>5, <1>6, <3>1
  <2>2. Len(all) = Len(sum) /\ \A i \in 1..Len(all) : all[i] = sum[i]
    BY <1>5, <1>6, <2>1
  <2> QED
    BY <1>5, <1>6, <2>2, SeqEqual
<1>8. FlattenSeq(sum) = FlattenSeq(parts) \o f[last]
  BY <1>2, <1>3, FlattenAppend DEF sum, Y
<1>9. FlattenSeq(parts) \in Seq(X)
  BY <1>3, FlattenType DEF Y
<1> QED
  BY <1>7, <1>8, <1>9 DEF parts, all, longer, Mapped, MapsOn

-----------------------------------------------------------------------------
(* Symbols and their bytes.                                                *)

\* The bytes say how many they are, and which symbol; a symbol below 128, and no
\* other, has a byte below 128, its only one.
ReadsAs(bytes, symbol) ==
    /\ bytes \in Seq(Nat) /\ bytes # <<>>
    /\ Len(bytes) = SequenceLength(bytes[1])
    /\ \A marked \in Seq(Nat) :
         (Len(marked) = Len(bytes) - 1 /\ \A i \in 1..Len(marked) : marked[i] = bytes[i + 1])
         => Decode(LeadBits(bytes[1]), marked) = symbol
    /\ (symbol < 128 \/ \E i \in 1..Len(bytes) : bytes[i] < 128) => bytes = <<symbol>>

\* A symbol of one byte.
LEMMA OneByte ==
    ASSUME NEW symbol \in Nat, symbol < 128
    PROVE  ReadsAs(<<symbol>>, symbol)
<1> DEFINE bytes == <<symbol>>
<1>1. bytes \in Seq(Nat) /\ bytes # <<>> /\ Len(bytes) = 1 /\ bytes[1] = symbol
  OBVIOUS
<1>2. SequenceLength(symbol) = 1 /\ LeadBits(symbol) = symbol
  BY DEF SequenceLength, LeadBits
<1>3. ASSUME NEW marked \in Seq(Nat), Len(marked) = 0
      PROVE  Decode(symbol, marked) = symbol
  <2>1. PICK cp : DecodedBy(cp, symbol, marked)
    BY DecodeRuns
  <2> QED
    BY <1>3, <2>1 DEF DecodedBy
<1> HIDE DEF bytes
<1>4. ReadsAs(bytes, symbol)
  BY <1>1, <1>2, <1>3 DEF ReadsAs, bytes
<1> QED
  BY <1>4 DEF bytes

\* A symbol of two digits, and its bytes.
TwoDigits(symbol, a, d, u, v) ==
    /\ a \in 2..31 /\ d \in 0..63
    /\ symbol \in Nat /\ symbol >= 128 /\ symbol = (a * 64) + d
    /\ u \in Nat /\ u = 192 + a /\ v \in Nat /\ v = 128 + d

\* A symbol of two bytes.
LEMMA TwoBytes ==
    ASSUME NEW symbol, NEW a, NEW d, NEW u, NEW v, TwoDigits(symbol, a, d, u, v)
    PROVE  ReadsAs(<<u, v>>, symbol)
<1> USE DEF TwoDigits
<1> DEFINE bytes == <<u, v>>
<1>1. /\ bytes \in Seq(Nat) /\ bytes # <<>> /\ Len(bytes) = 2
      /\ bytes[1] = u /\ bytes[2] = v
  OBVIOUS
<1> HIDE DEF bytes
<1>2. SequenceLength(u) = 2 /\ LeadBits(u) = a
  <2>1. u \in Nat /\ u \in 192..223 /\ u % 32 = a
    OBVIOUS
  <2>2. SequenceLength(u) = 2
    BY <2>1 DEF SequenceLength
  <2>3. LeadBits(u) = a
    BY <2>1 DEF LeadBits
  <2> QED
    BY <2>2, <2>3
<1>3. ASSUME NEW marked \in Seq(Nat), Len(marked) = 1, marked[1] = v
      PROVE  Decode(a, marked) = symbol
  <2>1. PICK cp : DecodedBy(cp, a, marked)
    <3>1. a \in Nat
      OBVIOUS
    <3> QED
      BY <3>1, DecodeRuns
  <2>2. /\ cp[0] = a
        /\ \A k \in 1..1 : cp[k] = (cp[k - 1] * 64) + (marked[k] % 64)
        /\ Decode(a, marked) = cp[1]
    BY <1>3, <2>1 DEF DecodedBy
  <2>3. v % 64 = d
    OBVIOUS
  <2>4. cp[1] = (a * 64) + d /\ cp[1] \in Nat
    <3>1. cp[1] = (cp[0] * 64) + (v % 64)
      BY <1>3, <2>2
    <3> QED
      BY <2>2, <2>3, <3>1
  <2> QED
    BY <2>2, <2>4
<1>4. \A i \in 1..Len(bytes) : ~(bytes[i] < 128)
  <2>1. \A i \in 1..Len(bytes) : i = 1 \/ i = 2
    BY <1>1
  <2>2. ~(u < 128) /\ ~(v < 128)
    OBVIOUS
  <2> QED
    BY <1>1, <2>1, <2>2
<1>5. \A marked \in Seq(Nat) :
        (Len(marked) = Len(bytes) - 1 /\ \A i \in 1..Len(marked) : marked[i] = bytes[i + 1])
        => Decode(LeadBits(bytes[1]), marked) = symbol
  <2> SUFFICES ASSUME NEW marked \in Seq(Nat), Len(marked) = Len(bytes) - 1,
                      \A i \in 1..Len(marked) : marked[i] = bytes[i + 1]
               PROVE  Decode(LeadBits(bytes[1]), marked) = symbol
    OBVIOUS
  <2>1. Len(marked) = 1 /\ marked[1] = v
    BY <1>1
  <2> QED
    BY <1>1, <1>2, <1>3, <2>1
<1>6. ~(symbol < 128)
  OBVIOUS
<1>7. ReadsAs(bytes, symbol)
  BY <1>1, <1>2, <1>4, <1>5, <1>6 DEF ReadsAs
<1> QED
  BY <1>7 DEF bytes

\* A symbol of three digits, and its bytes.
ThreeDigits(symbol, a, c, d, u, v, w) ==
    /\ a \in 0..15 /\ c \in 0..63 /\ d \in 0..63
    /\ symbol \in Nat /\ symbol >= 128 /\ symbol = (((a * 64) + c) * 64) + d
    /\ u \in Nat /\ u = 224 + a /\ v \in Nat /\ v = 128 + c /\ w \in Nat /\ w = 128 + d

\* A symbol of three bytes.
LEMMA ThreeBytes ==
    ASSUME NEW symbol, NEW a, NEW c, NEW d, NEW u, NEW v, NEW w,
           ThreeDigits(symbol, a, c, d, u, v, w)
    PROVE  ReadsAs(<<u, v, w>>, symbol)
<1> USE DEF ThreeDigits
<1> DEFINE bytes == <<u, v, w>>
<1>1. /\ bytes \in Seq(Nat) /\ bytes # <<>> /\ Len(bytes) = 3
      /\ bytes[1] = u /\ bytes[2] = v /\ bytes[3] = w
  OBVIOUS
<1> HIDE DEF bytes
<1>2. SequenceLength(u) = 3 /\ LeadBits(u) = a
  <2>1. u \in Nat /\ u \in 224..239 /\ u % 16 = a
    OBVIOUS
  <2>2. SequenceLength(u) = 3
    BY <2>1 DEF SequenceLength
  <2>3. LeadBits(u) = a
    BY <2>1 DEF LeadBits
  <2> QED
    BY <2>2, <2>3
<1>3. ASSUME NEW marked \in Seq(Nat), Len(marked) = 2, marked[1] = v, marked[2] = w
      PROVE  Decode(a, marked) = symbol
  <2>1. PICK cp : DecodedBy(cp, a, marked)
    <3>1. a \in Nat
      OBVIOUS
    <3> QED
      BY <3>1, DecodeRuns
  <2>2. /\ cp[0] = a
        /\ \A k \in 1..2 : cp[k] = (cp[k - 1] * 64) + (marked[k] % 64)
        /\ Decode(a, marked) = cp[2]
    BY <1>3, <2>1 DEF DecodedBy
  <2>3. v % 64 = c /\ w % 64 = d
    OBVIOUS
  <2>4. cp[1] = (a * 64) + c /\ cp[1] \in Nat
    <3>1. cp[1] = (cp[0] * 64) + (v % 64)
      BY <1>3, <2>2
    <3> QED
      BY <2>2, <2>3, <3>1
  <2>5. cp[2] = (((a * 64) + c) * 64) + d /\ cp[2] \in Nat
    <3>1. cp[2] = (cp[1] * 64) + (w % 64)
      BY <1>3, <2>2
    <3> QED
      BY <2>2, <2>3, <2>4, <3>1
  <2> QED
    BY <2>2, <2>5
<1>4. \A i \in 1..Len(bytes) : ~(bytes[i] < 128)
  <2>1. \A i \in 1..Len(bytes) : i = 1 \/ i = 2 \/ i = 3
    BY <1>1
  <2>2. ~(u < 128) /\ ~(v < 128) /\ ~(w < 128)
    OBVIOUS
  <2> QED
    BY <1>1, <2>1, <2>2
<1>5. \A marked \in Seq(Nat) :
        (Len(marked) = Len(bytes) - 1 /\ \A i \in 1..Len(marked) : marked[i] = bytes[i + 1])
        => Decode(LeadBits(bytes[1]), marked) = symbol
  <2> SUFFICES ASSUME NEW marked \in Seq(Nat), Len(marked) = Len(bytes) - 1,
                      \A i \in 1..Len(marked) : marked[i] = bytes[i + 1]
               PROVE  Decode(LeadBits(bytes[1]), marked) = symbol
    OBVIOUS
  <2>1. Len(marked) = 2 /\ marked[1] = v /\ marked[2] = w
    BY <1>1
  <2> QED
    BY <1>1, <1>2, <1>3, <2>1
<1>6. ~(symbol < 128)
  OBVIOUS
<1>7. ReadsAs(bytes, symbol)
  BY <1>1, <1>2, <1>4, <1>5, <1>6 DEF ReadsAs
<1> QED
  BY <1>7 DEF bytes

\* A symbol of four digits, and its bytes.
FourDigits(symbol, a, b, c, d, u, v, w, x) ==
    /\ a \in 0..7 /\ b \in 0..63 /\ c \in 0..63 /\ d \in 0..63
    /\ symbol \in Nat /\ symbol >= 128 /\ symbol = (((((a * 64) + b) * 64) + c) * 64) + d
    /\ u \in Nat /\ u = 240 + a /\ v \in Nat /\ v = 128 + b
    /\ w \in Nat /\ w = 128 + c /\ x \in Nat /\ x = 128 + d

\* A symbol of four bytes.
LEMMA FourBytes ==
    ASSUME NEW symbol, NEW a, NEW b, NEW c, NEW d, NEW u, NEW v, NEW w, NEW x,
           FourDigits(symbol, a, b, c, d, u, v, w, x)
    PROVE  ReadsAs(<<u, v, w, x>>, symbol)
<1> USE DEF FourDigits
<1> DEFINE bytes == <<u, v, w, x>>
<1>1. /\ bytes \in Seq(Nat) /\ bytes # <<>> /\ Len(bytes) = 4
      /\ bytes[1] = u /\ bytes[2] = v /\ bytes[3] = w /\ bytes[4] = x
  OBVIOUS
<1> HIDE DEF bytes
<1>2. SequenceLength(u) = 4 /\ LeadBits(u) = a
  <2>1. u \in Nat /\ u \in 240..247 /\ u % 8 = a
    OBVIOUS
  <2>2. SequenceLength(u) = 4
    BY <2>1 DEF SequenceLength
  <2>3. LeadBits(u) = a
    BY <2>1 DEF LeadBits
  <2> QED
    BY <2>2, <2>3
<1>3. ASSUME NEW marked \in Seq(Nat), Len(marked) = 3, marked[1] = v, marked[2] = w, marked[3] = x
      PROVE  Decode(a, marked) = symbol
  <2>1. PICK cp : DecodedBy(cp, a, marked)
    <3>1. a \in Nat
      OBVIOUS
    <3> QED
      BY <3>1, DecodeRuns
  <2>2. /\ cp[0] = a
        /\ \A k \in 1..3 : cp[k] = (cp[k - 1] * 64) + (marked[k] % 64)
        /\ Decode(a, marked) = cp[3]
    BY <1>3, <2>1 DEF DecodedBy
  <2>3. v % 64 = b /\ w % 64 = c /\ x % 64 = d
    OBVIOUS
  <2>4. cp[1] = (a * 64) + b /\ cp[1] \in Nat
    <3>1. cp[1] = (cp[0] * 64) + (v % 64)
      BY <1>3, <2>2
    <3> QED
      BY <2>2, <2>3, <3>1
  <2>5. cp[2] = (((a * 64) + b) * 64) + c /\ cp[2] \in Nat
    <3>1. cp[2] = (cp[1] * 64) + (w % 64)
      BY <1>3, <2>2
    <3> QED
      BY <2>2, <2>3, <2>4, <3>1
  <2>6. cp[3] = (((((a * 64) + b) * 64) + c) * 64) + d /\ cp[3] \in Nat
    <3>1. cp[3] = (cp[2] * 64) + (x % 64)
      BY <1>3, <2>2
    <3> QED
      BY <2>2, <2>3, <2>5, <3>1
  <2> QED
    BY <2>2, <2>6
<1>4. \A i \in 1..Len(bytes) : ~(bytes[i] < 128)
  <2>1. \A i \in 1..Len(bytes) : i = 1 \/ i = 2 \/ i = 3 \/ i = 4
    BY <1>1
  <2>2. ~(u < 128) /\ ~(v < 128) /\ ~(w < 128) /\ ~(x < 128)
    OBVIOUS
  <2> QED
    BY <1>1, <2>1, <2>2
<1>5. \A marked \in Seq(Nat) :
        (Len(marked) = Len(bytes) - 1 /\ \A i \in 1..Len(marked) : marked[i] = bytes[i + 1])
        => Decode(LeadBits(bytes[1]), marked) = symbol
  <2> SUFFICES ASSUME NEW marked \in Seq(Nat), Len(marked) = Len(bytes) - 1,
                      \A i \in 1..Len(marked) : marked[i] = bytes[i + 1]
               PROVE  Decode(LeadBits(bytes[1]), marked) = symbol
    OBVIOUS
  <2>1. Len(marked) = 3 /\ marked[1] = v /\ marked[2] = w /\ marked[3] = x
    BY <1>1
  <2> QED
    BY <1>1, <1>2, <1>3, <2>1
<1>6. ~(symbol < 128)
  OBVIOUS
<1>7. ReadsAs(bytes, symbol)
  BY <1>1, <1>2, <1>4, <1>5, <1>6 DEF ReadsAs
<1> QED
  BY <1>7 DEF bytes

\* The bytes of a symbol are its six-bit digits.
LEMMA Utf8Reads ==
    ASSUME NEW symbol \in CodePoints
    PROVE  ReadsAs(Utf8(symbol), symbol)
<1>1. symbol \in Nat
  BY SMT DEF CodePoints
<1> DEFINE d == symbol % 64
           p == symbol \div 64
           c == p % 64
           q == symbol \div 4096
           b == q % 64
           a == symbol \div 262144
<1>2. /\ d \in 0..63 /\ c \in 0..63 /\ b \in 0..63
      /\ p \in Nat /\ q \in Nat /\ a \in Nat
      /\ symbol = (p * 64) + d /\ p = (q * 64) + c /\ q = (a * 64) + b
  BY <1>1, SMT
<1>3. /\ symbol < 2048 => p < 32
      /\ symbol >= 128 => p >= 2
      /\ symbol < 65536 => q < 16
      /\ a < 8
  BY <1>1, SMT DEF CodePoints
<1>4. CASE symbol < 128
  <2>1. Utf8(symbol) = <<symbol>>
    BY <1>1, <1>4, SMT DEF Utf8
  <2> QED
    BY <1>1, <1>4, <2>1, OneByte
<1>5. CASE symbol >= 128 /\ symbol < 2048
  <2> DEFINE u == 192 + p
             v == 128 + d
  <2>1. Utf8(symbol) = <<u, v>>
    BY <1>1, <1>5, SMT DEF Utf8
  <2> HIDE DEF a, b, c, d, p, q
  <2>2. u = 192 + p /\ u \in Nat /\ v = 128 + d /\ v \in Nat
    BY <1>2, SMT
  <2> HIDE DEF u, v
  <2>3. p \in 2..31
    BY <1>2, <1>3, <1>5, SMT
  <2>4. TwoDigits(symbol, p, d, u, v)
    BY <1>1, <1>2, <1>5, <2>2, <2>3, SMT DEF TwoDigits
  <2>5. ReadsAs(<<u, v>>, symbol)
    BY <2>4, TwoBytes
  <2> QED
    BY <2>1, <2>5
<1>6. CASE symbol >= 2048 /\ symbol < 65536
  <2> DEFINE u == 224 + q
             v == 128 + c
             w == 128 + d
  <2>1. Utf8(symbol) = <<u, v, w>>
    BY <1>1, <1>6, SMT DEF Utf8
  <2> HIDE DEF a, b, c, d, p, q
  <2>2. u = 224 + q /\ u \in Nat /\ v = 128 + c /\ v \in Nat /\ w = 128 + d /\ w \in Nat
    BY <1>2, SMT
  <2> HIDE DEF u, v, w
  <2>3. q \in 0..15
    BY <1>2, <1>3, <1>6, SMT
  <2>4. symbol = (((q * 64) + c) * 64) + d
    BY <1>2, SMT
  <2>5. symbol >= 128
    BY <1>1, <1>6, SMT
  <2>6. ThreeDigits(symbol, q, c, d, u, v, w)
    BY <1>1, <1>2, <2>2, <2>3, <2>4, <2>5, SMT DEF ThreeDigits
  <2>7. ReadsAs(<<u, v, w>>, symbol)
    BY <2>6, ThreeBytes
  <2> QED
    BY <2>1, <2>7
<1>7. CASE symbol >= 65536
  <2> DEFINE u == 240 + a
             v == 128 + b
             w == 128 + c
             x == 128 + d
  <2>1. Utf8(symbol) = <<u, v, w, x>>
    BY <1>1, <1>7, SMT DEF Utf8
  <2> HIDE DEF a, b, c, d, p, q
  <2>2. u = 240 + a /\ u \in Nat /\ v = 128 + b /\ v \in Nat /\ w = 128 + c /\ w \in Nat /\ x = 128 + d /\ x \in Nat
    BY <1>2, SMT
  <2> HIDE DEF u, v, w, x
  <2>3. a \in 0..7
    BY <1>2, <1>3, SMT
  <2>4. symbol = (((((a * 64) + b) * 64) + c) * 64) + d
    BY <1>2, SMT
  <2>5. symbol >= 128
    BY <1>1, <1>7, SMT
  <2>6. FourDigits(symbol, a, b, c, d, u, v, w, x)
    BY <1>1, <1>2, <2>2, <2>3, <2>4, <2>5, SMT DEF FourDigits
  <2>7. ReadsAs(<<u, v, w, x>>, symbol)
    BY <2>6, FourBytes
  <2> QED
    BY <2>1, <2>7
<1> QED
  BY <1>1, <1>4, <1>5, <1>6, <1>7, SMT

-----------------------------------------------------------------------------
(* Texts whose symbols are whole.                                          *)

\* What a symbol adds to what is drawn: getline takes the newlines.
Visible(symbol) == IF symbol = 10 THEN <<>> ELSE <<symbol>>

\* Bounds are the offsets between the symbols of a text, and sofar what it shows
\* up to each of them.
Decodes(src, bounds, sofar) ==
    /\ src \in Seq(Nat)
    /\ bounds \in SUBSET (0..Len(src)) /\ 0 \in bounds /\ Len(src) \in bounds
    /\ sofar \in [bounds -> Seq(Nat)]
    /\ \A k \in bounds : k < Len(src) =>
         /\ After(src, k) \in bounds
         /\ \A j \in bounds : j > k => j >= After(src, k)
         /\ sofar[After(src, k)] = sofar[k] \o Visible(SymbolAt(src, k))
         /\ SymbolAt(src, k) = 10 <=> src[k + 1] = 10
    /\ \A j \in 0..(Len(src) - 1) : src[j + 1] = 10 => j \in bounds

\* A text that adds to what is shown.
ReadsText(src, before, after) ==
    \E bounds, sofar :
        Decodes(src, bounds, sofar) /\ sofar[0] = before /\ sofar[Len(src)] = after

\* A part between two bounds is such a text again.
LEMMA DecodesPart ==
    ASSUME NEW src, NEW bounds, NEW sofar, Decodes(src, bounds, sofar),
           NEW from \in bounds, NEW to \in bounds, from <= to
    PROVE  ReadsText(SubSeq(src, from + 1, to), sofar[from], sofar[to])
<1> DEFINE part == SubSeq(src, from + 1, to)
           inside == {j \in 0..(to - from) : from + j \in bounds}
           then == [j \in inside |-> sofar[from + j]]
<1>1. /\ src \in Seq(Nat) /\ Len(src) \in Nat /\ from \in 0..Len(src) /\ to \in 0..Len(src)
      /\ from \in Nat /\ to \in Nat
  BY DEF Decodes
<1>2. /\ part \in Seq(Nat) /\ Len(part) = to - from
      /\ \A j \in 1..(to - from) : part[j] = src[from + j]
  BY <1>1, PartElements
<1> HIDE DEF part
<1>3. /\ inside \in SUBSET (0..Len(part)) /\ 0 \in inside /\ Len(part) \in inside
      /\ then \in [inside -> Seq(Nat)]
      /\ \A j \in inside : then[j] = sofar[from + j] /\ j \in Nat
  <2>1. sofar \in [bounds -> Seq(Nat)]
    BY DEF Decodes
  <2>2. 0 \in inside /\ to - from \in inside
    BY <1>1
  <2> QED
    BY <1>2, <2>1, <2>2
<1> HIDE DEF then
<1>4. ASSUME NEW j \in inside, j < Len(part)
      PROVE  /\ After(part, j) \in inside
             /\ \A i \in inside : i > j => i >= After(part, j)
             /\ then[After(part, j)] = then[j] \o Visible(SymbolAt(part, j))
             /\ SymbolAt(part, j) = 10 <=> part[j + 1] = 10
  <2> DEFINE k == from + j
  <2>1. /\ k \in bounds /\ k < Len(src) /\ k \in from..(to - 1) /\ k - from = j /\ k < to
        /\ j \in Nat /\ k \in Nat /\ k = from + j
    BY <1>1, <1>2, <1>4
  <2> HIDE DEF k
  <2>2. /\ After(src, k) \in bounds
        /\ \A i \in bounds : i > k => i >= After(src, k)
        /\ sofar[After(src, k)] = sofar[k] \o Visible(SymbolAt(src, k))
        /\ SymbolAt(src, k) = 10 <=> src[k + 1] = 10
    BY <2>1 DEF Decodes
  <2>3. After(src, k) \in Nat /\ After(src, k) > k /\ After(src, k) <= to
    BY <2>1, <2>2, SymbolStep
  <2>4. After(part, j) = After(src, k) - from /\ SymbolAt(part, j) = SymbolAt(src, k)
    BY <1>1, <2>1, <2>3, SymbolOfPart DEF part
  <2>5. After(part, j) \in 0..(to - from) /\ from + After(part, j) = After(src, k)
    BY <1>1, <2>1, <2>3, <2>4
  <2>6. After(part, j) \in inside
    BY <2>2, <2>5
  <2>7. ASSUME NEW i \in inside, i > j PROVE i >= After(part, j)
    <3>1. from + i \in bounds /\ from + i > k /\ i \in Nat
      BY <1>1, <2>1, <2>7
    <3>2. from + i >= After(src, k)
      BY <2>2, <3>1
    <3> QED
      BY <1>1, <2>3, <2>4, <3>1, <3>2
  <2>8. then[After(part, j)] = then[j] \o Visible(SymbolAt(part, j))
    BY <1>3, <2>1, <2>2, <2>4, <2>5, <2>6
  <2>9. part[j + 1] = src[k + 1]
    <3>1. j + 1 \in 1..(to - from) /\ from + (j + 1) = k + 1
      BY <1>1, <2>1
    <3> QED
      BY <1>2, <3>1
  <2> QED
    BY <2>2, <2>4, <2>6, <2>7, <2>8, <2>9
<1>5. ASSUME NEW j \in 0..(Len(part) - 1), part[j + 1] = 10 PROVE j \in inside
  <2>1. /\ j + 1 \in 1..(to - from) /\ from + (j + 1) = (from + j) + 1
        /\ from + j \in 0..(Len(src) - 1) /\ j \in 0..(to - from)
    BY <1>1, <1>2
  <2>2. src[(from + j) + 1] = 10
    BY <1>2, <1>5, <2>1
  <2>3. from + j \in bounds
    BY <2>1, <2>2 DEF Decodes
  <2> QED
    BY <2>1, <2>3
<1>7. 0 \in inside /\ to - from \in inside /\ from + 0 = from /\ from + (to - from) = to
  BY <1>1
<1> HIDE DEF inside
<1>6. Decodes(part, inside, then)
  BY <1>2, <1>3, <1>4, <1>5 DEF Decodes
<1>8. then[0] = sofar[from] /\ then[to - from] = sofar[to]
  BY <1>3, <1>7
<1> QED
  BY <1>2, <1>6, <1>8 DEF ReadsText, part

\* Joining is associative.
LEMMA JoinThree ==
    ASSUME NEW x \in Seq(Nat), NEW y \in Seq(Nat), NEW z \in Seq(Nat)
    PROVE  (x \o y) \o z = x \o (y \o z)
BY SMT

\* Two more, one after the other.
LEMMA TwiceMore ==
    ASSUME NEW x \in Seq(Nat), NEW v \in Nat
    PROVE  (x \o <<v>>) \o <<v>> = x \o <<v, v>>
<1> DEFINE y == (x \o <<v>>) \o <<v>>
           z == x \o <<v, v>>
<1>1. /\ y \in Seq(Nat) /\ Len(y) = Len(x) + 2
      /\ \A i \in 1..Len(y) : y[i] = IF i <= Len(x) THEN x[i] ELSE v
  OBVIOUS
<1>2. /\ z \in Seq(Nat) /\ Len(z) = Len(x) + 2
      /\ \A i \in 1..Len(z) : z[i] = IF i <= Len(x) THEN x[i] ELSE v
  <2>1. <<v, v>> \in Seq(Nat) /\ Len(<<v, v>>) = 2
    OBVIOUS
  <2>2. <<v, v>>[1] = v /\ <<v, v>>[2] = v
    OBVIOUS
  <2> QED
    BY <2>1, <2>2
<1>3. \A i \in 1..Len(y) : y[i] = z[i]
  <2> HIDE DEF y, z
  <2> QED
    BY <1>1, <1>2
<1>4. Len(y) = Len(z)
  BY <1>1, <1>2
<1> HIDE DEF y, z
<1>5. y = z
  BY <1>1, <1>2, <1>3, <1>4, SeqEqual
<1> QED
  BY <1>5 DEF y, z

\* The symbols of a text without newlines are what it shows.
LEMMA DecodesSymbols ==
    ASSUME NEW src, NEW before, NEW after, ReadsText(src, before, after),
           \A i \in 1..Len(src) : src[i] # 10
    PROVE  after = before \o SymbolsOf(src)
<1>0. PICK bounds, sofar :
        Decodes(src, bounds, sofar) /\ sofar[0] = before /\ sofar[Len(src)] = after
  BY DEF ReadsText
<1> DEFINE n == Len(src)
<1>1. /\ src \in Seq(Nat) /\ n \in Nat /\ n \in bounds /\ 0 \in bounds
      /\ sofar \in [bounds -> Seq(Nat)] /\ \A k \in bounds : k \in Nat /\ k <= n
  BY <1>0 DEF Decodes
<1>2. PICK from : ReadFrom(src, from)
  BY <1>1, SymbolsBy
<1> DEFINE Rest(k) == from[k] \in Seq(Nat) /\ sofar[k] \o from[k] = sofar[n]
           Good == {m \in 0..n : \A k \in bounds : k >= n - m => Rest(k)}
<1>3. 0 \in Good
  <2> SUFFICES ASSUME NEW k \in bounds, k >= n - 0 PROVE Rest(k)
    BY <1>1
  <2>1. k = n
    BY <1>1
  <2>2. from[k] = <<>> /\ sofar[k] \in Seq(Nat)
    BY <1>1, <1>2, <2>1 DEF ReadFrom
  <2> QED
    BY <2>1, <2>2
<1>4. ASSUME NEW m \in 0..(n - 1), m \in Good PROVE m + 1 \in Good
  <2> SUFFICES ASSUME NEW k \in bounds, k >= n - (m + 1) PROVE Rest(k)
    BY <1>1
  <2>0. k \in Nat /\ k <= n
    BY <1>1
  <2>1. CASE k >= n - m
    BY <1>4, <2>1
  <2>2. CASE ~(k >= n - m)
    <3> DEFINE far == After(src, k)
               symbol == SymbolAt(src, k)
    <3>1. k < n /\ k \in 0..(n - 1) /\ k + 1 \in 1..n
      BY <1>1, <2>0, <2>2
    <3>2. /\ far \in bounds /\ sofar[far] = sofar[k] \o Visible(symbol)
          /\ symbol = 10 <=> src[k + 1] = 10
      BY <1>0, <3>1 DEF Decodes
    <3>3. Visible(symbol) = <<symbol>>
      BY <3>1, <3>2 DEF Visible
    <3>4. far \in Nat /\ far >= n - m
      BY <1>1, <2>0, <2>2, SymbolStep
    <3>5. symbol \in Nat
      BY <1>1, <3>1, SymbolType
    <3>6. from[k] = <<symbol>> \o from[far]
      BY <1>2, <2>0, <3>1 DEF ReadFrom
    <3> HIDE DEF far, symbol
    <3>7. from[far] \in Seq(Nat) /\ sofar[far] \o from[far] = sofar[n]
      BY <1>4, <3>2, <3>4
    <3>8. <<symbol>> \in Seq(Nat) /\ sofar[k] \in Seq(Nat)
      BY <1>1, <3>5
    <3>9. (sofar[k] \o <<symbol>>) \o from[far] = sofar[k] \o (<<symbol>> \o from[far])
      <4> DEFINE x == sofar[k]
                 y == <<symbol>>
                 z == from[far]
      <4>1. x \in Seq(Nat) /\ y \in Seq(Nat) /\ z \in Seq(Nat)
        BY <3>7, <3>8
      <4> HIDE DEF x, y, z
      <4>2. (x \o y) \o z = x \o (y \o z)
        BY <4>1, JoinThree
      <4> QED
        BY <4>2 DEF x, y, z
    <3>10. from[k] \in Seq(Nat)
      BY <3>6, <3>7, <3>8, ConcatProperties
    <3> QED
      BY <3>2, <3>3, <3>6, <3>7, <3>9, <3>10
  <2> QED
    BY <2>1, <2>2
<1>5. n \in Good
  <2> HIDE DEF Good, n
  <2> QED
    BY <1>1, <1>3, <1>4, UpTo
<1>6. Rest(0)
  <2>1. 0 >= n - n
    BY <1>1
  <2> QED
    BY <1>1, <1>5, <2>1
<1> QED
  BY <1>0, <1>2, <1>6 DEF ReadFrom

\* A text without bytes.
LEMMA ReadsNothing == ASSUME NEW shown \in Seq(Nat) PROVE ReadsText(<<>>, shown, shown)
<1> DEFINE bounds == {0}
           sofar == [k \in bounds |-> shown]
           src == <<>>
<1>1. src \in Seq(Nat) /\ Len(src) = 0
  OBVIOUS
<1>2. bounds \in SUBSET (0..0) /\ sofar \in [bounds -> Seq(Nat)] /\ sofar[0] = shown
  OBVIOUS
<1> HIDE DEF src, sofar
<1>3. Decodes(src, bounds, sofar)
  BY <1>1, <1>2 DEF Decodes
<1>4. ReadsText(src, shown, shown)
  BY <1>1, <1>2, <1>3 DEF ReadsText
<1> QED
  BY <1>4 DEF src

\* One more symbol.
LEMMA ReadsMore ==
    ASSUME NEW src, NEW before, NEW after, ReadsText(src, before, after),
           NEW bytes, NEW symbol \in Nat, ReadsAs(bytes, symbol)
    PROVE  ReadsText(src \o bytes, before, after \o Visible(symbol))
<1>1. PICK bounds, sofar :
        Decodes(src, bounds, sofar) /\ sofar[0] = before /\ sofar[Len(src)] = after
  BY DEF ReadsText
<1> DEFINE n == Len(src)
           m == Len(bytes)
           longer == src \o bytes
           more == bounds \cup {n + m}
           then == [k \in more |-> IF k = n + m THEN after \o Visible(symbol) ELSE sofar[k]]
<1>2. /\ src \in Seq(Nat) /\ n \in Nat /\ bounds \in SUBSET (0..n) /\ 0 \in bounds /\ n \in bounds
      /\ sofar \in [bounds -> Seq(Nat)]
  BY <1>1 DEF Decodes
<1>3. bytes \in Seq(Nat) /\ m \in Nat /\ m > 0 /\ bytes[1] \in Nat /\ m = SequenceLength(bytes[1])
  BY DEF ReadsAs
<1>4. /\ longer \in Seq(Nat) /\ Len(longer) = n + m
      /\ \A i \in 1..n : longer[i] = src[i]
      /\ \A i \in 1..m : longer[n + i] = bytes[i]
  <2>1. /\ longer \in Seq(Nat) /\ Len(longer) = n + m
        /\ \A i \in 1..(n + m) : longer[i] = IF i <= n THEN src[i] ELSE bytes[i - n]
    BY <1>2, <1>3, ConcatProperties
  <2> HIDE DEF longer
  <2>2. \A i \in 1..n : i \in 1..(n + m) /\ i <= n
    BY <1>2, <1>3
  <2>3. \A i \in 1..m : n + i \in 1..(n + m) /\ ~(n + i <= n) /\ (n + i) - n = i
    BY <1>2, <1>3
  <2> HIDE DEF n, m
  <2> QED
    BY <2>1, <2>2, <2>3
<1>5. Visible(symbol) \in Seq(Nat)
  BY DEF Visible
<1>6. after \in Seq(Nat) /\ after \o Visible(symbol) \in Seq(Nat)
  <2>1. after \in Seq(Nat)
    BY <1>1, <1>2
  <2> QED
    BY <1>5, <2>1, ConcatProperties
<1>7. /\ more \in SUBSET (0..Len(longer)) /\ 0 \in more /\ Len(longer) \in more
      /\ then \in [more -> Seq(Nat)]
      /\ \A k \in bounds : k \in Nat /\ k <= n /\ k \in more
  <2>1. \A k \in bounds : k \in Nat /\ k <= n /\ k \in more
    BY <1>2
  <2>2. more \in SUBSET (0..(n + m)) /\ 0 \in more /\ n + m \in more
    <3>1. n + m \in 0..(n + m)
      BY <1>2, <1>3
    <3>2. \A k \in bounds : k \in 0..(n + m)
      BY <1>2, <1>3, <2>1
    <3> QED
      BY <1>2, <3>1, <3>2, Zenon
  <2>3. then \in [more -> Seq(Nat)]
    <3>1. \A k \in more : k # n + m => k \in bounds
      OBVIOUS
    <3>2. \A k \in more : (IF k = n + m THEN after \o Visible(symbol) ELSE sofar[k]) \in Seq(Nat)
      BY <1>2, <1>6, <3>1
    <3> HIDE DEF more
    <3> QED
      BY <3>2
  <2> HIDE DEF then, more
  <2> QED
    BY <1>4, <2>1, <2>2, <2>3
<1>8. then[n + m] = after \o Visible(symbol) /\ \A k \in bounds : then[k] = sofar[k]
  <2>1. \A k \in bounds : k # n + m
    BY <1>2, <1>3
  <2>2. n + m \in more /\ bounds \subseteq more
    OBVIOUS
  <2> QED
    BY <2>1, <2>2
<1> HIDE DEF then, longer
<1>9. ASSUME NEW k \in bounds, k < n
      PROVE  /\ After(longer, k) \in more
             /\ \A j \in more : j > k => j >= After(longer, k)
             /\ then[After(longer, k)] = then[k] \o Visible(SymbolAt(longer, k))
             /\ SymbolAt(longer, k) = 10 <=> longer[k + 1] = 10
  <2>1. /\ After(src, k) \in bounds
        /\ \A j \in bounds : j > k => j >= After(src, k)
        /\ sofar[After(src, k)] = sofar[k] \o Visible(SymbolAt(src, k))
        /\ SymbolAt(src, k) = 10 <=> src[k + 1] = 10
    BY <1>1, <1>9 DEF Decodes
  <2>2. k \in 0..(n - 1) /\ 0 \in Nat /\ n \in 0..Len(longer) /\ k - 0 = k /\ k \in Nat /\ k + 1 \in 1..n
    BY <1>2, <1>3, <1>4, <1>7, <1>9
  <2>3. SubSeq(longer, 0 + 1, n) = src
    <3> DEFINE part == SubSeq(longer, 0 + 1, n)
    <3>1. part \in Seq(Nat) /\ Len(part) = n - 0
      BY <1>4, <2>2, SymbolOfPart
    <3>2. ASSUME NEW i \in 1..n PROVE part[i] = src[i]
      <4>1. \A j \in 1..n : longer[j] \in Nat
        BY <1>2, <1>4, ElementOfSeq
      <4>2. \A j \in 1..(n - 1 + 1) : SubSeq(longer, 1, n)[j] = longer[1 + j - 1]
        BY <1>2, <4>1, SubSeqProperties
      <4>3. i \in 1..(n - 1 + 1) /\ 1 + i - 1 = i /\ 0 + 1 = 1
        BY <1>2
      <4> QED
        BY <1>4, <4>2, <4>3
    <3> HIDE DEF part
    <3>3. Len(part) = Len(src) /\ \A i \in 1..Len(part) : part[i] = src[i]
      BY <1>2, <3>1, <3>2
    <3>4. part = src
      BY <1>2, <3>1, <3>3, SeqEqual
    <3> QED
      BY <3>4 DEF part
  <2>4. After(longer, k) = After(src, k)
    <3>1. longer[k + 1] = src[k + 1]
      BY <1>4, <2>2
    <3> QED
      BY <3>1 DEF After
  <2>5. SymbolAt(longer, k) = SymbolAt(src, k)
    <3>1. After(longer, k) <= n
      BY <1>7, <2>1, <2>4
    <3>2. SymbolAt(SubSeq(longer, 0 + 1, n), k - 0) = SymbolAt(longer, k)
      BY <1>4, <2>2, <3>1, SymbolOfPart
    <3> QED
      BY <2>2, <2>3, <3>2
  <2>6. longer[k + 1] = src[k + 1]
    BY <1>4, <2>2
  <2>7. \A j \in more : j > k => j >= After(src, k)
    <3>1. n + m >= After(src, k)
      BY <1>2, <1>3, <1>7, <2>1
    <3> QED
      BY <2>1, <3>1
  <2> QED
    BY <1>7, <1>8, <2>1, <2>4, <2>5, <2>6, <2>7
<1>10. /\ After(longer, n) = n + m
       /\ SymbolAt(longer, n) = symbol
       /\ symbol = 10 <=> longer[n + 1] = 10
  <2>1. longer[n + 1] = bytes[1]
    BY <1>3, <1>4
  <2>2. After(longer, n) = n + m
    BY <1>3, <2>1 DEF After
  <2> DEFINE marked == SubSeq(longer, n + 2, n + m)
  <2>3. Min({n + m, n + m}) = n + m
    <3> DEFINE total == n + m
    <3>1. total \in Int /\ total <= total
      BY <1>2, <1>3
    <3> HIDE DEF total
    <3>2. Min({total, total}) = total
      BY <3>1, LessOf
    <3> QED
      BY <3>2 DEF total
  <2>4. SymbolAt(longer, n) = Decode(LeadBits(bytes[1]), marked)
    BY <1>4, <2>1, <2>2, <2>3 DEF SymbolAt
  <2>5. /\ marked \in Seq(Nat) /\ Len(marked) = m - 1
        /\ \A i \in 1..(m - 1) : marked[i] = bytes[i + 1]
    <3>1. \A i \in (n + 2)..(n + m) : longer[i] \in Nat
      <4> SUFFICES ASSUME NEW i \in (n + 2)..(n + m) PROVE longer[i] \in Nat
        OBVIOUS
      <4>1. i \in 1..Len(longer)
        BY <1>2, <1>3, <1>4
      <4> QED
        BY <1>4, <4>1, ElementOfSeq
    <3>2. /\ marked \in Seq(Nat)
          /\ Len(marked) = IF n + 2 <= n + m THEN (n + m) - (n + 2) + 1 ELSE 0
          /\ \A i \in 1..((n + m) - (n + 2) + 1) : marked[i] = longer[(n + 2) + i - 1]
      BY <1>2, <1>3, <3>1, SubSeqProperties
    <3> HIDE DEF marked
    <3>3. (n + m) - (n + 2) + 1 = m - 1 /\ (n + 2 <= n + m <=> m >= 2)
      BY <1>2, <1>3
    <3>4. \A i \in 1..(m - 1) : (n + 2) + i - 1 = n + (i + 1) /\ i + 1 \in 1..m
      BY <1>2, <1>3
    <3>5. Len(marked) = m - 1
      BY <1>3, <3>2, <3>3
    <3> HIDE DEF n, m
    <3> QED
      BY <1>4, <3>2, <3>3, <3>4, <3>5
  <2> HIDE DEF marked
  <2>6. Decode(LeadBits(bytes[1]), marked) = symbol
    BY <2>5 DEF ReadsAs
  <2>7. symbol = 10 <=> bytes[1] = 10
    <3>1. CASE symbol = 10
      <4>1. bytes = <<symbol>>
        BY <3>1 DEF ReadsAs
      <4> QED
        BY <3>1, <4>1
    <3>2. CASE bytes[1] = 10
      <4>1. 1 \in 1..Len(bytes) /\ bytes[1] < 128
        BY <1>3, <3>2
      <4>2. bytes = <<symbol>>
        BY <4>1 DEF ReadsAs
      <4> QED
        BY <3>2, <4>2
    <3> QED
      BY <3>1, <3>2
  <2> QED
    BY <2>1, <2>2, <2>4, <2>6, <2>7
<1>11. ASSUME NEW k \in more, k < Len(longer)
       PROVE  /\ After(longer, k) \in more
              /\ \A j \in more : j > k => j >= After(longer, k)
              /\ then[After(longer, k)] = then[k] \o Visible(SymbolAt(longer, k))
              /\ SymbolAt(longer, k) = 10 <=> longer[k + 1] = 10
  <2>1. k \in bounds /\ (k < n \/ k = n)
    BY <1>2, <1>4, <1>7, <1>11
  <2>2. CASE k < n
    BY <1>9, <2>1, <2>2
  <2>3. CASE k = n
    <3>1. \A j \in more : j > n => j >= n + m
      BY <1>2, <1>3
    <3>2. then[n + m] = then[n] \o Visible(symbol)
      BY <1>1, <1>2, <1>8
    <3>3. n + m \in more
      OBVIOUS
    <3> QED
      BY <1>10, <2>3, <3>1, <3>2, <3>3
  <2> QED
    BY <2>1, <2>2, <2>3
<1>12. ASSUME NEW j \in 0..(Len(longer) - 1), longer[j + 1] = 10 PROVE j \in more
  <2>1. CASE j < n
    <3>1. j \in 0..(n - 1) /\ j + 1 \in 1..n
      BY <1>2, <2>1
    <3>2. src[j + 1] = 10
      BY <1>4, <1>12, <3>1
    <3> QED
      BY <1>1, <3>1, <3>2 DEF Decodes
  <2>2. CASE ~(j < n)
    <3> DEFINE i == (j - n) + 1
    <3>1. i \in 1..m /\ n + i = j + 1
      BY <1>2, <1>3, <1>4, <2>2
    <3> HIDE DEF i
    <3>2. bytes[i] = 10
      BY <1>4, <1>12, <3>1
    <3>3. bytes = <<symbol>>
      BY <3>1, <3>2 DEF ReadsAs
    <3>4. m = 1
      BY <3>3
    <3>5. j = n
      BY <1>2, <3>1, <3>4
    <3> QED
      BY <1>2, <3>5
  <2> QED
    BY <2>1, <2>2
<1> HIDE DEF more
<1>13. Decodes(longer, more, then)
  BY <1>4, <1>7, <1>11, <1>12 DEF Decodes
<1>14. then[0] = before /\ then[Len(longer)] = after \o Visible(symbol)
  BY <1>1, <1>2, <1>4, <1>8
<1>15. ReadsText(longer, before, after \o Visible(symbol))
  BY <1>13, <1>14 DEF ReadsText
<1> QED
  BY <1>15 DEF longer

\* What is cut off at a newline shows what is shown up to it.
LEMMA LineOfText ==
    ASSUME NEW src \in Seq(Nat), NEW before, NEW after, ReadsText(src, before, after),
           NEW end \in 1..(Len(src) + 1), end <= Len(src) => src[end] = 10,
           \A i \in 1..(end - 1) : src[i] # 10
    PROVE  \E shown : /\ ReadsText(SubSeq(src, 1, end - 1), before, shown)
                     /\ ReadsText(SubSeq(src, end + 1, Len(src)), shown, after)
<1>1. PICK bounds, sofar :
        Decodes(src, bounds, sofar) /\ sofar[0] = before /\ sofar[Len(src)] = after
  BY DEF ReadsText
<1> DEFINE n == Len(src)
           stop == end - 1
           head == SubSeq(src, 1, end - 1)
           tail == SubSeq(src, end + 1, n)
<1>2. /\ n \in Nat /\ end \in Nat /\ stop \in 0..n /\ stop \in Nat /\ stop + 1 = end
      /\ bounds \in SUBSET (0..n) /\ 0 \in bounds /\ n \in bounds
      /\ sofar \in [bounds -> Seq(Nat)]
  BY <1>1 DEF Decodes
<1>3. stop \in bounds
  <2>1. CASE end <= n
    <3>1. stop \in 0..(n - 1) /\ src[stop + 1] = 10
      BY <1>2, <2>1
    <3> QED
      BY <1>1, <3>1 DEF Decodes
  <2>2. CASE ~(end <= n)
    <3>1. stop = n
      BY <1>2, <2>2
    <3> QED
      BY <1>2, <3>1
  <2> QED
    BY <2>1, <2>2
<1>4. ReadsText(head, before, sofar[stop])
  <2>1. 0 <= stop /\ 0 + 1 = 1
    BY <1>2
  <2>2. ReadsText(SubSeq(src, 0 + 1, stop), sofar[0], sofar[stop])
    BY <1>1, <1>2, <1>3, <2>1, DecodesPart
  <2> QED
    BY <1>1, <2>1, <2>2
<1> HIDE DEF head
<1>7. ReadsText(tail, sofar[stop], after)
  <2>1. CASE end <= n
    <3>1. stop < n /\ stop \in 0..(n - 1) /\ src[stop + 1] = 10 /\ end \in 0..n
      BY <1>2, <2>1
    <3>2. After(src, stop) = end
      BY <1>2, <3>1 DEF After, SequenceLength
    <3>3. /\ end \in bounds
          /\ sofar[end] = sofar[stop] \o Visible(SymbolAt(src, stop))
          /\ SymbolAt(src, stop) = 10
      BY <1>1, <1>3, <3>1, <3>2 DEF Decodes
    <3>4. sofar[end] = sofar[stop]
      <4>1. Visible(10) = <<>> /\ sofar[stop] \in Seq(Nat)
        BY <1>2, <1>3 DEF Visible
      <4> QED
        BY <3>3, <4>1, ConcatEmptySeq
    <3>5. ReadsText(tail, sofar[end], sofar[n])
      BY <1>1, <1>2, <2>1, <3>3, DecodesPart
    <3> QED
      BY <1>1, <3>4, <3>5
  <2>2. CASE ~(end <= n)
    <3>1. stop = n /\ n < end + 1 /\ end + 1 \in Int /\ n \in Int
      BY <1>2, <2>2
    <3>2. tail = <<>>
      BY <3>1, SubSeqEmpty
    <3>3. after \in Seq(Nat) /\ after = sofar[stop]
      BY <1>1, <1>2, <3>1
    <3> HIDE DEF tail
    <3> QED
      BY <3>2, <3>3, ReadsNothing
  <2> QED
    BY <2>1, <2>2
<1> HIDE DEF tail
<1> QED
  BY <1>4, <1>7 DEF head, tail

\* The symbols of a span are what it shows.
LEMMA SpanShows ==
    ASSUME NEW src, NEW bounds, NEW sofar, Decodes(src, bounds, sofar),
           \A i \in 1..Len(src) : src[i] # 10,
           NEW from \in bounds, NEW to \in bounds, from <= to
    PROVE  \E text : /\ text = SymbolsOf(SubSeq(src, from + 1, to))
                    /\ sofar[to] = sofar[from] \o text
<1> DEFINE part == SubSeq(src, from + 1, to)
<1>1. ReadsText(part, sofar[from], sofar[to])
  BY DecodesPart
<1>2. /\ src \in Seq(Nat) /\ from \in 0..Len(src) /\ to \in 0..Len(src) /\ Len(src) \in Nat
  BY DEF Decodes
<1>3. Len(part) = to - from /\ \A j \in 1..(to - from) : part[j] = src[from + j]
  BY <1>2, PartElements
<1> HIDE DEF part
<1>4. ASSUME NEW i \in 1..Len(part) PROVE part[i] # 10
  <2>1. from + i \in 1..Len(src) /\ i \in 1..(to - from)
    BY <1>2, <1>3
  <2> QED
    BY <1>3, <2>1
<1>5. sofar[to] = sofar[from] \o SymbolsOf(part)
  BY <1>1, <1>4, DecodesSymbols
<1> QED
  BY <1>5 DEF part

\* The symbol at a bound of a line.
LEMMA SymbolShows ==
    ASSUME NEW src, NEW bounds, NEW sofar, Decodes(src, bounds, sofar),
           \A i \in 1..Len(src) : src[i] # 10,
           NEW k \in bounds, k < Len(src)
    PROVE  /\ After(src, k) \in bounds /\ \A j \in bounds : j > k => j >= After(src, k)
           /\ sofar[After(src, k)] = Append(sofar[k], SymbolAt(src, k))
<1>1. /\ src \in Seq(Nat) /\ k \in Nat /\ k \in 0..(Len(src) - 1) /\ k + 1 \in 1..Len(src)
      /\ sofar \in [bounds -> Seq(Nat)]
  BY DEF Decodes
<1>2. /\ After(src, k) \in bounds /\ \A j \in bounds : j > k => j >= After(src, k)
      /\ sofar[After(src, k)] = sofar[k] \o Visible(SymbolAt(src, k))
      /\ SymbolAt(src, k) = 10 <=> src[k + 1] = 10
  BY DEF Decodes
<1>3. SymbolAt(src, k) \in Nat
  BY <1>1, SymbolType
<1>4. Visible(SymbolAt(src, k)) = <<SymbolAt(src, k)>>
  BY <1>1, <1>2 DEF Visible
<1>5. Append(sofar[k], SymbolAt(src, k)) = sofar[k] \o <<SymbolAt(src, k)>>
  <2>1. sofar[k] \in Seq(Nat)
    BY <1>1
  <2> QED
    BY <1>3, <2>1, AppendIsConcat
<1> QED
  BY <1>2, <1>4, <1>5

-----------------------------------------------------------------------------
(* The text to draw is what a text is to show.                             *)

\* The bytes of a text, and one symbol more.
LEMMA BytesMore ==
    ASSUME NEW text \in Text, NEW symbol \in CodePoints
    PROVE  /\ Bytes(text) \in Seq(Nat)
           /\ Bytes(Append(text, symbol)) = Bytes(text) \o Utf8(symbol)
<1> DEFINE f == [x \in CodePoints |-> Utf8(x)]
           longer == Append(text, symbol)
<1>1. Maps(f, CodePoints, Nat, text, symbol) /\ f[symbol] = Utf8(symbol)
  BY Utf8Reads DEF ReadsAs, Maps, Text
<1>2. /\ text \in Seq(CodePoints) /\ longer \in Seq(CodePoints)
      /\ \A i \in 1..Len(text) : text[i] \in CodePoints
      /\ \A i \in 1..Len(longer) : longer[i] \in CodePoints
  <2>1. text \in Seq(CodePoints)
    BY DEF Text
  <2>2. longer \in Seq(CodePoints)
    BY <2>1
  <2> HIDE DEF longer
  <2> QED
    BY <2>1, <2>2, ElementOfSeq
<1> HIDE DEF longer
<1>3. [i \in 1..Len(text) |-> f[text[i]]] = [i \in 1..Len(text) |-> Utf8(text[i])]
  BY <1>2
<1>4. [i \in 1..Len(longer) |-> f[longer[i]]] = [i \in 1..Len(longer) |-> Utf8(longer[i])]
  BY <1>2
<1> HIDE DEF f
<1>5. Mapped(f, text) \in Seq(Nat) /\ Mapped(f, longer) = Mapped(f, text) \o f[symbol]
  <2>1. MapsOn(f, Nat, text, symbol)
    BY <1>1, <1>2, FlattenMap
  <2> QED
    BY <2>1 DEF longer, MapsOn
<1>6. Bytes(text) = Mapped(f, text) /\ Bytes(longer) = Mapped(f, longer)
  BY <1>3, <1>4 DEF Bytes, Mapped
<1> QED
  BY <1>1, <1>5, <1>6 DEF longer

\* What a byte is drawn as.
DrawnByte(byte) == IF byte = 9 THEN <<32, 32>> ELSE <<byte>>

\* As Shown has it.
ShownAs(symbol) == CASE symbol = 9 -> <<32, 32>> [] symbol = 10 -> <<>> [] OTHER -> <<symbol>>

\* What bytes are drawn as.
Drawn(bytes) == FlattenSeq([i \in 1..Len(bytes) |-> DrawnByte(bytes[i])])

\* One byte more.
LEMMA DrawnMore ==
    ASSUME NEW bytes \in Seq(Nat), NEW byte \in Nat
    PROVE  /\ Drawn(bytes) \in Seq(Nat)
           /\ Drawn(Append(bytes, byte)) = Drawn(bytes) \o DrawnByte(byte)
<1> DEFINE f == [x \in Nat |-> DrawnByte(x)]
           longer == Append(bytes, byte)
<1>1. Maps(f, Nat, Nat, bytes, byte) /\ f[byte] = DrawnByte(byte)
  BY DEF DrawnByte, Maps
<1>2. /\ longer \in Seq(Nat)
      /\ \A i \in 1..Len(bytes) : bytes[i] \in Nat
      /\ \A i \in 1..Len(longer) : longer[i] \in Nat
  <2>1. longer \in Seq(Nat)
    OBVIOUS
  <2> HIDE DEF longer
  <2> QED
    BY <2>1, ElementOfSeq
<1> HIDE DEF longer
<1>3. [i \in 1..Len(bytes) |-> f[bytes[i]]] = [i \in 1..Len(bytes) |-> DrawnByte(bytes[i])]
  BY <1>2
<1>4. [i \in 1..Len(longer) |-> f[longer[i]]] = [i \in 1..Len(longer) |-> DrawnByte(longer[i])]
  BY <1>2
<1> HIDE DEF f
<1>5. Mapped(f, bytes) \in Seq(Nat) /\ Mapped(f, longer) = Mapped(f, bytes) \o f[byte]
  <2>1. MapsOn(f, Nat, bytes, byte)
    BY <1>1, FlattenMap
  <2> QED
    BY <2>1 DEF longer, MapsOn
<1>6. Drawn(bytes) = Mapped(f, bytes) /\ Drawn(longer) = Mapped(f, longer)
  BY <1>3, <1>4 DEF Drawn, Mapped
<1> QED
  BY <1>1, <1>5, <1>6 DEF longer

\* One symbol more to show.
LEMMA ShownMore ==
    ASSUME NEW text \in Text, NEW symbol \in CodePoints
    PROVE  /\ Shown(text) \in Seq(Nat)
           /\ Shown(Append(text, symbol)) = Shown(text) \o ShownAs(symbol)
<1> DEFINE f == [x \in CodePoints |-> ShownAs(x)]
           longer == Append(text, symbol)
<1>1. Maps(f, CodePoints, Nat, text, symbol) /\ f[symbol] = ShownAs(symbol)
  <2>1. \A x \in CodePoints : x \in Nat
    BY SMT DEF CodePoints
  <2> QED
    BY <2>1 DEF ShownAs, Maps, Text
<1>2. /\ text \in Seq(CodePoints) /\ longer \in Seq(CodePoints)
      /\ \A i \in 1..Len(text) : text[i] \in CodePoints
      /\ \A i \in 1..Len(longer) : longer[i] \in CodePoints
  <2>1. text \in Seq(CodePoints)
    BY DEF Text
  <2>2. longer \in Seq(CodePoints)
    BY <2>1
  <2> HIDE DEF longer
  <2> QED
    BY <2>1, <2>2, ElementOfSeq
<1> HIDE DEF longer
<1>3. [i \in 1..Len(text) |-> f[text[i]]] = [i \in 1..Len(text) |-> ShownAs(text[i])]
  BY <1>2
<1>4. [i \in 1..Len(longer) |-> f[longer[i]]] = [i \in 1..Len(longer) |-> ShownAs(longer[i])]
  BY <1>2
<1> HIDE DEF f
<1>5. Mapped(f, text) \in Seq(Nat) /\ Mapped(f, longer) = Mapped(f, text) \o f[symbol]
  <2>1. MapsOn(f, Nat, text, symbol)
    BY <1>1, <1>2, FlattenMap
  <2> QED
    BY <2>1 DEF longer, MapsOn
<1>6. Shown(text) = Mapped(f, text) /\ Shown(longer) = Mapped(f, longer)
  BY <1>3, <1>4 DEF Shown, Mapped, ShownAs
<1> QED
  BY <1>1, <1>5, <1>6 DEF longer

\* Bytes without a tab are drawn as they are.
LEMMA DrawnSame ==
    ASSUME NEW bytes \in Seq(Nat), NEW more \in Seq(Nat), \A i \in 1..Len(more) : more[i] # 9
    PROVE  Drawn(bytes \o more) = Drawn(bytes) \o more
<1> DEFINE n == Len(more)
           Part(m) == SubSeq(more, 1, m)
           Good(m) == Drawn(bytes \o Part(m)) = Drawn(bytes) \o Part(m)
           S == {m \in 0..n : Good(m)}
<1>1. n \in Nat /\ Drawn(bytes) \in Seq(Nat) /\ 0 \in Nat
  BY DrawnMore
<1>2. 0 \in S
  <2>1. Part(0) = <<>>
    BY SubSeqEmpty
  <2>2. bytes \o <<>> = bytes /\ Drawn(bytes) \o <<>> = Drawn(bytes)
    BY <1>1
  <2>3. Good(0)
    BY <2>1, <2>2
  <2> QED
    BY <1>1, <2>3
<1>3. ASSUME NEW m \in 0..(n - 1), m \in S PROVE m + 1 \in S
  <2> DEFINE byte == more[m + 1]
             part == Part(m)
  <2>0. m + 1 \in 1..n /\ m + 1 \in 0..n /\ m \in Nat /\ m \in 0..n
    BY <1>1
  <2>1. byte \in Nat /\ byte # 9
    BY <2>0
  <2>2. part \in Seq(Nat)
    <3>1. \A i \in 1..m : more[i] \in Nat
      BY <1>1, <2>0
    <3> QED
      BY <2>0, <3>1, SubSeqProperties
  <2>3. Part(m + 1) = part \o <<byte>>
    <3>1. m + 1 \in 1..Len(more) /\ 1 \in 1..Len(more) /\ m + 1 \in 1..(m + 1) /\ (m + 1) - 1 = m
      BY <2>0
    <3>2. SubSeq(more, 1, m + 1) = SubSeq(more, 1, (m + 1) - 1) \o <<more[m + 1]>>
      BY <2>0, <3>1, SubSeqRecursiveSecond
    <3> QED
      BY <3>1, <3>2
  <2>4. Good(m)
    BY <1>3
  <2> HIDE DEF byte, part
  <2>5. Drawn(bytes \o part) = Drawn(bytes) \o part
    BY <2>4 DEF part
  <2>6. bytes \o (part \o <<byte>>) = Append(bytes \o part, byte)
    BY <2>1, <2>2
  <2>7. bytes \o part \in Seq(Nat)
    BY <2>2, ConcatProperties
  <2>8. Drawn(Append(bytes \o part, byte)) = Drawn(bytes \o part) \o DrawnByte(byte)
    BY <2>1, <2>7, DrawnMore
  <2>9. DrawnByte(byte) = <<byte>> /\ <<byte>> \in Seq(Nat)
    BY <2>1 DEF DrawnByte
  <2>10. (Drawn(bytes) \o part) \o <<byte>> = Drawn(bytes) \o (part \o <<byte>>)
    <3> DEFINE x == Drawn(bytes)
               y == part
               z == <<byte>>
    <3>1. x \in Seq(Nat) /\ y \in Seq(Nat) /\ z \in Seq(Nat)
      BY <1>1, <2>2, <2>9
    <3> HIDE DEF x, y, z
    <3>2. (x \o y) \o z = x \o (y \o z)
      BY <3>1, JoinThree
    <3> QED
      BY <3>2 DEF x, y, z
  <2>11. Good(m + 1)
    BY <2>3, <2>5, <2>6, <2>8, <2>9, <2>10
  <2> QED
    BY <2>0, <2>11
<1>4. n \in S
  <2> HIDE DEF S, n
  <2> QED
    BY <1>1, <1>2, <1>3, UpTo
<1>5. Part(n) = more
  BY SubSeqFull
<1> QED
  BY <1>4, <1>5

\* The text to draw reads as what is to be shown, up to each symbol.
LEMMA DrawnReads ==
    ASSUME NEW text \in Text
    PROVE  ReadsText(Drawn(Bytes(text)), <<>>, Shown(text))
<1> DEFINE n == Len(text)
           Part(m) == SubSeq(text, 1, m)
           Good(m) == ReadsText(Drawn(Bytes(Part(m))), <<>>, Shown(Part(m)))
           S == {m \in 0..n : Good(m)}
<1>1. text \in Seq(CodePoints) /\ n \in Nat /\ 0 \in Nat
  BY DEF Text
<1>2. 0 \in S
  <2>1. Part(0) = <<>>
    BY SubSeqEmpty
  <2>2. Bytes(<<>>) = <<>> /\ Drawn(<<>>) = <<>> /\ Shown(<<>>) = <<>>
    <3>1. \A f : [i \in 1..Len(<<>>) |-> f[i]] = <<>>
      OBVIOUS
    <3>2. [i \in 1..Len(<<>>) |-> Utf8(<<>>[i])] = <<>>
      OBVIOUS
    <3>3. [i \in 1..Len(<<>>) |-> DrawnByte(<<>>[i])] = <<>>
      OBVIOUS
    <3>4. [i \in 1..Len(<<>>) |-> CASE <<>>[i] = 9 -> <<32, 32>> [] <<>>[i] = 10 -> <<>>
                                    [] OTHER -> <<<<>>[i]>>] = <<>>
      OBVIOUS
    <3> QED
      BY <3>2, <3>3, <3>4, FlattenEmpty DEF Bytes, Drawn, Shown
  <2>3. ReadsText(<<>>, <<>>, <<>>)
    <3>1. <<>> \in Seq(Nat)
      OBVIOUS
    <3> QED
      BY <3>1, ReadsNothing
  <2>4. Good(0)
    BY <2>1, <2>2, <2>3
  <2> QED
    BY <1>1, <2>4
<1>3. ASSUME NEW m \in 0..(n - 1), m \in S PROVE m + 1 \in S
  <2> DEFINE symbol == text[m + 1]
             part == Part(m)
             bytes == Bytes(part)
             src == Drawn(bytes)
             shown == Shown(part)
  <2>0. m + 1 \in 1..n /\ m + 1 \in 0..n /\ m \in Nat /\ m \in 0..n
    BY <1>1
  <2>1. symbol \in CodePoints
    BY <1>1, <2>0
  <2>2. part \in Text
    <3>1. \A i \in 1..m : text[i] \in CodePoints
      BY <1>1, <2>0
    <3> QED
      BY <2>0, <3>1, SubSeqProperties DEF Text
  <2>3. Part(m + 1) = Append(part, symbol)
    <3>1. m + 1 \in 1..Len(text) /\ 1 \in 1..Len(text) /\ m + 1 \in 1..(m + 1) /\ (m + 1) - 1 = m
      BY <2>0
    <3>2. SubSeq(text, 1, m + 1) = SubSeq(text, 1, (m + 1) - 1) \o <<text[m + 1]>>
      BY <1>1, <2>0, <3>1, SubSeqRecursiveSecond
    <3>3. Part(m + 1) = part \o <<symbol>>
      BY <3>1, <3>2
    <3> HIDE DEF part, symbol
    <3>4. part \in Seq(CodePoints)
      BY <2>2 DEF Text
    <3> QED
      BY <2>1, <3>3, <3>4
  <2>4. ReadsText(src, <<>>, shown)
    BY <1>3
  <2> HIDE DEF part, symbol
  <2>5. bytes \in Seq(Nat) /\ Bytes(Append(part, symbol)) = bytes \o Utf8(symbol)
    BY <2>1, <2>2, BytesMore
  <2>6. shown \in Seq(Nat) /\ Shown(Append(part, symbol)) = shown \o ShownAs(symbol)
    BY <2>1, <2>2, ShownMore
  <2>7. symbol \in Nat
    BY <2>1, SMT DEF CodePoints
  <2>8. ReadsAs(Utf8(symbol), symbol)
    BY <2>1, Utf8Reads
  <2>9. src \in Seq(Nat)
    BY <2>5, DrawnMore
  <2> HIDE DEF shown, bytes
  <2>10. ReadsText(Drawn(bytes \o Utf8(symbol)), <<>>, shown \o ShownAs(symbol))
    <3>1. CASE symbol = 9
      <4>1. Utf8(symbol) = <<9>>
        BY <2>8, <3>1 DEF ReadsAs
      <4>2. bytes \o Utf8(symbol) = Append(bytes, 9)
        BY <2>5, <4>1
      <4>3. Drawn(bytes \o Utf8(symbol)) = src \o <<32, 32>>
        BY <2>5, <4>2, DrawnMore DEF DrawnByte
      <4>4. ReadsAs(<<32>>, 32) /\ Visible(32) = <<32>>
        BY OneByte DEF Visible
      <4> HIDE DEF src
      <4>5. ReadsText(src \o <<32>>, <<>>, shown \o <<32>>)
        BY <2>4, <4>4, ReadsMore
      <4>6. ReadsText((src \o <<32>>) \o <<32>>, <<>>, (shown \o <<32>>) \o <<32>>)
        BY <4>4, <4>5, ReadsMore
      <4>7. /\ (src \o <<32>>) \o <<32>> = src \o <<32, 32>>
            /\ (shown \o <<32>>) \o <<32>> = shown \o <<32, 32>>
        BY <2>6, <2>9, TwiceMore
      <4>8. ShownAs(symbol) = <<32, 32>>
        BY <3>1 DEF ShownAs
      <4> QED
        BY <4>3, <4>6, <4>7, <4>8
    <3>2. CASE symbol # 9
      <4>1. Utf8(symbol) \in Seq(Nat)
        BY <2>8 DEF ReadsAs
      <4>2. \A i \in 1..Len(Utf8(symbol)) : Utf8(symbol)[i] # 9
        <5> SUFFICES ASSUME NEW i \in 1..Len(Utf8(symbol)), Utf8(symbol)[i] = 9 PROVE FALSE
          OBVIOUS
        <5>1. Utf8(symbol)[i] < 128
          OBVIOUS
        <5>2. Utf8(symbol) = <<symbol>>
          BY <2>8, <5>1 DEF ReadsAs
        <5> QED
          BY <3>2, <5>2
      <4>3. Drawn(bytes \o Utf8(symbol)) = src \o Utf8(symbol)
        BY <2>5, <4>1, <4>2, DrawnSame
      <4>4. ShownAs(symbol) = Visible(symbol)
        BY <3>2 DEF ShownAs, Visible
      <4> HIDE DEF src
      <4>5. ReadsText(src \o Utf8(symbol), <<>>, shown \o Visible(symbol))
        BY <2>4, <2>7, <2>8, ReadsMore
      <4> QED
        BY <4>3, <4>4, <4>5
    <3> QED
      BY <3>1, <3>2
  <2>11. Good(m + 1)
    BY <2>3, <2>5, <2>6, <2>10
  <2> QED
    BY <2>0, <2>11
<1>4. n \in S
  <2> HIDE DEF S, n
  <2> QED
    BY <1>1, <1>2, <1>3, UpTo
<1>5. Part(n) = text
  BY <1>1, SubSeqFull
<1> QED
  BY <1>4, <1>5

\* What a text is to show: an empty one a no-break space.
Wanted(text) == IF text = <<>> THEN <<160>> ELSE Shown(text)

\* The bytes of the text to draw show what is wanted.
LEMMA TextReads ==
    ASSUME NEW text \in Text
    PROVE  ReadsText(TextToDraw(text), <<>>, Wanted(text))
<1> DEFINE full == IF text = <<>> THEN <<160>> ELSE text
<1>1. full \in Text
  <2>1. <<160>> \in Seq(CodePoints)
    <3>1. 160 \in CodePoints
      BY SMT DEF CodePoints
    <3> QED
      BY <3>1
  <2> QED
    BY <2>1 DEF Text
<1>2. TextToDraw(text) = Drawn(Bytes(full))
  <2>1. [i \in 1..kTabSizeInSpaces |-> 32] = <<32, 32>>
    BY DEF kTabSizeInSpaces
  <2> QED
    BY <2>1 DEF TextToDraw, Drawn, DrawnByte
<1>3. Shown(full) = Wanted(text)
  <2>1. CASE text = <<>>
    <3>1. <<160>> = Append(<<>>, 160) /\ <<>> \in Seq(CodePoints)
      OBVIOUS
    <3>2. 160 \in CodePoints
      BY SMT DEF CodePoints
    <3>3. Shown(Append(<<>>, 160)) = Shown(<<>>) \o ShownAs(160)
      BY <3>1, <3>2, ShownMore DEF Text
    <3>4. [i \in 1..Len(<<>>) |-> CASE <<>>[i] = 9 -> <<32, 32>> [] <<>>[i] = 10 -> <<>>
                                    [] OTHER -> <<<<>>[i]>>] = <<>>
      OBVIOUS
    <3>5. Shown(<<>>) = <<>>
      BY <3>4, FlattenEmpty DEF Shown
    <3>6. ShownAs(160) = <<160>> /\ <<>> \o <<160>> = <<160>>
      BY DEF ShownAs
    <3> QED
      BY <2>1, <3>1, <3>3, <3>5, <3>6 DEF Wanted
  <2>2. CASE text # <<>>
    BY <2>2 DEF Wanted
  <2> QED
    BY <2>1, <2>2
<1> HIDE DEF full
<1> QED
  BY <1>1, <1>2, <1>3, DrawnReads

\* The texts of an item, and the bytes they are turned into.
LEMMA TextType ==
    ASSUME NEW i \in Items, NEW text \in TextsOf(i)
    PROVE  text \in Text /\ TextToDraw(text) \in Seq(Nat)
<1>1. text \in Text
  <2>1. i.text \in Text /\ i.points \in Seq(Point)
    BY SvgBuilderAssumption DEF Item
  <2>2. \A k \in 1..Len(i.points) : i.points[k].text \in Text
    <3> SUFFICES ASSUME NEW k \in 1..Len(i.points) PROVE i.points[k].text \in Text
      OBVIOUS
    <3>1. i.points[k] \in Point
      BY <2>1, ElementOfSeq
    <3> QED
      BY <3>1 DEF Point
  <2> QED
    BY <2>1, <2>2 DEF TextsOf
<1>2. TextToDraw(text) \in Seq(Nat)
  BY <1>1, TextReads DEF ReadsText, Decodes
<1> QED
  BY <1>1, <1>2

-----------------------------------------------------------------------------
(* The EmojiRenderer, as the builder uses it.                              *)

GlyphStep ==
    \/ renderToPng \/ InstallFont \/ Return
    \/ \E symbol, size : Ask(symbol, size)
    \/ \E text, size : Measure(text, size)
    \/ UNCHANGED glyphVars

\* The builder changes the renderer's state through its functions only.
LEMMA BuilderIsGlyphStep == [Next]_vars => GlyphStep
<1>1. Start => UNCHANGED glyphVars
  BY DEF Start
<1>2. (AsIs \/ BadPoint \/ Box \/ TextItem \/ Rect \/ Close) => UNCHANGED glyphVars
  BY DEF AsIs, BadPoint, Box, TextItem, Rect, Close
<1>3. (LastPoint \/ Marker \/ FirstPoint \/ LineTo) => UNCHANGED glyphVars
  BY DEF LastPoint, Marker, FirstPoint, LineTo
<1>4. (LastLine \/ ReadLine \/ Split \/ SplitEnd \/ LineEnd) => UNCHANGED glyphVars
  BY DEF LastLine, ReadLine, Split, SplitEnd, LineEnd
<1>5. TextTag => \E text, size : Measure(text, size)
  BY DEF TextTag
<1>6. Custom => \E symbol, size : Ask(symbol, size)
  BY DEF Custom
<1>7. Render => renderToPng
  BY DEF Render
<1>8. Image => Return \/ \E symbol, size : Ask(symbol, size)
  BY DEF Image
<1>9. Environment => InstallFont
  BY DEF Environment
<1>10. UNCHANGED vars => UNCHANGED glyphVars
  BY DEF vars
<1> QED
  BY <1>1, <1>2, <1>3, <1>4, <1>5, <1>6, <1>7, <1>8, <1>9, <1>10 DEF Next, Build, GlyphStep

\* While the fonts are tried the cache holds no picture for the request.
RendererInv ==
    /\ CacheIsRight /\ AnswerIsForRequest
    /\ try \in Nat \ {0}
    /\ (phase = "fonts" /\ request \in DOMAIN emojies) => ~isValid(emojies[request])

\* A face that is used has the size that was asked for.
LEMMA SizedFace ==
    ASSUME NEW font, NEW size, ~Unusable(font)
    PROVE  Sized(font, size)[font] = SizeOn(font, size)
BY DEF Sized, Set

\* The font that is tried is one for emoji.
LEMMA FontIsEmojiFont ==
    ASSUME try \in Nat \ {0}, Trying
    PROVE  Font \in FontsOf(EmojiFonts)
BY DEF Trying, Font, FontsOf

\* The empty entry is no picture.
LEMMA EmptyIsInvalid == ~isValid(EmptyPng)
BY DEF isValid, EmptyPng

\* The cache is empty initially.
LEMMA RendererInit == Init => RendererInv
BY EmptyIsInvalid DEF Init, GlyphsInit, RendererInv, CacheIsRight, AnswerIsForRequest, EmptyMap

Kept == \A r \in DOMAIN emojies :
          /\ r \in DOMAIN emojies'
          /\ isValid(emojies[r]) => emojies'[r] = emojies[r]

\* Every function of the renderer keeps it, and the pictures in the cache.
LEMMA RendererStep == RendererInv /\ GlyphStep => RendererInv' /\ Kept
<1> SUFFICES ASSUME RendererInv, GlyphStep
             PROVE  RendererInv' /\ Kept
  OBVIOUS
<1> USE EmptyIsInvalid DEF RendererInv
<1>1. CASE UNCHANGED glyphVars
  BY <1>1 DEF glyphVars, CacheIsRight, AnswerIsForRequest, Kept
<1>2. CASE InstallFont
  BY <1>2 DEF InstallFont, CacheIsRight, AnswerIsForRequest, Kept
<1>3. CASE Return
  BY <1>3 DEF Return, CacheIsRight, AnswerIsForRequest, Kept
<1>4. CASE \E symbol, size : Ask(symbol, size)
  BY <1>4 DEF Ask, CacheIsRight, AnswerIsForRequest, Kept
<1>5. CASE \E text, size : Measure(text, size)
  BY <1>5 DEF Measure, CacheIsRight, AnswerIsForRequest, Kept
<1>6. CASE Hit
  BY <1>6 DEF Hit, CachedFor, CacheIsRight, AnswerIsForRequest, Kept
<1>7. CASE Miss
  BY <1>7 DEF Miss, CachedFor, CacheIsRight, AnswerIsForRequest, Kept
<1>8. CASE NextFont
  BY <1>8 DEF NextFont, Trying, CacheIsRight, AnswerIsForRequest, Kept
<1>9. CASE OtherMode
  <2>1. OtherModeFor(request)
    BY <1>9, SizedFace, FontIsEmojiFont DEF OtherMode, OtherModeFor, Glyph
  <2>a. /\ DOMAIN emojies' = DOMAIN emojies \cup {request}
        /\ emojies'[request] = EmptyPng
        /\ \A k \in DOMAIN emojies : k # request => emojies'[k] = emojies[k]
    BY <1>9 DEF OtherMode, Set
  <2>2. CacheIsRight'
    <3> SUFFICES ASSUME NEW r \in DOMAIN emojies'
                 PROVE  IF isValid(emojies'[r]) THEN DrawnFor(emojies'[r], r)
                        ELSE OtherModeFor(r)
      BY DEF CacheIsRight, OtherModeFor, DrawnFor
    <3>1. CASE r = request
      BY <2>1, <2>a, <3>1
    <3>2. CASE r # request
      <4>1. r \in DOMAIN emojies /\ emojies'[r] = emojies[r]
        BY <2>a, <3>2
      <4> QED
        BY <4>1 DEF CacheIsRight
    <3> QED
      BY <3>1, <3>2
  <2>3. AnswerIsForRequest' /\ (try \in Nat \ {0})'
    BY <1>9 DEF OtherMode, AnswerIsForRequest, Trying
  <2>4. ~isValid(emojies'[request])
    BY <2>a
  <2>5. Kept
    BY <1>9, <2>a DEF OtherMode, Trying, Kept
  <2> QED
    BY <1>9, <2>2, <2>3, <2>4, <2>5 DEF OtherMode
<1>10. CASE Draw
  <2>1. PICK png : /\ png = [font |-> Font, width |-> Scaled(Glyph, request.size).width,
                             height |-> Scaled(Glyph, request.size).height]
                   /\ isValid(png)
                   /\ emojies' = Set(emojies, request, png)
                   /\ answer' = png
    BY <1>10 DEF Draw
  <2>2. Trying /\ ~Unusable(Font) /\ Glyph # NoBitmap
    BY <1>10 DEF Draw, Drawable
  <2>3. Glyph = Raster(Font, request.symbol, SizeOn(Font, request.size))
    BY <2>2, SizedFace DEF Glyph
  <2>a. /\ DOMAIN emojies' = DOMAIN emojies \cup {request}
        /\ emojies'[request] = png
        /\ \A k \in DOMAIN emojies : k # request => emojies'[k] = emojies[k]
    BY <2>1 DEF Set
  <2>4. DrawnFor(png, request)
    BY <2>1, <2>2, <2>3, FontIsEmojiFont DEF DrawnFor, PngOf
  <2>5. request' = request /\ phase' = "answered" /\ try' = try
    BY <1>10 DEF Draw
  <2>6. CacheIsRight'
    <3> SUFFICES ASSUME NEW r \in DOMAIN emojies'
                 PROVE  IF isValid(emojies'[r]) THEN DrawnFor(emojies'[r], r)
                        ELSE OtherModeFor(r)
      BY DEF CacheIsRight, OtherModeFor, DrawnFor
    <3>1. CASE r = request
      BY <2>1, <2>4, <2>a, <3>1
    <3>2. CASE r # request
      <4>1. r \in DOMAIN emojies /\ emojies'[r] = emojies[r]
        BY <2>a, <3>2
      <4> QED
        BY <4>1 DEF CacheIsRight
    <3> QED
      BY <3>1, <3>2
  <2>7. AnswerIsForRequest'
    BY <2>1, <2>4, <2>5 DEF AnswerIsForRequest
  <2>8. Kept
    BY <2>1, <2>2, <2>a DEF Trying, Kept
  <2> QED
    BY <2>5, <2>6, <2>7, <2>8
<1>11. CASE Abort
  BY <1>11 DEF Abort, CacheIsRight, AnswerIsForRequest, Kept
<1>12. CASE NoResult
  BY <1>12 DEF NoResult, CacheIsRight, AnswerIsForRequest, Kept
<1> QED
  BY <1>1, <1>2, <1>3, <1>4, <1>5, <1>6, <1>7, <1>8, <1>9, <1>10, <1>11, <1>12
  DEF GlyphStep, renderToPng

\* RendererInv holds in every build: the cache and the search agree.
THEOREM RendererInvariance == Spec => []RendererInv
<1>1. RendererInv /\ [Next]_vars => RendererInv'
  BY BuilderIsGlyphStep, RendererStep
<1> QED
  BY RendererInit, <1>1, PTL DEF Spec

\* Whatever sizes drawing and measuring set on the shared faces, and whichever
\* fonts appear, the cache holds what its keys say.
THEOREM CacheCorrect == Spec => []CacheIsRight
<1>1. RendererInv => CacheIsRight
  BY DEF RendererInv
<1> QED
  BY RendererInvariance, <1>1, PTL

\* renderToPng answers with a picture of the symbol and size asked for.
THEOREM AnswerCorrect == Spec => []AnswerIsForRequest
<1>1. RendererInv => AnswerIsForRequest
  BY DEF RendererInv
<1> QED
  BY RendererInvariance, <1>1, PTL

\* A picture that was drawn stays in the cache as it is.
THEOREM PicturesAreKept == Spec => PicturesStay
<1>1. RendererInv /\ [Next]_vars => [Kept]_glyphVars
  BY BuilderIsGlyphStep, RendererStep
<1>2. [Kept]_glyphVars =>
        [\A r \in DOMAIN emojies :
            /\ r \in DOMAIN emojies'
            /\ isValid(emojies[r]) => emojies'[r] = emojies[r]]_glyphVars
  BY DEF Kept
<1> QED
  BY RendererInvariance, <1>1, <1>2, PTL DEF Spec, PicturesStay

-----------------------------------------------------------------------------
(* What all builds keep.                                                   *)

BaseInv ==
    /\ item \in Items \cup {NoItem}
    /\ pc # "idle" => item \in Items
    /\ at \in Nat \ {0}
    /\ rest \in Seq(Nat) /\ line \in Seq(Nat)

\* No build has begun.
LEMMA BaseInit == Init => BaseInv
BY DEF Init, BaseInv

\* Texts of an item and its markers are texts of Items.
LEMMA TextOfItem ==
    ASSUME item \in Items PROVE TextToDraw(item.text) \in Seq(Nat)
BY TextType DEF TextsOf

\* The text of a marker is bytes.
LEMMA TextOfMarker ==
    ASSUME item \in Items, at \in Nat \ {0}, at <= Len(Points)
    PROVE  TextToDraw(Points[at].text) \in Seq(Nat)
<1>1. item.points \in Seq(Point)
  BY SvgBuilderAssumption DEF Item
<1>2. at \in 1..Len(item.points)
  BY <1>1 DEF Points
<1>3. item.points[at].text \in TextsOf(item)
  BY <1>2 DEF TextsOf
<1> QED
  BY <1>3, TextType DEF Points

\* A part of a text is bytes as well.
LEMMA PartOfText ==
    ASSUME NEW text \in Seq(Nat), NEW m \in Nat \ {0}, NEW n \in 0..Len(text)
    PROVE  SubSeq(text, m, n) \in Seq(Nat)
OBVIOUS

\* Every step keeps it.
LEMMA BaseStep == BaseInv /\ [Next]_vars => BaseInv'
<1> SUFFICES ASSUME BaseInv, [Next]_vars PROVE BaseInv'
  OBVIOUS
<1> USE DEF BaseInv
<1>1. CASE Start
  BY <1>1 DEF Start
<1>2. CASE AsIs \/ BadPoint \/ Box \/ Rect \/ Close
  BY <1>2 DEF AsIs, BadPoint, Box, Rect, Close, joinVars, textVars
<1>3. CASE TextItem
  <2>1. /\ item \in Items /\ rest' = TextToDraw(item.text) /\ line' = <<>>
        /\ UNCHANGED <<item, at>>
    BY <1>3 DEF TextItem, BeginText, NewTask, joinVars
  <2> QED
    BY <2>1, TextOfItem
<1>4. CASE Marker
  <2>1. CASE Points[at].color /\ Points[at].text # <<>>
    <3>1. /\ pc = "join" /\ at <= Len(Points)
          /\ rest' = TextToDraw(Points[at].text) /\ line' = <<>>
          /\ UNCHANGED <<item, at>>
      BY <1>4, <2>1 DEF Marker, BeginText, NewTask, joinVars
    <3> QED
      BY <3>1, TextOfMarker
  <2>2. CASE ~(Points[at].color /\ Points[at].text # <<>>)
    BY <1>4, <2>2 DEF Marker, joinVars, textVars
  <2> QED
    BY <2>1, <2>2
<1>5. CASE LastPoint \/ FirstPoint \/ LineTo
  BY <1>5 DEF LastPoint, FirstPoint, LineTo, joinVars, textVars
<1>6. CASE LastLine \/ Split \/ SplitEnd \/ LineEnd
  BY <1>6 DEF LastLine, Split, SplitEnd, LineEnd, joinVars, textVars
<1>7. CASE ReadLine
  <2>1. PICK end \in 1..(Len(rest) + 1) :
          /\ line' = SubSeq(rest, 1, end - 1)
          /\ rest' = SubSeq(rest, end + 1, Len(rest))
    BY <1>7 DEF ReadLine, RestAfter
  <2>2. /\ end - 1 \in 0..Len(rest) /\ end + 1 \in Nat \ {0}
        /\ Len(rest) \in 0..Len(rest)
    OBVIOUS
  <2>3. line' \in Seq(Nat)
    BY ONLY rest \in Seq(Nat), <2>1, <2>2, PartOfText
  <2>4. rest' \in Seq(Nat)
    BY ONLY rest \in Seq(Nat), <2>1, <2>2, PartOfText
  <2> QED
    BY <1>7, <2>3, <2>4 DEF ReadLine, joinVars
<1>8. CASE TextTag \/ Custom \/ Render \/ Image
  BY <1>8 DEF TextTag, Custom, Render, Image, joinVars, textVars
<1>9. CASE Environment \/ UNCHANGED vars
  BY <1>9 DEF Environment, vars, joinVars, textVars
<1> QED
  BY <1>1, <1>2, <1>3, <1>4, <1>5, <1>6, <1>7, <1>8, <1>9 DEF Next, Build

-----------------------------------------------------------------------------
(* The spans of a line.                                                    *)

Spans == [begin : Nat, end : Nat, cls : Classes]

\* While makeSpans runs current_span begins where the spans before it end, and
\* is of another class than the last of them.
SpanInv ==
    /\ next \in Nat
    /\ spans \in Seq(Spans)
    /\ span \in [begin : Nat, cls : Classes] \cup {NoSpan}
    /\ (pc = "split" /\ span = NoSpan) => spans = <<>> /\ next = 0
    /\ (pc = "split" /\ span # NoSpan) =>
          /\ span.begin < next /\ span.begin < Len(line)
          /\ Tile(spans, 0, span.begin)
          /\ spans # <<>> => spans[Len(spans)].cls # span.cls
    /\ pc \in {"span", "image"} =>
          Tile(spans, IF spans = <<>> THEN Len(line) ELSE spans[1].begin, Len(line))
    /\ pc = "image" => spans # <<>>

\* A span that begins where a tiling ends makes it longer.
LEMMA TileAppend ==
    ASSUME NEW list \in Seq(Spans), NEW s \in Spans, NEW from \in Nat, NEW to \in Nat,
           Tile(list, from, to), s.begin = to, s.begin < s.end,
           list # <<>> => list[Len(list)].cls # s.cls
    PROVE  Tile(Append(list, s), from, s.end)
<1> DEFINE longer == Append(list, s)
<1>1. /\ longer # <<>> /\ Len(longer) = Len(list) + 1
      /\ longer[Len(longer)] = s
      /\ \A i \in 1..Len(list) : longer[i] = list[i]
  OBVIOUS
<1>2. longer[1].begin = from
  BY <1>1 DEF Tile
<1>3. \A i \in 1..Len(longer) : longer[i].begin < longer[i].end
  BY <1>1 DEF Tile
<1>4. \A i \in 1..(Len(longer) - 1) :
         longer[i].end = longer[i + 1].begin /\ longer[i].cls # longer[i + 1].cls
  <2> SUFFICES ASSUME NEW i \in 1..Len(list)
               PROVE longer[i].end = longer[i + 1].begin /\ longer[i].cls # longer[i + 1].cls
    BY <1>1
  <2>1. CASE i = Len(list)
    BY <1>1, <2>1 DEF Tile
  <2>2. CASE i < Len(list)
    BY <1>1, <2>2 DEF Tile
  <2> QED
    BY <2>1, <2>2
<1> QED
  BY <1>1, <1>2, <1>3, <1>4 DEF Tile

\* Without its first span it begins where that one ended.
LEMMA TileTail ==
    ASSUME NEW list \in Seq(Spans), NEW to \in Nat, list # <<>>,
           Tile(list, list[1].begin, to)
    PROVE  Tile(Tail(list), IF Tail(list) = <<>> THEN to ELSE Tail(list)[1].begin, to)
<1>1. /\ Tail(list) \in Seq(Spans) /\ Len(Tail(list)) = Len(list) - 1
      /\ \A i \in 1..Len(Tail(list)) : Tail(list)[i] = list[i + 1]
  OBVIOUS
<1>2. CASE Tail(list) = <<>>
  BY <1>2 DEF Tile
<1>3. CASE Tail(list) # <<>>
  BY <1>1, <1>3 DEF Tile
<1> QED
  BY <1>2, <1>3

\* There are no spans initially.
LEMMA SpanInit == Init => SpanInv
BY DEF Init, SpanInv

\* Splitting adds a span at the end, writing takes the first.
LEMMA SpanStep == BaseInv /\ SpanInv /\ [Next]_vars => SpanInv'
<1> SUFFICES ASSUME BaseInv, SpanInv, [Next]_vars PROVE SpanInv'
  OBVIOUS
<1>0. Len(line) \in Nat
  BY DEF BaseInv
<1> USE DEF SpanInv
<1>1. CASE Start
  BY <1>1 DEF Start
<1>2. CASE AsIs \/ BadPoint \/ Box \/ TextItem \/ Rect \/ Close
  BY <1>2 DEF AsIs, BadPoint, Box, TextItem, BeginText, Rect, Close, spanVars
<1>3. CASE LastPoint \/ FirstPoint \/ LineTo \/ LastLine
  BY <1>3 DEF LastPoint, FirstPoint, LineTo, LastLine, spanVars
<1>4. CASE Marker
  <2>1. pc' \in {"line", "point"} /\ UNCHANGED spanVars
    BY <1>4 DEF Marker, BeginText
  <2> QED
    BY <2>1 DEF spanVars
<1>5. CASE ReadLine
  BY <1>5 DEF ReadLine
<1>6. CASE Split
  <2> DEFINE cls == classify(SymbolAt(line, next))
  <2>1. /\ pc = "split" /\ pc' = pc /\ next < Len(line) /\ UNCHANGED line
        /\ next' = After(line, next) /\ next' \in Nat /\ next < next'
    BY <1>6, SymbolStep DEF Split, textVars
  <2>2. cls \in Classes
    BY ClassType
  <2>3. CASE span = NoSpan /\ span' = OpenSpan(cls) /\ UNCHANGED spans
    <3>1. span' = [begin |-> 0, cls |-> cls] /\ spans' = <<>>
      BY <2>1, <2>3 DEF OpenSpan
    <3>2. span' # NoSpan
      BY <2>2, <3>1, SvgBuilderAssumption
    <3> QED
      BY <2>1, <2>2, <3>1, <3>2 DEF Tile
  <2>4. CASE span # NoSpan /\ UNCHANGED <<span, spans>>
    BY <2>1, <2>4
  <2>5. CASE /\ span # NoSpan /\ span.cls # cls
             /\ spans' = Append(spans, CloseSpan(next)) /\ span' = OpenSpan(cls)
    <3>1. CloseSpan(next) \in Spans /\ CloseSpan(next).begin = span.begin
          /\ CloseSpan(next).end = next /\ CloseSpan(next).cls = span.cls
      BY <2>5 DEF CloseSpan, Spans
    <3>2. Tile(spans', 0, next)
      BY <2>1, <2>5, <3>1, TileAppend
    <3>3. /\ spans' \in Seq(Spans) /\ spans' # <<>>
          /\ spans'[Len(spans')] = CloseSpan(next)
      BY <2>5, <3>1
    <3>4. span' = [begin |-> next, cls |-> cls] /\ span' \in [begin : Nat, cls : Classes]
      BY <2>2, <2>5 DEF OpenSpan
    <3>5. span' # NoSpan
      BY <3>4, SvgBuilderAssumption
    <3> QED
      BY <2>1, <2>5, <3>1, <3>2, <3>3, <3>4, <3>5
  <2> QED
    BY <1>6, <2>3, <2>4, <2>5 DEF Split
<1>7. CASE SplitEnd
  <2>1. pc = "split" /\ pc' = "span" /\ next >= Len(line) /\ UNCHANGED <<line, next>> /\ span' = NoSpan
    BY <1>7 DEF SplitEnd, textVars
  <2>2. CASE span = NoSpan
    <3>1. spans' = <<>>
      BY <1>7, <2>1, <2>2 DEF SplitEnd
    <3> QED
      BY <2>1, <3>1 DEF Tile
  <2>3. CASE span # NoSpan
    <3>1. spans' = Append(spans, CloseSpan(Len(line)))
      BY <1>7, <2>1, <2>3 DEF SplitEnd
    <3>2. CloseSpan(Len(line)) \in Spans /\ CloseSpan(Len(line)).begin = span.begin
          /\ CloseSpan(Len(line)).end = Len(line) /\ CloseSpan(Len(line)).cls = span.cls
      BY <1>0, <2>3 DEF CloseSpan, Spans
    <3>3. Tile(spans', 0, Len(line))
      BY <1>0, <2>1, <2>3, <3>1, <3>2, TileAppend
    <3>4. spans' \in Seq(Spans) /\ spans' # <<>>
      BY <3>1, <3>2
    <3>5. spans'[1].begin = 0
      BY <3>3, <3>4 DEF Tile
    <3> QED
      BY <2>1, <3>3, <3>4, <3>5
  <2> QED
    BY <2>2, <2>3
<1>8. CASE LineEnd
  BY <1>8 DEF LineEnd, spanVars
<1>9. CASE TextTag
  <2>1. pc = "span" /\ pc' = pc /\ spans # <<>> /\ spans' = Tail(spans) /\ UNCHANGED <<line, next, span>>
    BY <1>9 DEF TextTag
  <2> QED
    BY <1>0, <2>1, TileTail
<1>10. CASE Custom
  <2>1. /\ pc = "span" /\ pc' = "image" /\ spans # <<>> /\ UNCHANGED <<line, spans, span>>
        /\ next' = After(line, Head(spans).begin)
    BY <1>10 DEF Custom, textVars
  <2>2. Head(spans).begin \in Nat
    <3>1. Head(spans) = spans[1] /\ spans[1] \in Spans
      BY <2>1
    <3> QED
      BY <3>1 DEF Spans
  <2> QED
    BY <2>1, <2>2, SymbolStep
<1>11. CASE Render
  BY <1>11 DEF Render, spanVars, textVars
<1>12. CASE Image
  <2>1. pc = "image" /\ spans # <<>> /\ UNCHANGED <<line, span>>
    BY <1>12 DEF Image
  <2>2. CASE MoreInSpan
    <3>1. next' = After(line, next) /\ UNCHANGED <<pc, spans>>
      BY <1>12, <2>2 DEF Image
    <3> QED
      BY <2>1, <3>1, SymbolStep
  <2>3. CASE ~MoreInSpan
    <3>1. pc' = "span" /\ spans' = Tail(spans) /\ UNCHANGED next
      BY <1>12, <2>3 DEF Image
    <3> QED
      BY <1>0, <2>1, <3>1, TileTail
  <2> QED
    BY <2>2, <2>3
<1>13. CASE Environment \/ UNCHANGED vars
  BY <1>13 DEF Environment, vars, spanVars, textVars
<1> QED
  BY <1>1, <1>2, <1>3, <1>4, <1>5, <1>6, <1>7, <1>8, <1>9, <1>10, <1>11, <1>12, <1>13
  DEF Next, Build

\* makeSpans cuts every line, whatever bytes it has, into spans that lie end to
\* end, none of them empty and no two neighbours of one class.
THEOREM SpansAreTiles == Spec => []SpansTile
<1>1. Init => BaseInv /\ SpanInv
  BY BaseInit, SpanInit
<1>2. (BaseInv /\ SpanInv) /\ [Next]_vars => (BaseInv /\ SpanInv)'
  BY BaseStep, SpanStep
<1>3. SpanInv => SpansTile
  BY DEF SpanInv, SpansTile, Tile
<1> QED
  BY <1>1, <1>2, <1>3, PTL DEF Spec

-----------------------------------------------------------------------------
(* The symbols of a span.                                                  *)

\* From one offset to another the symbols of a text are of one class: those at
\* the offsets of a set that makeSpans has gone through.
UniformOn(S, src, from, to, cls) ==
    /\ from \in S
    /\ \A k \in S : k < to =>
         /\ classify(SymbolAt(src, k)) = cls
         /\ After(src, k) \in S \/ (After(src, k) > to /\ to = Len(src))

Uniform(src, from, to, cls) ==
    \E S \in SUBSET (from..to) : UniformOn(S, src, from, to, cls)

\* What is read of such a part alone has one class.
LEMMA UniformSymbols ==
    ASSUME NEW src \in Seq(Nat), NEW begin \in Nat, NEW end \in 0..Len(src), begin < end,
           NEW cls, Uniform(src, begin, end, cls)
    PROVE  LET symbols == SymbolsOf(SubSeq(src, begin + 1, end))
           IN \A k \in 1..Len(symbols) : classify(symbols[k]) = cls
<1> DEFINE part == SubSeq(src, begin + 1, end)
<1>1. PICK S \in SUBSET (begin..end) : UniformOn(S, src, begin, end, cls)
  BY DEF Uniform
<1> DEFINE T == {SymbolAt(src, k) : k \in {k \in S : k < end}}
           Inside == {j \in Nat : begin + j \in S \/ j >= end - begin}
<1>0. end \in Nat /\ \A k \in S : k \in Nat /\ begin <= k /\ k <= end
  OBVIOUS
<1>2. part \in Seq(Nat) /\ Len(part) = end - begin
  BY SymbolOfPart
<1>3. 0 \in Inside /\ Inside \in SUBSET Nat
  BY <1>1 DEF UniformOn
<1>4. ASSUME NEW j \in Inside, j < Len(part)
      PROVE  After(part, j) \in Inside /\ SymbolAt(part, j) \in T
  <2> DEFINE k == begin + j
  <2>1. j \in Nat /\ k \in S /\ k \in begin..(end - 1) /\ k - begin = j /\ k < end /\ k \in Nat
    BY <1>0, <1>2, <1>4
  <2> HIDE DEF k
  <2>2. After(src, k) \in S \/ (After(src, k) > end /\ end = Len(src))
    BY <1>1, <2>1 DEF UniformOn
  <2>3. After(src, k) \in Nat /\ After(src, k) > k
    BY <2>1, SymbolStep
  <2>4. After(src, k) <= end \/ end = Len(src)
    BY <1>0, <2>2
  <2>5. After(part, j) = After(src, k) - begin /\ SymbolAt(part, j) = SymbolAt(src, k)
    BY <2>1, <2>4, SymbolOfPart
  <2>6. After(part, j) \in Nat /\ begin + After(part, j) = After(src, k)
    BY <1>0, <2>1, <2>3, <2>5
  <2>7. After(part, j) \in Inside
    BY <1>0, <2>2, <2>3, <2>5, <2>6
  <2>8. SymbolAt(part, j) \in T
    BY <2>1, <2>5
  <2> QED
    BY <2>7, <2>8
<1> HIDE DEF Inside, T, part
<1>5. SymbolsOf(part) \in Seq(T)
  BY <1>2, <1>3, <1>4, SymbolsReached
<1>6. \A symbol \in T : classify(symbol) = cls
  BY <1>1 DEF T, UniformOn
<1>7. \A k \in 1..Len(SymbolsOf(part)) : SymbolsOf(part)[k] \in T
  BY <1>5, ElementOfSeq
<1> QED
  BY <1>6, <1>7 DEF part

\* The spans that are closed, and current_span as far as makeSpans has come.
UniformInv ==
    /\ pc \in {"split", "span", "image"} =>
         \A i \in 1..Len(spans) :
           /\ spans[i].end <= Len(line)
           /\ Uniform(line, spans[i].begin, spans[i].end, spans[i].cls)
    /\ (pc = "split" /\ span # NoSpan) =>
         \E S \in SUBSET (span.begin..next) :
           /\ span.begin \in S /\ next \in S
           /\ \A k \in S : k < next =>
                classify(SymbolAt(line, k)) = span.cls /\ After(line, k) \in S

UniformSpan(s) == s.end <= Len(line) /\ Uniform(line, s.begin, s.end, s.cls)

\* What is split keeps its spans; one more is closed at the offset that is
\* reached, or at the end of the line.
LEMMA SpanIsUniform ==
    ASSUME BaseInv, SpanInv, UniformInv, pc = "split", span # NoSpan,
           NEW end \in Nat, end = next \/ (end = Len(line) /\ next >= end),
           span.begin < end, end <= Len(line)
    PROVE  UniformSpan(CloseSpan(end))
<1> DEFINE begin == span.begin
           cls == span.cls
<1>0. Len(line) \in Nat /\ next \in Nat /\ begin \in Nat /\ begin < end
  BY SvgBuilderAssumption DEF BaseInv, SpanInv
<1>1. PICK S \in SUBSET (begin..next) :
         /\ begin \in S /\ next \in S
         /\ \A k \in S : k < next => classify(SymbolAt(line, k)) = cls /\ After(line, k) \in S
  BY DEF UniformInv
<1> HIDE DEF begin, cls
<1> DEFINE Part == {k \in S : k <= end}
<1>2. Part \in SUBSET (begin..end) /\ begin \in Part
  <2>1. \A k \in Part : k \in begin..end
    BY <1>0
  <2>2. begin \in Part
    BY <1>0, <1>1
  <2> QED
    BY <2>1, <2>2
<1>3. ASSUME NEW k \in Part, k < end
      PROVE  /\ classify(SymbolAt(line, k)) = cls
             /\ After(line, k) \in Part \/ (After(line, k) > end /\ end = Len(line))
  <2>1. k \in S /\ k \in Nat /\ k < next
    BY <1>0, <1>3
  <2>2. classify(SymbolAt(line, k)) = cls /\ After(line, k) \in S
    BY <1>1, <2>1
  <2>3. After(line, k) \in begin..next
    BY <2>2
  <2>4. After(line, k) <= end \/ (After(line, k) > end /\ end = Len(line))
    BY <1>0, <2>3
  <2> QED
    BY <2>2, <2>4
<1>4. UniformOn(Part, line, begin, end, cls)
  BY <1>2, <1>3 DEF UniformOn
<1>5. Uniform(line, begin, end, cls)
  BY <1>2, <1>4 DEF Uniform
<1> QED
  BY <1>5 DEF UniformSpan, CloseSpan, begin, cls

\* There are no spans initially.
LEMMA UniformInit == Init => UniformInv
BY DEF Init, UniformInv

\* makeSpans closes a span when the class changes; writing a span leaves the
\* others.
LEMMA UniformStep == BaseInv /\ SpanInv /\ UniformInv /\ [Next]_vars => UniformInv'
<1> SUFFICES ASSUME BaseInv, SpanInv, UniformInv, [Next]_vars PROVE UniformInv'
  OBVIOUS
<1>0. Len(line) \in Nat /\ next \in Nat /\ spans \in Seq(Spans)
  BY DEF BaseInv, SpanInv
<1>1. ASSUME pc' \notin {"split", "span", "image"} PROVE UniformInv'
  BY <1>1 DEF UniformInv
<1>2. ASSUME UNCHANGED <<spans, line>>, pc \in {"split", "span", "image"}, pc' # "split"
      PROVE  UniformInv'
  BY <1>2 DEF UniformInv
<1>3. CASE Start \/ AsIs \/ BadPoint \/ Box \/ TextItem \/ Rect \/ Close
  BY <1>1, <1>3 DEF Start, AsIs, BadPoint, Box, TextItem, BeginText, Rect, Close
<1>4. CASE LastPoint \/ Marker \/ FirstPoint \/ LineTo \/ LastLine \/ LineEnd
  BY <1>1, <1>4 DEF LastPoint, Marker, BeginText, FirstPoint, LineTo, LastLine, LineEnd
<1>5. CASE ReadLine
  BY <1>5 DEF ReadLine, UniformInv
<1>6. CASE Split
  <2> DEFINE cls == classify(SymbolAt(line, next))
             far == After(line, next)
  <2>1. pc = "split" /\ pc' = pc /\ next < Len(line) /\ UNCHANGED line /\ next' = far
    BY <1>6 DEF Split, textVars
  <2>2. far \in Nat /\ next < far
    BY <1>0, SymbolStep
  <2>3. cls \in Classes
    BY ClassType
  <2> HIDE DEF cls, far
  <2>a. \A i \in 1..Len(spans) : UniformSpan(spans[i])
    BY <2>1 DEF UniformInv, UniformSpan
  \* A span that opens here.
  <2>4. ASSUME span' = OpenSpan(cls),
               \A i \in 1..Len(spans') : UniformSpan(spans'[i])
        PROVE  UniformInv'
    <3> DEFINE S == {next, far}
    <3>1. span' = [begin |-> next, cls |-> cls]
      BY <2>4 DEF OpenSpan
    <3>2. S \in SUBSET (next..far)
      BY <1>0, <2>2
    <3>3. \A k \in S : k < far => classify(SymbolAt(line, k)) = cls /\ After(line, k) \in S
      BY <1>0, <2>2 DEF cls, far
    <3>4. \E R \in SUBSET (span'.begin..next') :
            /\ span'.begin \in R /\ next' \in R
            /\ \A k \in R : k < next' =>
                 classify(SymbolAt(line', k)) = span'.cls /\ After(line', k) \in R
      BY <2>1, <3>1, <3>2, <3>3
    <3>5. \A i \in 1..Len(spans') :
            /\ spans'[i].end <= Len(line')
            /\ Uniform(line', spans'[i].begin, spans'[i].end, spans'[i].cls)
      BY <2>1, <2>4 DEF UniformSpan
    <3> QED
      BY <3>4, <3>5 DEF UniformInv
  <2>5. CASE span = NoSpan /\ span' = OpenSpan(cls) /\ UNCHANGED spans
    BY <2>4, <2>5, <2>a
  <2>6. CASE span # NoSpan /\ span.cls = cls /\ UNCHANGED <<span, spans>>
    <3>0. span.begin \in Nat /\ span.begin < next
      BY <2>1, <2>6, SvgBuilderAssumption DEF SpanInv
    <3>1. PICK S \in SUBSET (span.begin..next) :
            /\ span.begin \in S /\ next \in S
            /\ \A k \in S : k < next =>
                 classify(SymbolAt(line, k)) = span.cls /\ After(line, k) \in S
      BY <2>1, <2>6 DEF UniformInv
    <3> DEFINE R == S \cup {far}
    <3>2. R \in SUBSET (span.begin..far) /\ span.begin \in R /\ far \in R
      BY <1>0, <2>2, <3>0, <3>1
    <3>3. ASSUME NEW k \in R, k < far
          PROVE  classify(SymbolAt(line, k)) = span.cls /\ After(line, k) \in R
      <4>1. k \in S /\ (k < next \/ k = next)
        BY <1>0, <2>2, <3>0, <3>3
      <4>2. CASE k < next
        BY <3>1, <4>1, <4>2
      <4>3. CASE k = next
        BY <2>6, <4>3 DEF cls, far
      <4> QED
        BY <4>1, <4>2, <4>3
    <3>4. \E Q \in SUBSET (span'.begin..next') :
            /\ span'.begin \in Q /\ next' \in Q
            /\ \A k \in Q : k < next' =>
                 classify(SymbolAt(line', k)) = span'.cls /\ After(line', k) \in Q
      BY <2>1, <2>6, <3>2, <3>3
    <3> QED
      BY <2>1, <2>6, <3>4 DEF UniformInv
  <2>7. CASE /\ span # NoSpan /\ span.cls # cls
             /\ spans' = Append(spans, CloseSpan(next)) /\ span' = OpenSpan(cls)
    <3>1. span.begin < next
      BY <2>1, <2>7 DEF SpanInv
    <3>2. UniformSpan(CloseSpan(next))
      BY <1>0, <2>1, <2>7, <3>1, SpanIsUniform
    <3>3. \A i \in 1..Len(spans') : UniformSpan(spans'[i])
      <4> SUFFICES ASSUME NEW i \in 1..Len(spans') PROVE UniformSpan(spans'[i])
        OBVIOUS
      <4>1. (i \in 1..Len(spans) /\ spans'[i] = spans[i]) \/ spans'[i] = CloseSpan(next)
        BY <1>0, <2>7
      <4> QED
        BY <2>a, <3>2, <4>1
    <3> QED
      BY <2>4, <2>7, <3>3
  <2> QED
    BY <1>6, <2>5, <2>6, <2>7 DEF Split, cls
<1>7. CASE SplitEnd
  <2>1. pc = "split" /\ pc' = "span" /\ next >= Len(line) /\ UNCHANGED line
    BY <1>7 DEF SplitEnd, textVars
  <2>2. CASE span # NoSpan /\ span.begin < Len(line)
    <3>1. spans' = Append(spans, CloseSpan(Len(line)))
      BY <1>7, <2>2 DEF SplitEnd
    <3>2. UniformSpan(CloseSpan(Len(line)))
      BY <1>0, <2>1, <2>2, SpanIsUniform
    <3>3. \A i \in 1..Len(spans') : UniformSpan(spans'[i])
      <4> SUFFICES ASSUME NEW i \in 1..Len(spans') PROVE UniformSpan(spans'[i])
        OBVIOUS
      <4>1. (i \in 1..Len(spans) /\ spans'[i] = spans[i]) \/ spans'[i] = CloseSpan(Len(line))
        BY <1>0, <3>1
      <4> QED
        BY <2>1, <3>2, <4>1 DEF UniformInv, UniformSpan
    <3> QED
      BY <2>1, <3>3 DEF UniformInv, UniformSpan
  <2>3. CASE ~(span # NoSpan /\ span.begin < Len(line))
    <3>1. UNCHANGED spans
      BY <1>7, <2>3 DEF SplitEnd
    <3> QED
      BY <1>2, <2>1, <3>1
  <2> QED
    BY <2>2, <2>3
<1>8. CASE Custom \/ Render
  BY <1>2, <1>8 DEF Custom, Render, spanVars, textVars
<1>9. ASSUME pc \in {"span", "image"}, pc' \in {"span", "image"}, UNCHANGED line,
             spans # <<>>, spans' = Tail(spans)
      PROVE  UniformInv'
  <2>1. /\ Len(Tail(spans)) = Len(spans) - 1 /\ Len(spans) \in Nat
        /\ \A i \in 1..Len(Tail(spans)) : Tail(spans)[i] = spans[i + 1]
    BY <1>0, <1>9
  <2>2. \A i \in 1..Len(Tail(spans)) : i + 1 \in 1..Len(spans)
    BY <2>1
  <2> QED
    BY <1>9, <2>1, <2>2 DEF UniformInv
<1>10. CASE TextTag
  BY <1>9, <1>10 DEF TextTag
<1>11. CASE Image
  <2>1. pc = "image" /\ spans # <<>> /\ UNCHANGED line
    BY <1>11 DEF Image, SpanInv
  <2>2. CASE MoreInSpan
    BY <1>2, <1>11, <2>1, <2>2 DEF Image
  <2>3. CASE ~MoreInSpan
    BY <1>9, <1>11, <2>1, <2>3 DEF Image
  <2> QED
    BY <2>2, <2>3
<1>12. CASE Environment \/ UNCHANGED vars
  BY <1>12 DEF Environment, vars, spanVars, textVars, UniformInv
<1> QED
  BY <1>3, <1>4, <1>5, <1>6, <1>7, <1>8, <1>10, <1>11, <1>12 DEF Next, Build

\* Every span that makeSpans gives, whatever the bytes of the line, has symbols
\* of its class only when an iterator goes over its part of the line again.
THEOREM SpansHaveOneClass == Spec => []SpansAreUniform
<1>1. Init => BaseInv /\ SpanInv /\ UniformInv
  BY BaseInit, SpanInit, UniformInit
<1>2. (BaseInv /\ SpanInv /\ UniformInv) /\ [Next]_vars => (BaseInv /\ SpanInv /\ UniformInv)'
  BY BaseStep, SpanStep, UniformStep
<1>3. BaseInv /\ SpanInv /\ UniformInv => SpansAreUniform
  <2> SUFFICES ASSUME BaseInv, SpanInv, UniformInv, pc \in {"span", "image"},
                      NEW i \in 1..Len(spans)
               PROVE  LET symbols == SymbolsOf(SubSeq(line, spans[i].begin + 1, spans[i].end))
                      IN \A k \in 1..Len(symbols) : classify(symbols[k]) = spans[i].cls
    BY DEF SpansAreUniform
  <2>1. spans[i] \in Spans /\ line \in Seq(Nat) /\ spans # <<>>
    BY DEF BaseInv, SpanInv
  <2>2. spans[i].begin \in Nat /\ spans[i].end \in Nat /\ spans[i].begin < spans[i].end
    BY <2>1 DEF SpanInv, Tile, Spans
  <2>3. spans[i].end \in 0..Len(line)
    BY <2>1, <2>2 DEF UniformInv
  <2>4. Uniform(line, spans[i].begin, spans[i].end, spans[i].cls)
    BY DEF UniformInv
  <2> QED
    BY <2>1, <2>2, <2>3, <2>4, UniformSymbols
<1> QED
  BY <1>1, <1>2, <1>3, PTL DEF Spec

-----------------------------------------------------------------------------
(* Every symbol reaches a renderer once.                                   *)

\* A span ends where the next one begins, which is of another class, or with
\* the line.
LEMMA SpanEnds ==
    ASSUME NEW list \in Seq(Spans), NEW to \in Nat, list # <<>>, Tile(list, list[1].begin, to)
    PROVE  /\ list[1].begin \in Nat /\ list[1].end \in Nat /\ list[1].begin < list[1].end
           /\ (IF Tail(list) = <<>> THEN to ELSE Tail(list)[1].begin) = list[1].end
           /\ list[1].end # to =>
                /\ 2 \in 1..Len(list) /\ list[2].begin = list[1].end
                /\ list[2].begin < list[2].end /\ list[2].cls # list[1].cls
<1>1. /\ Len(list) \in Nat /\ Len(list) >= 1
      /\ Tail(list) \in Seq(Spans) /\ Len(Tail(list)) = Len(list) - 1
      /\ \A i \in 1..Len(Tail(list)) : Tail(list)[i] = list[i + 1]
  OBVIOUS
<1>2. /\ list[Len(list)].end = to
      /\ \A i \in 1..Len(list) : list[i].begin < list[i].end
      /\ \A i \in 1..(Len(list) - 1) :
           list[i].end = list[i + 1].begin /\ list[i].cls # list[i + 1].cls
  BY DEF Tile
<1>5. list[1].begin \in Nat /\ list[1].end \in Nat /\ list[1].begin < list[1].end
  <2>1. 1 \in 1..Len(list) /\ list[1] \in Spans
    BY <1>1
  <2> QED
    BY <1>2, <2>1 DEF Spans
<1>3. CASE Len(list) = 1
  <2>1. Len(Tail(list)) = 0 /\ list[1].end = to
    BY <1>1, <1>2, <1>3
  <2>2. Tail(list) = <<>>
    BY <1>1, <2>1, EmptySeq
  <2> QED
    BY <1>5, <2>1, <2>2
<1>4. CASE Len(list) > 1
  <2>1. 1 \in 1..(Len(list) - 1) /\ 2 \in 1..Len(list) /\ 1 \in 1..Len(Tail(list))
    BY <1>1, <1>4
  <2>2. Tail(list) # <<>> /\ Tail(list)[1] = list[2]
    BY <1>1, <2>1
  <2>3. list[1].end = list[2].begin /\ list[1].cls # list[2].cls
    BY <1>2, <2>1
  <2> QED
    BY <1>2, <1>5, <2>1, <2>2, <2>3
<1> QED
  BY <1>1, <1>3, <1>4

\* The line lies between bounds, and what is not read yet shows the rest.
LineIsRead(bounds, sofar) ==
    /\ Decodes(line, bounds, sofar)
    /\ \A i \in 1..Len(line) : line[i] # 10
    /\ ReadsText(rest, sofar[Len(line)], Wanted(task.text))

\* A span is made of symbols of its class.
Between(bounds, begin, end, cls) ==
    /\ begin \in bounds /\ end \in bounds
    /\ \A k \in bounds : begin <= k /\ k < end => classify(SymbolAt(line, k)) = cls

\* While the spans are made nothing of the line is written.
SplitIsRead(bounds, sofar) ==
    /\ next \in bounds /\ written = sofar[0]
    /\ span # NoSpan => Between(bounds, span.begin, next, span.cls)

\* Where the spans begin that are not written yet.
SpansLeftFrom == IF spans = <<>> THEN Len(line) ELSE spans[1].begin

\* In a span of emoji the symbol at k is with the renderer.
ImageIsRead(bounds, sofar) ==
    \E k \in bounds :
        /\ spans[1].begin <= k /\ k < spans[1].end
        /\ written = sofar[k] /\ next = After(line, k) /\ request.symbol = SymbolAt(line, k)

\* What is written of a line, while spans are made, between them and inside.
LineInv(bounds, sofar) ==
    /\ LineIsRead(bounds, sofar)
    /\ \A i \in 1..Len(spans) : Between(bounds, spans[i].begin, spans[i].end, spans[i].cls)
    /\ pc = "split" => SplitIsRead(bounds, sofar)
    /\ pc = "span" => written = sofar[SpansLeftFrom]
    /\ pc = "image" => ImageIsRead(bounds, sofar)

\* What is written and what is left make up what the text is to show.
WriteInv ==
    /\ pc = "line" => ReadsText(rest, written, Wanted(task.text))
    /\ pc \in {"split", "span", "image"} => \E bounds, sofar : LineInv(bounds, sofar)

\* Nothing is written before the first text.
LEMMA WriteInit == Init => WriteInv
BY DEF Init, WriteInv

\* The renderer keeps the request while it works on it.
LEMMA RequestStays == renderToPng \/ InstallFont => UNCHANGED request
BY DEF renderToPng, Hit, Miss, NextFont, OtherMode, Draw, Abort, NoResult, InstallFont

\* Each step writes what it takes.
LEMMA WriteStep == BaseInv /\ SpanInv /\ WriteInv /\ [Next]_vars => WriteInv'
<1> SUFFICES ASSUME BaseInv, SpanInv, WriteInv, [Next]_vars PROVE WriteInv'
  OBVIOUS
<1>0. /\ line \in Seq(Nat) /\ rest \in Seq(Nat) /\ Len(line) \in Nat
      /\ next \in Nat /\ spans \in Seq(Spans) /\ Len(spans) \in Nat
  BY DEF BaseInv, SpanInv
<1>1. ASSUME pc' \notin {"line", "split", "span", "image"} PROVE WriteInv'
  BY <1>1 DEF WriteInv
\* A step from a line to the same line.
<1>2. ASSUME pc \in {"split", "span", "image"}, pc' \in {"split", "span", "image"},
             UNCHANGED <<line, rest, task>>, spans' \in Seq(Spans),
             NEW bounds, NEW sofar, LineInv(bounds, sofar),
             \A i \in 1..Len(spans') :
               Between(bounds, spans'[i].begin, spans'[i].end, spans'[i].cls),
             pc' = "split" => SplitIsRead(bounds, sofar)',
             pc' = "span" => written' = sofar[SpansLeftFrom'],
             pc' = "image" => ImageIsRead(bounds, sofar)'
      PROVE  WriteInv'
  <2>1. LineIsRead(bounds, sofar)'
    BY <1>2 DEF LineInv, LineIsRead
  <2>2. (\A i \in 1..Len(spans) : Between(bounds, spans[i].begin, spans[i].end, spans[i].cls))'
    BY <1>2 DEF Between
  <2>3. LineInv(bounds, sofar)'
    BY <1>2, <2>1, <2>2 DEF LineInv
  <2>4. pc' # "line"
    BY <1>2
  <2> QED
    BY <2>3, <2>4 DEF WriteInv
<1>3. ASSUME UNCHANGED <<pc, line, rest, task, next, span, spans, written, request>>
      PROVE  WriteInv'
  BY <1>3 DEF WriteInv, LineInv, LineIsRead, Between, SplitIsRead, SpansLeftFrom, ImageIsRead
<1>4. ASSUME NEW text \in Text, pc' = "line", rest' = TextToDraw(text), written' = <<>>,
             task'.text = text
      PROVE  WriteInv'
  BY <1>4, TextReads DEF WriteInv
<1>5. CASE Start \/ AsIs \/ BadPoint \/ Box \/ Rect \/ Close
  BY <1>1, <1>5 DEF Start, AsIs, BadPoint, Box, Rect, Close
<1>6. CASE LastPoint \/ FirstPoint \/ LineTo \/ LastLine
  BY <1>1, <1>6 DEF LastPoint, FirstPoint, LineTo, LastLine
<1>7. CASE TextItem
  <2>1. item \in Items
    BY <1>7 DEF TextItem, BaseInv
  <2>2. item.text \in Text
    BY <2>1, SvgBuilderAssumption DEF Item
  <2>3. /\ pc' = "line" /\ rest' = TextToDraw(item.text) /\ written' = <<>>
        /\ task'.text = item.text
    BY <1>7 DEF TextItem, BeginText, NewTask
  <2> QED
    BY <1>4, <2>2, <2>3
<1>8. CASE Marker
  <2>1. /\ item \in Items /\ at \in Nat \ {0} /\ at <= Len(Points)
    BY <1>8 DEF Marker, BaseInv
  <2>2. CASE Points[at].color /\ Points[at].text # <<>>
    <3>1. Points[at].text \in Text
      <4>1. item.points \in Seq(Point)
        BY <2>1, SvgBuilderAssumption DEF Item
      <4>2. at \in 1..Len(item.points)
        BY <2>1, <4>1 DEF Points
      <4>3. Points[at] \in Point
        BY <4>1, <4>2, ElementOfSeq DEF Points
      <4> QED
        BY <4>3 DEF Point
    <3>2. /\ pc' = "line" /\ rest' = TextToDraw(Points[at].text) /\ written' = <<>>
          /\ task'.text = Points[at].text
      BY <1>8, <2>2 DEF Marker, BeginText, NewTask
    <3> QED
      BY <1>4, <3>1, <3>2
  <2>3. CASE ~(Points[at].color /\ Points[at].text # <<>>)
    BY <1>1, <1>8, <2>3 DEF Marker
  <2> QED
    BY <2>2, <2>3
<1>9. CASE ReadLine
  <2>1. PICK end \in 1..(Len(rest) + 1) :
          /\ EndsLine(end)
          /\ line' = SubSeq(rest, 1, end - 1) /\ rest' = SubSeq(rest, end + 1, Len(rest))
    BY <1>9 DEF ReadLine, RestAfter
  <2>2. /\ pc = "line" /\ pc' = "split" /\ UNCHANGED <<task, written>>
        /\ next' = 0 /\ span' = NoSpan /\ spans' = <<>>
    BY <1>9 DEF ReadLine
  <2>3. ReadsText(rest, written, Wanted(task.text))
    BY <2>2 DEF WriteInv
  <2>4. (end <= Len(rest) => rest[end] = 10) /\ \A i \in 1..(end - 1) : rest[i] # 10
    BY <2>1 DEF EndsLine
  <2>5. PICK shown : /\ ReadsText(line', written, shown)
                     /\ ReadsText(rest', shown, Wanted(task.text))
    BY <1>0, <2>1, <2>3, <2>4, LineOfText
  <2>6. PICK bounds, sofar :
          Decodes(line', bounds, sofar) /\ sofar[0] = written /\ sofar[Len(line')] = shown
    BY <2>5 DEF ReadsText
  <2>7. \A i \in 1..Len(line') : line'[i] # 10
    <3>1. 0 \in 0..Len(rest) /\ end - 1 \in 0..Len(rest) /\ 0 <= end - 1 /\ end - 1 - 0 = end - 1
          /\ 0 + 1 = 1 /\ \A i \in 1..(end - 1) : 0 + i = i
      BY <1>0
    <3>2. Len(line') = end - 1 /\ \A i \in 1..(end - 1) : line'[i] = rest[i]
      BY <1>0, <2>1, <3>1, PartElements
    <3> QED
      BY <2>4, <3>2
  <2>8. LineIsRead(bounds, sofar)'
    BY <2>2, <2>5, <2>6, <2>7 DEF LineIsRead
  <2>9. SplitIsRead(bounds, sofar)'
    <3>1. 0 \in bounds
      BY <2>6 DEF Decodes
    <3> QED
      BY <2>2, <2>6, <3>1 DEF SplitIsRead
  <2>10. LineInv(bounds, sofar)'
    BY <2>2, <2>8, <2>9 DEF LineInv
  <2> QED
    BY <2>2, <2>10 DEF WriteInv
<1>10. CASE Split
  <2> DEFINE cls == classify(SymbolAt(line, next))
             far == After(line, next)
  <2>1. /\ pc = "split" /\ pc' = "split" /\ next < Len(line) /\ next' = far
        /\ UNCHANGED <<line, rest, task, written>>
    BY <1>10 DEF Split, textVars, outVars
  <2>2. PICK bounds, sofar : LineInv(bounds, sofar)
    BY <2>1 DEF WriteInv
  <2>3. /\ Decodes(line, bounds, sofar) /\ \A i \in 1..Len(line) : line[i] # 10
        /\ next \in bounds /\ written = sofar[0]
        /\ span # NoSpan => Between(bounds, span.begin, next, span.cls)
        /\ \A i \in 1..Len(spans) : Between(bounds, spans[i].begin, spans[i].end, spans[i].cls)
    BY <2>1, <2>2 DEF LineInv, LineIsRead, SplitIsRead
  <2>4. far \in bounds /\ \A j \in bounds : j > next => j >= far
    BY <2>1, <2>3, SymbolShows
  <2>5. \A k \in bounds : k \in Nat
    BY <2>3 DEF Decodes
  <2>6. far > next /\ far \in Nat
    BY <1>0, SymbolStep
  <2>7. \A k \in bounds : k < far => k < next \/ k = next
    <3> SUFFICES ASSUME NEW k \in bounds, k < far, ~(k < next), k # next PROVE FALSE
      OBVIOUS
    <3>1. k \in Nat /\ next \in Nat
      BY <1>0, <2>5
    <3>2. k >= far
      BY <2>4, <3>1
    <3> QED
      BY <2>6, <3>1, <3>2
  <2>8. spans' \in Seq(Spans) /\ SpanInv'
    BY SpanStep DEF SpanInv
  <2>9. ASSUME span' # NoSpan => Between(bounds, span'.begin, far, span'.cls),
               \A i \in 1..Len(spans') :
                 Between(bounds, spans'[i].begin, spans'[i].end, spans'[i].cls)
        PROVE  WriteInv'
    <3>1. (span # NoSpan => Between(bounds, span.begin, next, span.cls))'
      BY <2>1, <2>9 DEF Between
    <3>2. SplitIsRead(bounds, sofar)'
      BY <2>1, <2>3, <2>4, <3>1 DEF SplitIsRead
    <3> QED
      BY <1>2, <2>1, <2>2, <2>8, <2>9, <3>2
  \* A span that opens here has one symbol.
  <2>10. ASSUME span' = OpenSpan(cls) PROVE Between(bounds, span'.begin, far, span'.cls)
    <3>1. span'.begin = next /\ span'.cls = cls
      BY <2>10 DEF OpenSpan
    <3>2. \A k \in bounds : next <= k /\ k < far => k = next
      BY <1>0, <2>5, <2>7
    <3> HIDE DEF far
    <3> QED
      BY <2>3, <2>4, <3>1, <3>2 DEF Between
  <2>11. CASE span = NoSpan /\ span' = OpenSpan(cls) /\ UNCHANGED spans
    BY <2>3, <2>9, <2>10, <2>11
  <2>12. CASE span # NoSpan /\ span.cls = cls /\ UNCHANGED <<span, spans>>
    <3>1. span.begin \in bounds
          /\ \A k \in bounds : span.begin <= k /\ k < next => classify(SymbolAt(line, k)) = cls
      BY <2>3, <2>12 DEF Between
    <3> HIDE DEF far
    <3>2. ASSUME NEW k \in bounds, span.begin <= k, k < far
          PROVE  classify(SymbolAt(line, k)) = cls
      BY <2>7, <3>1, <3>2
    <3>3. Between(bounds, span.begin, far, span.cls)
      BY <2>4, <2>12, <3>1, <3>2 DEF Between
    <3> QED
      BY <2>3, <2>9, <2>12, <3>3
  <2>13. CASE /\ span # NoSpan /\ span.cls # cls
              /\ spans' = Append(spans, CloseSpan(next)) /\ span' = OpenSpan(cls)
    <3>1. Between(bounds, CloseSpan(next).begin, CloseSpan(next).end, CloseSpan(next).cls)
      BY <2>3, <2>13 DEF CloseSpan
    <3>2. ASSUME NEW i \in 1..Len(spans')
          PROVE  Between(bounds, spans'[i].begin, spans'[i].end, spans'[i].cls)
      <4>1. (i \in 1..Len(spans) /\ spans'[i] = spans[i]) \/ spans'[i] = CloseSpan(next)
        BY <1>0, <2>13
      <4> QED
        BY <2>3, <3>1, <4>1
    <3> QED
      BY <2>9, <2>10, <2>13, <3>2
  <2> QED
    BY <1>10, <2>11, <2>12, <2>13 DEF Split
<1>11. CASE SplitEnd
  <2>1. /\ pc = "split" /\ pc' = "span" /\ next >= Len(line)
        /\ UNCHANGED <<line, rest, task, written>>
    BY <1>11 DEF SplitEnd, textVars, outVars
  <2>2. PICK bounds, sofar : LineInv(bounds, sofar)
    BY <2>1 DEF WriteInv
  <2>3. /\ Decodes(line, bounds, sofar)
        /\ next \in bounds /\ written = sofar[0]
        /\ span # NoSpan => Between(bounds, span.begin, next, span.cls)
        /\ \A i \in 1..Len(spans) : Between(bounds, spans[i].begin, spans[i].end, spans[i].cls)
    BY <2>1, <2>2 DEF LineInv, LineIsRead, SplitIsRead
  <2>4. next = Len(line)
    <3>1. next <= Len(line)
      BY <1>0, <2>3 DEF Decodes
    <3> QED
      BY <1>0, <2>1, <3>1
  <2>5. spans' \in Seq(Spans)
    BY SpanStep DEF SpanInv
  <2>6. ASSUME \A i \in 1..Len(spans') :
                 Between(bounds, spans'[i].begin, spans'[i].end, spans'[i].cls),
               SpansLeftFrom' = 0
        PROVE  WriteInv'
    BY <1>2, <2>1, <2>2, <2>3, <2>5, <2>6
  <2>7. CASE span = NoSpan
    <3>1. spans = <<>> /\ next = 0 /\ spans' = spans
      BY <1>11, <2>1, <2>7 DEF SplitEnd, SpanInv
    <3>2. SpansLeftFrom' = 0
      BY <2>1, <2>4, <3>1 DEF SpansLeftFrom
    <3> QED
      BY <2>3, <2>6, <3>1, <3>2
  <2>8. CASE span # NoSpan
    <3>1. span.begin < Len(line) /\ Tile(spans, 0, span.begin)
      BY <2>1, <2>8 DEF SpanInv
    <3>2. spans' = Append(spans, CloseSpan(Len(line)))
      BY <1>11, <2>8, <3>1 DEF SplitEnd
    <3>3. Between(bounds, CloseSpan(Len(line)).begin, CloseSpan(Len(line)).end,
                  CloseSpan(Len(line)).cls)
      BY <2>3, <2>4, <2>8 DEF CloseSpan
    <3>4. ASSUME NEW i \in 1..Len(spans')
          PROVE  Between(bounds, spans'[i].begin, spans'[i].end, spans'[i].cls)
      <4>1. (i \in 1..Len(spans) /\ spans'[i] = spans[i]) \/ spans'[i] = CloseSpan(Len(line))
        BY <1>0, <3>2
      <4> QED
        BY <2>3, <3>3, <4>1
    <3>5. spans' # <<>> /\ spans'[1].begin = 0
      <4>1. CASE spans = <<>>
        BY <3>1, <3>2, <4>1 DEF Tile, CloseSpan
      <4>2. CASE spans # <<>>
        <5>1. spans'[1] = spans[1] /\ spans' # <<>>
          BY <1>0, <3>2, <4>2
        <5> QED
          BY <3>1, <4>2, <5>1 DEF Tile
      <4> QED
        BY <4>1, <4>2
    <3>6. SpansLeftFrom' = 0
      BY <3>5 DEF SpansLeftFrom
    <3> QED
      BY <2>6, <3>4, <3>6
  <2> QED
    BY <2>7, <2>8
<1>12. CASE LineEnd
  <2>1. pc = "span" /\ pc' = "line" /\ spans = <<>> /\ UNCHANGED <<rest, task, written>>
    BY <1>12 DEF LineEnd, outVars
  <2>2. PICK bounds, sofar : LineInv(bounds, sofar)
    BY <2>1 DEF WriteInv
  <2>3. ReadsText(rest, sofar[Len(line)], Wanted(task.text)) /\ written = sofar[Len(line)]
    BY <2>1, <2>2 DEF LineInv, LineIsRead, SpansLeftFrom
  <2> QED
    BY <2>1, <2>3 DEF WriteInv
\* The first of the spans that are left.
<1>13. ASSUME pc \in {"span", "image"}, spans # <<>>, NEW bounds, NEW sofar, LineInv(bounds, sofar)
       PROVE  /\ Decodes(line, bounds, sofar) /\ \A i \in 1..Len(line) : line[i] # 10
              /\ \A k \in bounds : k \in Nat /\ k <= Len(line)
              /\ \A i \in 1..Len(spans) :
                   Between(bounds, spans[i].begin, spans[i].end, spans[i].cls)
              /\ spans[1].begin \in bounds /\ spans[1].end \in bounds
              /\ spans[1].begin < spans[1].end
              /\ \A k \in bounds : spans[1].begin <= k /\ k < spans[1].end =>
                   classify(SymbolAt(line, k)) = spans[1].cls
              /\ Head(spans) = spans[1]
              /\ Tail(spans) \in Seq(Spans)
              /\ (IF Tail(spans) = <<>> THEN Len(line) ELSE Tail(spans)[1].begin) = spans[1].end
              /\ \A i \in 1..Len(Tail(spans)) :
                   Between(bounds, Tail(spans)[i].begin, Tail(spans)[i].end, Tail(spans)[i].cls)
  <2>1. /\ Decodes(line, bounds, sofar) /\ \A i \in 1..Len(line) : line[i] # 10
        /\ \A i \in 1..Len(spans) : Between(bounds, spans[i].begin, spans[i].end, spans[i].cls)
    BY <1>13 DEF LineInv, LineIsRead
  <2>2. \A k \in bounds : k \in Nat /\ k <= Len(line)
    BY <2>1 DEF Decodes
  <2>3. /\ 1 \in 1..Len(spans) /\ Head(spans) = spans[1]
        /\ Tail(spans) \in Seq(Spans) /\ Len(Tail(spans)) = Len(spans) - 1
        /\ \A i \in 1..Len(Tail(spans)) : Tail(spans)[i] = spans[i + 1]
    BY <1>0, <1>13
  <2>4. Between(bounds, spans[1].begin, spans[1].end, spans[1].cls)
    BY <2>1, <2>3
  <2>5. \A i \in 1..Len(Tail(spans)) :
          Between(bounds, Tail(spans)[i].begin, Tail(spans)[i].end, Tail(spans)[i].cls)
    <3>1. \A i \in 1..Len(Tail(spans)) : i + 1 \in 1..Len(spans)
      BY <1>0, <2>3
    <3> QED
      BY <2>1, <2>3, <3>1
  <2>6. /\ spans[1].begin < spans[1].end
        /\ (IF Tail(spans) = <<>> THEN Len(line) ELSE Tail(spans)[1].begin) = spans[1].end
    <3>1. Tile(spans, spans[1].begin, Len(line))
      BY <1>13 DEF SpanInv
    <3> QED
      BY <1>0, <1>13, <3>1, SpanEnds
  <2>7. /\ spans[1].begin \in bounds /\ spans[1].end \in bounds
        /\ \A k \in bounds : spans[1].begin <= k /\ k < spans[1].end =>
             classify(SymbolAt(line, k)) = spans[1].cls
    BY <2>4 DEF Between
  <2> QED
    BY <2>1, <2>2, <2>3, <2>5, <2>6, <2>7
<1>14. CASE TextTag
  <2> DEFINE text == SymbolsOf(SubSeq(line, Head(spans).begin + 1, Head(spans).end))
  <2>1. /\ pc = "span" /\ pc' = "span" /\ spans # <<>> /\ spans' = Tail(spans)
        /\ UNCHANGED <<line, rest, task>> /\ written' = written \o text
    BY <1>14 DEF TextTag
  <2>2. PICK bounds, sofar : LineInv(bounds, sofar)
    BY <2>1 DEF WriteInv
  <2>3. /\ Decodes(line, bounds, sofar) /\ \A i \in 1..Len(line) : line[i] # 10
        /\ spans[1].begin \in bounds /\ spans[1].end \in bounds /\ spans[1].begin < spans[1].end
        /\ Head(spans) = spans[1] /\ Tail(spans) \in Seq(Spans)
        /\ \A k \in bounds : k \in Nat
        /\ (IF Tail(spans) = <<>> THEN Len(line) ELSE Tail(spans)[1].begin) = spans[1].end
        /\ \A i \in 1..Len(Tail(spans)) :
             Between(bounds, Tail(spans)[i].begin, Tail(spans)[i].end, Tail(spans)[i].cls)
    BY <1>13, <2>1, <2>2
  <2>4. spans[1].begin <= spans[1].end
    BY <2>3
  <2>5. sofar[spans[1].end] = sofar[spans[1].begin] \o text
    <3> DEFINE begin == spans[1].begin
               end == spans[1].end
    <3>1. begin \in bounds /\ end \in bounds /\ begin <= end
      BY <2>3, <2>4
    <3>2. text = SymbolsOf(SubSeq(line, begin + 1, end))
      BY <2>3
    <3> HIDE DEF begin, end, text
    <3>3. Decodes(line, bounds, sofar) /\ \A i \in 1..Len(line) : line[i] # 10
      BY <2>3
    <3>4. \E shown : /\ shown = SymbolsOf(SubSeq(line, begin + 1, end))
                    /\ sofar[end] = sofar[begin] \o shown
      BY ONLY <3>1, <3>3, SpanShows
    <3> QED
      BY <3>2, <3>4 DEF begin, end
  <2>6. written = sofar[spans[1].begin]
    BY <2>1, <2>2 DEF LineInv, SpansLeftFrom
  <2>7. SpansLeftFrom' = spans[1].end
    BY <2>1, <2>3 DEF SpansLeftFrom
  <2> HIDE DEF text
  <2> QED
    BY <1>2, <2>1, <2>2, <2>3, <2>5, <2>6, <2>7
<1>15. CASE Custom
  <2>1. /\ pc = "span" /\ pc' = "image" /\ spans # <<>>
        /\ UNCHANGED <<line, rest, task, spans, written>>
        /\ next' = After(line, Head(spans).begin)
        /\ request'.symbol = SymbolAt(line, Head(spans).begin)
    BY <1>15 DEF Custom, Ask, textVars, outVars
  <2>2. PICK bounds, sofar : LineInv(bounds, sofar)
    BY <2>1 DEF WriteInv
  <2>3. /\ spans[1].begin \in bounds /\ spans[1].begin < spans[1].end /\ spans[1].begin \in Nat
        /\ Head(spans) = spans[1]
        /\ \A i \in 1..Len(spans) : Between(bounds, spans[i].begin, spans[i].end, spans[i].cls)
    BY <1>13, <2>1, <2>2
  <2>4. written = sofar[spans[1].begin] /\ spans[1].begin <= spans[1].begin
    BY <2>1, <2>2, <2>3 DEF LineInv, SpansLeftFrom
  <2>5. ImageIsRead(bounds, sofar)'
    BY <2>1, <2>3, <2>4 DEF ImageIsRead
  <2> QED
    BY <1>0, <1>2, <2>1, <2>2, <2>3, <2>5
<1>16. CASE Render
  BY <1>3, <1>16, RequestStays DEF Render, textVars, spanVars, outVars
<1>17. CASE Image
  <2>1. /\ pc = "image" /\ UNCHANGED <<line, rest, task>>
        /\ written' = Append(written, request.symbol)
    BY <1>17 DEF Image
  <2>2. PICK bounds, sofar : LineInv(bounds, sofar)
    BY <2>1 DEF WriteInv
  <2>3. spans # <<>>
    BY <2>1 DEF SpanInv
  <2>4. /\ Decodes(line, bounds, sofar) /\ \A i \in 1..Len(line) : line[i] # 10
        /\ \A j \in bounds : j \in Nat /\ j <= Len(line)
        /\ \A i \in 1..Len(spans) : Between(bounds, spans[i].begin, spans[i].end, spans[i].cls)
        /\ spans[1].begin \in bounds /\ spans[1].end \in bounds /\ spans[1].begin < spans[1].end
        /\ \A j \in bounds : spans[1].begin <= j /\ j < spans[1].end =>
             classify(SymbolAt(line, j)) = spans[1].cls
        /\ Head(spans) = spans[1] /\ Tail(spans) \in Seq(Spans)
        /\ (IF Tail(spans) = <<>> THEN Len(line) ELSE Tail(spans)[1].begin) = spans[1].end
        /\ \A i \in 1..Len(Tail(spans)) :
             Between(bounds, Tail(spans)[i].begin, Tail(spans)[i].end, Tail(spans)[i].cls)
    BY <1>13, <2>1, <2>2, <2>3
  <2>5. PICK k \in bounds :
          /\ spans[1].begin <= k /\ k < spans[1].end
          /\ written = sofar[k] /\ next = After(line, k) /\ request.symbol = SymbolAt(line, k)
    BY <2>1, <2>2 DEF LineInv, ImageIsRead
  <2>6. k < Len(line)
    BY <1>0, <2>4, <2>5
  <2>7. /\ next \in bounds /\ \A j \in bounds : j > k => j >= next
        /\ written' = sofar[next]
    <3>1. Decodes(line, bounds, sofar) /\ \A i \in 1..Len(line) : line[i] # 10
      BY <2>4
    <3>2. /\ After(line, k) \in bounds /\ \A j \in bounds : j > k => j >= After(line, k)
          /\ sofar[After(line, k)] = Append(sofar[k], SymbolAt(line, k))
      BY <2>6, <3>1, SymbolShows
    <3> QED
      BY <2>1, <2>5, <3>2
  <2>8. next > k
    BY <2>4, <2>5, SymbolStep
  <2>9. next <= spans[1].end /\ spans[1].begin <= next
    <3> DEFINE begin == spans[1].begin
               end == spans[1].end
    <3>1. /\ begin \in Nat /\ end \in Nat /\ end \in bounds /\ k \in Nat
          /\ begin <= k /\ k < end
      BY <2>4, <2>5
    <3> HIDE DEF begin, end
    <3>2. next <= end /\ begin <= next
      BY <1>0, <2>7, <2>8, <3>1
    <3> QED
      BY <3>2 DEF begin, end
  <2>10. CASE MoreInSpan
    <3>1. /\ UNCHANGED spans /\ pc' = "image" /\ next' = After(line, next)
          /\ request'.symbol = SymbolAt(line, next)
      BY <1>17, <2>1, <2>10 DEF Image, Ask
    <3>2. next < spans[1].end
      <4> SUFFICES ASSUME next = spans[1].end PROVE FALSE
        BY <1>0, <2>4, <2>9
      <4>1. Tile(spans, spans[1].begin, Len(line))
        BY <2>1, <2>3 DEF SpanInv
      <4>2. next < Len(line) /\ classify(SymbolAt(line, next)) = spans[1].cls
        BY <2>4, <2>10 DEF MoreInSpan
      <4>3. /\ 2 \in 1..Len(spans) /\ spans[2].begin = next
            /\ spans[2].begin < spans[2].end /\ spans[2].cls # spans[1].cls
        BY <1>0, <2>3, <4>1, <4>2, SpanEnds
      <4>4. Between(bounds, spans[2].begin, spans[2].end, spans[2].cls)
        BY <2>4, <4>3
      <4>5. next <= next
        BY <1>0
      <4>6. classify(SymbolAt(line, next)) = spans[2].cls
        BY <2>7, <4>3, <4>4, <4>5 DEF Between
      <4> QED
        BY <4>2, <4>3, <4>6
    <3>3. ImageIsRead(bounds, sofar)'
      BY <2>1, <2>7, <2>9, <3>1, <3>2 DEF ImageIsRead
    <3> QED
      BY <1>0, <1>2, <2>1, <2>2, <2>4, <3>1, <3>3
  <2>11. CASE ~MoreInSpan
    <3>1. spans' = Tail(spans) /\ pc' = "span"
      BY <1>17, <2>11 DEF Image
    <3>2. next = spans[1].end
      <4> SUFFICES ASSUME next < spans[1].end PROVE FALSE
        BY <1>0, <2>4, <2>9
      <4>1. next < Len(line)
        BY <1>0, <2>4
      <4>2. classify(SymbolAt(line, next)) = spans[1].cls
        BY <2>4, <2>7, <2>9
      <4> QED
        BY <2>4, <2>11, <4>1, <4>2 DEF MoreInSpan
    <3>3. SpansLeftFrom' = spans[1].end
      BY <2>1, <2>4, <3>1 DEF SpansLeftFrom
    <3> QED
      BY <1>2, <2>1, <2>2, <2>4, <2>7, <3>1, <3>2, <3>3
  <2> QED
    BY <2>10, <2>11
<1>18. CASE Environment
  BY <1>3, <1>18, RequestStays DEF Environment, textVars, spanVars, outVars
<1>19. CASE UNCHANGED vars
  BY <1>3, <1>19 DEF vars, textVars, spanVars, outVars, glyphVars
<1> QED
  BY <1>5, <1>6, <1>7, <1>8, <1>9, <1>10, <1>11, <1>12, <1>14, <1>15, <1>16, <1>17, <1>18, <1>19
  DEF Next, Build

\* Every text, whatever its symbols, is shown symbol by symbol through the bytes
\* it is turned into, the lines they are cut into, the spans of a line and the
\* iterators over each of them: nothing is lost, doubled or moved.
THEOREM SymbolsAreWrittenOnce == Spec => []EverySymbolOnce
<1> DEFINE Inv == BaseInv /\ SpanInv /\ WriteInv
<1>1. Init => Inv
  BY BaseInit, SpanInit, WriteInit
<1>2. Inv /\ [Next]_vars => Inv'
  BY BaseStep, SpanStep, WriteStep
<1>3. Inv => EverySymbolOnce
  <2> SUFFICES ASSUME WriteInv, pc = "line", rest = <<>> PROVE written = Wanted(task.text)
    BY DEF EverySymbolOnce, Wanted
  <2>1. ReadsText(<<>>, written, Wanted(task.text))
    BY DEF WriteInv
  <2>2. PICK bounds, sofar :
          sofar[0] = written /\ sofar[Len(<<>>)] = Wanted(task.text)
    BY <2>1 DEF ReadsText
  <2> QED
    BY <2>2
<1> QED
  BY <1>1, <1>2, <1>3, PTL DEF Spec

-----------------------------------------------------------------------------
(* Widths of texts.                                                        *)

\* The width of a text that a font measures is a number.
LEMMA WidthType ==
    ASSUME NEW font, NEW size, NEW T, NEW text \in Seq(T),
           \A k \in 1..Len(text) : Advance(font, text[k], SizeOn(font, size)) \in Int
    PROVE  WidthIn(font, text, size) \in Int
<1> DEFINE n == Len(text)
           Adv(k) == Advance(font, text[k], SizeOn(font, size))
           R == Int
           step == [k \in 1..n |-> [x \in R |-> x + Adv(k)]]
           Eq(pen) == pen = [k \in 0..n |-> IF k = 0 THEN 0 ELSE pen[k - 1] + Adv(k)]
           pen == CHOOSE pen : Eq(pen)
<1>1. n \in Nat /\ \A k \in 1..n : Adv(k) \in Int
  OBVIOUS
<1>8. WidthIn(font, text, size) = pen[n]
  BY DEF WidthIn
<1> HIDE DEF Adv
<1>2. \A x, y \in Int : x + y \in Int
  OBVIOUS
<1>3. step \in [1..n -> [R -> R]] /\ 0 \in R
  BY <1>1, <1>2
<1>4. PICK f \in [0..n -> R] : f[0] = 0 /\ \A k \in 1..n : f[k] = step[k][f[k - 1]]
  <2> DEFINE base == 0
  <2>1. n \in Nat /\ base \in R /\ step \in StepsOf(n, R)
    BY <1>1, <1>3 DEF StepsOf
  <2> HIDE DEF n, R, step, base
  <2>2. CanRun(R, n, base, step)
    BY <2>1, RunExists
  <2> QED
    BY <2>2 DEF CanRun, base
<1>5. \A k \in 0..n : f[k] = IF k = 0 THEN 0 ELSE f[k - 1] + Adv(k)
  <2> SUFFICES ASSUME NEW k \in 1..n PROVE f[k] = f[k - 1] + Adv(k)
    BY <1>4
  <2>1. f[k - 1] \in Int
    OBVIOUS
  <2>2. step[k][f[k - 1]] = f[k - 1] + Adv(k)
    BY <2>1
  <2> QED
    BY <1>4, <2>2
<1>6. Eq(f)
  <2> DEFINE g == [k \in 0..n |-> IF k = 0 THEN 0 ELSE f[k - 1] + Adv(k)]
  <2>1. \A k \in 0..n : f[k] = g[k]
    BY <1>5
  <2>2. f = [k \in 0..n |-> f[k]] /\ g = [k \in 0..n |-> g[k]]
    OBVIOUS
  <2>3. f = g
    <3> HIDE DEF g
    <3> QED
      BY <2>1, <2>2
  <2> QED
    BY <2>3
<1>7. Eq(pen)
  <2> HIDE DEF Eq
  <2> QED
    BY <1>6
<1> HIDE DEF pen
<1> DEFINE S == {m \in 0..n : pen[m] \in Int}
<1>9. 0 \in S
  BY <1>1, <1>7
<1>10. ASSUME NEW m \in 0..(n - 1), m \in S PROVE m + 1 \in S
  <2>1. m + 1 \in 0..n /\ m + 1 # 0 /\ (m + 1) - 1 = m /\ m + 1 \in 1..n
    BY <1>1
  <2>2. pen[m + 1] = pen[m] + Adv(m + 1)
    BY <1>7, <2>1
  <2> QED
    BY <1>1, <1>2, <1>10, <2>1, <2>2
<1>11. n \in S
  <2> HIDE DEF S, n
  <2> QED
    BY <1>1, <1>9, <1>10, UpTo
<1> QED
  BY <1>8, <1>11

\* Text is made of symbols of the basic plane.
LEMMA MeasuredAreSmall ==
    ASSUME NEW symbol \in Nat, ~needsCustomRender(classify(symbol))
    PROVE  symbol \in BasicPlane
<1>1. LastOfPlane \in Nat /\ symbol <= LastOfPlane
  BY SMT DEF needsCustomRender, classify, LastOfPlane
<1> QED
  BY <1>1, SMT DEF BasicPlane

-----------------------------------------------------------------------------
(* Types of the renderer's state.                                          *)

\* The nearest strike is one of the strikes.
LEMMA BestMatchIsStrike ==
    ASSUME NEW font \in ColorFonts, Strikes[font] # <<>>, NEW size \in Nat
    PROVE  BestMatch(font, size) \in {Strikes[font][i] : i \in 1..Len(Strikes[font])}
<1> DEFINE s == Strikes[font]
           d(i) == Distance(size, s[i])
           Best(i) == /\ \A j \in 1..Len(s) : d(i) <= d(j)
                      /\ \A j \in 1..(i - 1) : d(j) # d(i)
<1>1. s \in Seq(Nat) /\ Len(s) \in Nat \ {0}
  BY GlyphsAssumption, EmptySeq
<1>2. \A i \in 1..Len(s) : d(i) \in Nat
  BY <1>1 DEF Distance
<1>a. BestMatch(font, size) = s[CHOOSE i \in 1..Len(s) : Best(i)]
  BY DEF BestMatch
<1> HIDE DEF d, s
<1>3. PICK n \in {d(i) : i \in 1..Len(s)} : \A m \in {d(i) : i \in 1..Len(s)} : n <= m
  <2>1. {d(i) : i \in 1..Len(s)} \subseteq Nat
    BY <1>2
  <2>2. {d(i) : i \in 1..Len(s)} # {}
    <3>1. 1 \in 1..Len(s)
      BY <1>1
    <3> QED
      BY <3>1
  <2> QED
    BY <2>1, <2>2, LeastOfSet
<1>4. PICK i \in {i \in 1..Len(s) : d(i) = n} : \A j \in {j \in 1..Len(s) : d(j) = n} : i <= j
  <2>1. {i \in 1..Len(s) : d(i) = n} \subseteq Nat /\ {i \in 1..Len(s) : d(i) = n} # {}
    BY <1>3
  <2> QED
    BY <2>1, LeastOfSet
<1>5. i \in 1..Len(s) /\ Best(i)
  <2>1. \A j \in 1..(i - 1) : j \in 1..Len(s) /\ ~(i <= j)
    BY <1>1, <1>4
  <2> QED
    BY <1>3, <1>4, <2>1
<1> HIDE DEF Best
<1>6. (CHOOSE j \in 1..Len(s) : Best(j)) \in 1..Len(s)
  BY <1>5
<1> QED
  BY <1>6, <1>a DEF s

\* A face has a size that is asked for, or a height of a strike.
LEMMA SizeOnType ==
    ASSUME NEW font, NEW size \in Sizes, ~(font \in ColorFonts /\ Strikes[font] = <<>>)
    PROVE  SizeOn(font, size) \in Heights
<1>1. CASE font \in ColorFonts
  <2>1. size \in Nat
    BY GlyphsAssumption
  <2>2. SizeOn(font, size) \in {Strikes[font][i] : i \in 1..Len(Strikes[font])}
    BY <1>1, <2>1, BestMatchIsStrike DEF SizeOn
  <2> QED
    BY <1>1, <2>2 DEF Heights
<1>2. CASE font \notin ColorFonts
  BY <1>2 DEF SizeOn, Heights
<1> QED
  BY <1>1, <1>2

\* What is in the cache, or on its way there, is a request for an emoji of the
\* items, drawn at a size its face has.
GlyphsTypeInv ==
    /\ GlyphsTypeOK
    /\ phase \in {"lookup", "fonts", "answered"} => request \in Request
    /\ \A r \in DOMAIN emojies :
         isValid(emojies[r]) => SizeOn(emojies[r].font, r.size) \in Heights

TypedStep ==
    \/ renderToPng \/ InstallFont \/ Return
    \/ \E symbol \in Symbols, size \in Sizes : Ask(symbol, size)
    \/ \E size \in Sizes : \E text : Measure(text, size)
    \/ UNCHANGED glyphVars

\* The empty entry has the type of the others.
LEMMA EmptyPngType == EmptyPng \in Png
BY DEF EmptyPng, Png

\* The fonts of both lists are fonts.
LEMMA ListedFonts ==
    /\ \A i \in 1..Len(EmojiFonts) : EmojiFonts[i] \in Fonts
    /\ \A i \in 1..Len(TextFonts) : TextFonts[i] \in Fonts
BY DEF Fonts, FontsOf

\* A face that is sized keeps the faces typed.
LEMMA SizedType ==
    ASSUME GlyphsTypeOK, NEW font \in Fonts, NEW size \in Sizes
    PROVE  /\ DOMAIN Sized(font, size) \subseteq Fonts
           /\ \A f \in DOMAIN Sized(font, size) : Sized(font, size)[f] \in Heights
<1>1. CASE Unusable(font)
  BY <1>1 DEF Sized, GlyphsTypeOK
<1>2. CASE ~Unusable(font)
  <2>1. SizeOn(font, size) \in Heights
    BY <1>2, SizeOnType DEF Unusable
  <2>2. Sized(font, size) = [f \in DOMAIN faces \cup {font} |->
                               IF f = font THEN SizeOn(font, size) ELSE faces[f]]
    BY <1>2 DEF Sized, Set
  <2> QED
    BY <2>1, <2>2 DEF GlyphsTypeOK
<1> QED
  BY <1>1, <1>2

\* While fonts are tried there is one to try.
LEMMA FontTried ==
    ASSUME GlyphsTypeOK, Trying
    PROVE  Font \in Fonts /\ Font \in FontsOf(EmojiFonts) /\ try + 1 \in 1..(Len(EmojiFonts) + 1)
<1>1. Len(EmojiFonts) \in Nat
  BY GlyphsAssumption
<1>2. try \in 1..Len(EmojiFonts)
  BY <1>1 DEF GlyphsTypeOK, Trying
<1> QED
  BY <1>1, <1>2, ListedFonts DEF Font, FontsOf

\* Nothing is loaded, cached or asked for initially.
LEMMA GlyphsTypeInit == Init => GlyphsTypeInv
<1> SUFFICES ASSUME GlyphsInit PROVE GlyphsTypeInv
  BY DEF Init
<1>1. Len(EmojiFonts) \in Nat
  BY GlyphsAssumption
<1>2. DOMAIN EmptyMap = {}
  BY DEF EmptyMap
<1>3. 1 \in 1..(Len(EmojiFonts) + 1)
  BY <1>1
<1> QED
  BY <1>2, <1>3, EmptyPngType DEF GlyphsInit, GlyphsTypeInv, GlyphsTypeOK

\* A bitmap is drawn by a font of the list, at a size of its face.
LEMMA GlyphType ==
    ASSUME GlyphsTypeInv, Trying, ~Unusable(Font), Glyph # NoBitmap
    PROVE  /\ request \in Request /\ SizeOn(Font, request.size) \in Heights
           /\ Glyph = Raster(Font, request.symbol, SizeOn(Font, request.size))
           /\ Glyph \in Bitmap
<1>1. request \in Request /\ request.symbol \in Symbols /\ request.size \in Sizes
  BY DEF GlyphsTypeInv, Trying, Request
<1>2. Font \in Fonts
  BY FontTried DEF GlyphsTypeInv
<1>3. SizeOn(Font, request.size) \in Heights
  BY <1>1, SizeOnType DEF Unusable
<1>4. Glyph = Raster(Font, request.symbol, SizeOn(Font, request.size))
  BY SizedFace DEF Glyph
<1> QED
  BY <1>1, <1>2, <1>3, <1>4, RasterAssumption

\* A remainder is below its divisor.
LEMMA ModuloType == ASSUME NEW n \in Int, NEW m \in Nat \ {0} PROVE n % m \in 0..(m - 1)
OBVIOUS

\* A scaled bitmap has a size.
LEMMA ScaledType ==
    ASSUME NEW bitmap \in Bitmap, NEW size \in Nat
    PROVE  Scaled(bitmap, size) \in [width : Nat, height : Nat]
<1> DEFINE height == size % UCharValues
<1>1. UCharValues \in Nat \ {0} /\ bitmap.w \in Nat /\ bitmap.h \in Nat \ {0}
  BY GlyphsAssumption DEF Bitmap
<1>2. height \in Nat
  BY <1>1, ModuloType
<1> HIDE DEF height
<1>3. \A n \in Nat, m \in Nat \ {0} : n \div m \in Nat
  OBVIOUS
<1>4. bitmap.w * height \in Nat
  BY <1>1, <1>2
<1>5. (bitmap.w * height) \div bitmap.h \in Nat
  BY <1>1, <1>3, <1>4
<1> QED
  BY <1>2, <1>5 DEF Scaled, height

\* Every function of the renderer keeps it.
LEMMA GlyphsTypeStep == GlyphsTypeInv /\ TypedStep => GlyphsTypeInv'
<1> SUFFICES ASSUME GlyphsTypeInv, TypedStep PROVE GlyphsTypeInv'
  OBVIOUS
<1> USE EmptyIsInvalid, EmptyPngType DEF GlyphsTypeInv, GlyphsTypeOK
<1>0. Len(EmojiFonts) \in Nat /\ 1 \in 1..(Len(EmojiFonts) + 1)
  BY GlyphsAssumption
<1>1. CASE UNCHANGED glyphVars
  BY <1>1 DEF glyphVars
<1>2. CASE InstallFont
  BY <1>2 DEF InstallFont
<1>3. CASE Return
  BY <1>0, <1>3 DEF Return
<1>4. CASE \E symbol \in Symbols, size \in Sizes : Ask(symbol, size)
  BY <1>0, <1>4 DEF Ask, Request
<1>5. CASE \E size \in Sizes : \E text : Measure(text, size)
  <2>0. PICK size \in Sizes : \E text : Measure(text, size)
    BY <1>5
  <2>1. PICK text : Measure(text, size)
    BY <2>0
  <2> DEFINE used == {font \in {TextFonts[i] : i \in FontsTried(text, size)} : ~Unusable(font)}
  <2>2. /\ faces' = [font \in DOMAIN faces \cup used |->
                       IF font \in used THEN SizeOn(font, size) ELSE faces[font]]
        /\ UNCHANGED <<installed, emojies, request, phase, try, answer>>
    BY <2>1 DEF Measure
  <2>3. \A font \in used : font \in Fonts /\ SizeOn(font, size) \in Heights
    <3> SUFFICES ASSUME NEW font \in used
                 PROVE  font \in Fonts /\ SizeOn(font, size) \in Heights
      OBVIOUS
    <3>1. font \in Fonts
      BY ListedFonts DEF FontsTried
    <3>2. ~(font \in ColorFonts /\ Strikes[font] = <<>>)
      BY DEF Unusable
    <3> QED
      BY <3>1, <3>2, SizeOnType
  <2> HIDE DEF used
  <2>4. DOMAIN faces' \subseteq Fonts /\ \A font \in DOMAIN faces' : faces'[font] \in Heights
    BY <2>2, <2>3
  <2> QED
    BY <2>2, <2>4
<1>6. CASE Hit
  BY <1>6 DEF Hit, CachedFor
<1>7. CASE Miss
  BY <1>7 DEF Miss
<1>8. ASSUME Trying, faces' = Sized(Font, request.size)
      PROVE  DOMAIN faces' \subseteq Fonts /\ \A font \in DOMAIN faces' : faces'[font] \in Heights
  <2>1. Font \in Fonts /\ request.size \in Sizes
    BY <1>8, FontTried DEF Trying, Request
  <2> QED
    BY <1>8, <2>1, SizedType
<1>9. CASE NextFont
  <2>1. try' \in 1..(Len(EmojiFonts) + 1)
    BY <1>9, FontTried DEF NextFont
  <2>2. DOMAIN faces' \subseteq Fonts /\ \A font \in DOMAIN faces' : faces'[font] \in Heights
    BY <1>8, <1>9 DEF NextFont
  <2> QED
    BY <1>9, <2>1, <2>2 DEF NextFont
<1>10. CASE OtherMode
  <2>1. try' \in 1..(Len(EmojiFonts) + 1)
    BY <1>10, FontTried DEF OtherMode
  <2>2. DOMAIN faces' \subseteq Fonts /\ \A font \in DOMAIN faces' : faces'[font] \in Heights
    BY <1>8, <1>10 DEF OtherMode
  <2>3. /\ DOMAIN emojies' = DOMAIN emojies \cup {request}
        /\ \A r \in DOMAIN emojies' : emojies'[r] = IF r = request THEN EmptyPng ELSE emojies[r]
    BY <1>10 DEF OtherMode, Set
  <2>4. request \in Request
    BY <1>10 DEF OtherMode, Trying
  <2>5. /\ DOMAIN emojies' \subseteq Request
        /\ \A r \in DOMAIN emojies' :
             /\ emojies'[r] \in Png
             /\ isValid(emojies'[r]) => SizeOn(emojies'[r].font, r.size) \in Heights
    BY <2>3, <2>4
  <2> QED
    BY <1>10, <2>1, <2>2, <2>5 DEF OtherMode
<1>11. CASE Draw
  <2>0. Trying /\ ~Unusable(Font) /\ Glyph # NoBitmap
    BY <1>11 DEF Draw, Drawable
  <2>1. PICK png : /\ png = [font |-> Font, width |-> Scaled(Glyph, request.size).width,
                             height |-> Scaled(Glyph, request.size).height]
                   /\ emojies' = Set(emojies, request, png)
                   /\ answer' = png
    BY <1>11 DEF Draw
  <2>2. DOMAIN faces' \subseteq Fonts /\ \A font \in DOMAIN faces' : faces'[font] \in Heights
    BY <1>8, <1>11, <2>0 DEF Draw
  <2>3. /\ DOMAIN emojies' = DOMAIN emojies \cup {request}
        /\ \A r \in DOMAIN emojies' : emojies'[r] = IF r = request THEN png ELSE emojies[r]
    BY <2>1 DEF Set
  <2>4. request \in Request /\ SizeOn(Font, request.size) \in Heights /\ Glyph \in Bitmap
    BY <2>0, GlyphType
  <2>5. request.size \in Nat
    BY <2>4, GlyphsAssumption DEF Request
  <2>6. Font \in Fonts
    BY <2>0, FontTried
  <2>7. png \in Png /\ png.font = Font
    BY <2>1, <2>4, <2>5, <2>6, ScaledType DEF Png
  <2>8. /\ DOMAIN emojies' \subseteq Request
        /\ \A r \in DOMAIN emojies' :
             /\ emojies'[r] \in Png
             /\ isValid(emojies'[r]) => SizeOn(emojies'[r].font, r.size) \in Heights
    BY <2>3, <2>4, <2>7
  <2> QED
    BY <1>11, <2>1, <2>2, <2>4, <2>7, <2>8 DEF Draw
<1>12. CASE Abort
  BY <1>12 DEF Abort
<1>13. CASE NoResult
  BY <1>13 DEF NoResult
<1> QED
  BY <1>1, <1>2, <1>3, <1>4, <1>5, <1>6, <1>7, <1>9, <1>10, <1>11, <1>12, <1>13
  DEF TypedStep, renderToPng

-----------------------------------------------------------------------------
(* Scaling.                                                                *)

\* A quotient is below a bound that the dividend keeps to.
LEMMA QuotientBelow ==
    ASSUME NEW a \in Nat, NEW b \in Nat \ {0}, NEW c \in Nat, a < c * b
    PROVE  a \div b \in Nat /\ a \div b < c
OBVIOUS

\* A quotient, multiplied again, is no more than the number was.
LEMMA QuotientTimes ==
    ASSUME NEW a \in Nat, NEW b \in Nat \ {0}
    PROVE  a \div b \in Nat /\ (a \div b) * b <= a
OBVIOUS

\* Multiplication keeps the order.
LEMMA TimesGrows ==
    ASSUME NEW a \in Nat, NEW b \in Nat, NEW c \in Nat \ {0}, a < b
    PROVE  a * c < b * c /\ a * c \in Nat
OBVIOUS

\* Rows and columns of the scaled bitmap are read from rows and columns it has.
LEMMA ReadInside ==
    ASSUME NEW i \in Nat, NEW bitmap \in Bitmap, NEW scaled, scaled.height \in Nat \ {0},
           NEW size \in Nat \ {0}, i * bitmap.h < size * scaled.height
    PROVE  ReadFor(i, bitmap, scaled, size - 1) \subseteq 0..(size - 1)
<1> DEFINE nearest == (i * bitmap.h) \div scaled.height
<1>1. i * bitmap.h \in Nat
  BY DEF Bitmap
<1>2. nearest \in Nat /\ nearest < size
  BY <1>1, QuotientBelow
<1> HIDE DEF nearest
<1>3. Neighbour(nearest, size - 1) \in 0..(size - 1)
  BY <1>2 DEF Neighbour
<1>4. ReadFor(i, bitmap, scaled, size - 1) = {nearest, Neighbour(nearest, size - 1)}
  BY DEF ReadFor, nearest
<1> QED
  BY <1>2, <1>3, <1>4

\* A picture in the cache was scaled from inside of its bitmap.
LEMMA PictureReadsInside ==
    ASSUME GlyphsTypeInv, CacheIsRight, NEW r \in DOMAIN emojies, isValid(emojies[r])
    PROVE  LET png == emojies[r]
               bitmap == Raster(png.font, r.symbol, SizeOn(png.font, r.size))
           IN /\ \A row \in 0..(png.height - 1) :
                   ReadFor(row, bitmap, png, bitmap.h - 1) \subseteq 0..(bitmap.h - 1)
              /\ \A column \in 0..(png.width - 1) :
                   ReadFor(column, bitmap, png, bitmap.w - 1) \subseteq 0..(bitmap.w - 1)
<1> DEFINE png == emojies[r]
           bitmap == Raster(png.font, r.symbol, SizeOn(png.font, r.size))
<1>1. /\ r \in Request /\ r.symbol \in Symbols
      /\ png \in Png /\ SizeOn(png.font, r.size) \in Heights
  BY DEF GlyphsTypeInv, GlyphsTypeOK, Request
<1>2. DrawnFor(png, r)
  BY DEF CacheIsRight
<1>3. bitmap \in Bitmap
  <2>1. png.font \in Fonts /\ bitmap # NoBitmap
    BY <1>2 DEF DrawnFor, Fonts
  <2> QED
    BY <1>1, <2>1, RasterAssumption
<1>4. /\ bitmap.w \in Nat \ {0} /\ bitmap.h \in Nat \ {0}
      /\ png.width \in Nat \ {0} /\ png.height \in Nat \ {0}
  BY <1>1, <1>3 DEF Bitmap, Png, isValid
<1>5. png.width = (bitmap.w * png.height) \div bitmap.h
  BY <1>2 DEF DrawnFor, PngOf, Scaled
<1> HIDE DEF png, bitmap
<1>6. ASSUME NEW row \in 0..(png.height - 1)
      PROVE  ReadFor(row, bitmap, png, bitmap.h - 1) \subseteq 0..(bitmap.h - 1)
  <2>1. row \in Nat /\ row < png.height
    BY <1>4
  <2>2. row * bitmap.h < png.height * bitmap.h
    BY <1>4, <2>1, TimesGrows
  <2>3. png.height * bitmap.h = bitmap.h * png.height
    BY <1>4
  <2>4. row * bitmap.h < bitmap.h * png.height
    BY <2>2, <2>3
  <2> QED
    BY <1>3, <1>4, <2>1, <2>4, ReadInside
<1>7. ASSUME NEW column \in 0..(png.width - 1)
      PROVE  ReadFor(column, bitmap, png, bitmap.w - 1) \subseteq 0..(bitmap.w - 1)
  <2>1. column \in Nat /\ column < png.width
    BY <1>4
  <2>2. column * bitmap.h < png.width * bitmap.h
    BY <1>4, <2>1, TimesGrows
  <2>3. bitmap.w * png.height \in Nat
    BY <1>4
  <2>4. png.width * bitmap.h <= bitmap.w * png.height
    BY <1>4, <1>5, <2>3, QuotientTimes
  <2>5. column * bitmap.h < bitmap.w * png.height
    <3>1. column * bitmap.h \in Nat /\ png.width * bitmap.h \in Nat
      BY <1>4, <2>1
    <3> QED
      BY <2>2, <2>3, <2>4, <3>1
  <2> QED
    BY <1>3, <1>4, <2>1, <2>5, ReadInside
<1> QED
  BY <1>6, <1>7 DEF png, bitmap

-----------------------------------------------------------------------------
(* What renderToPng is asked for.                                          *)

Piece(seq) ==
    \E text \in TextsOf(item), from \in Nat \ {0} :
      \E to \in 0..Len(TextToDraw(text)) : seq = SubSeq(TextToDraw(text), from, to)

\* A piece of a piece of a text is a piece of it.
LEMMA PieceOfPiece ==
    ASSUME item \in Items, NEW seq, Piece(seq), NEW m \in Nat \ {0}, NEW n \in 0..Len(seq)
    PROVE  Piece(SubSeq(seq, m, n))
<1>1. PICK text \in TextsOf(item), from \in Nat \ {0} :
        \E to \in 0..Len(TextToDraw(text)) : seq = SubSeq(TextToDraw(text), from, to)
  BY DEF Piece
<1> DEFINE bytes == TextToDraw(text)
<1>2. PICK to \in 0..Len(bytes) : seq = SubSeq(bytes, from, to)
  BY <1>1
<1>3. bytes \in Seq(Nat)
  BY <1>1, TextType
<1> HIDE DEF bytes
<1>4. /\ seq \in Seq(Nat) /\ Len(seq) = IF from <= to THEN (to - from) + 1 ELSE 0
      /\ \A i \in 1..Len(seq) : seq[i] = bytes[from + i - 1]
  <2>1. \A i \in from..to : bytes[i] \in Nat
    BY <1>2, <1>3, ElementOfSeq
  <2>2. from \in Int /\ to \in Int
    BY <1>2, <1>3
  <2>3. /\ seq \in Seq(Nat) /\ Len(seq) = IF from <= to THEN (to - from) + 1 ELSE 0
        /\ \A i \in 1..((to - from) + 1) : seq[i] = bytes[from + i - 1]
    BY <1>2, <2>1, <2>2, SubSeqProperties
  <2>4. \A i \in 1..Len(seq) : i \in 1..((to - from) + 1)
    BY <2>2, <2>3
  <2> QED
    BY <2>3, <2>4
<1>5. from \in Nat \ {0} /\ to \in Nat /\ Len(bytes) \in Nat /\ to <= Len(bytes) /\ n \in Nat
  BY <1>2, <1>3, <1>4
<1>6. CASE n < m
  <2>1. SubSeq(seq, m, n) = <<>>
    BY <1>5, <1>6, SubSeqEmpty
  <2>2. SubSeq(bytes, 1, 0) = <<>>
    BY SubSeqEmpty
  <2>3. 0 \in 0..Len(bytes) /\ 1 \in Nat \ {0}
    BY <1>5
  <2>4. SubSeq(seq, m, n) = SubSeq(bytes, 1, 0)
    BY <2>1, <2>2
  <2> QED
    BY <2>3, <2>4 DEF Piece, bytes
<1>7. CASE m <= n
  <2>1. /\ from <= to /\ n <= (to - from) + 1
        /\ from \in 1..Len(bytes) /\ to \in 1..Len(bytes)
        /\ m \in 1..((to - from) + 1) /\ n \in 1..((to - from) + 1)
    BY <1>4, <1>5, <1>7
  <2>2. SubSeq(SubSeq(bytes, from, to), m, n) = SubSeq(bytes, from + m - 1, from + n - 1)
    BY <1>3, <1>4, <2>1, SubSeqOfSubSeq
  <2>3. from + m - 1 \in Nat \ {0} /\ from + n - 1 \in 0..Len(bytes)
    BY <1>5, <2>1
  <2> QED
    BY <1>2, <2>2, <2>3 DEF Piece, bytes
<1> QED
  BY <1>5, <1>6, <1>7

\* An emoji read in a piece is one of the items.
LEMMA EmojiOfPiece ==
    ASSUME item \in Items, NEW seq, Piece(seq), NEW k \in 0..(Len(seq) - 1),
           needsCustomRender(classify(SymbolAt(seq, k)))
    PROVE  SymbolAt(seq, k) \in Symbols
<1>1. PICK text \in TextsOf(item), from \in Nat \ {0} :
        \E to \in 0..Len(TextToDraw(text)) : seq = SubSeq(TextToDraw(text), from, to)
  BY DEF Piece
<1> DEFINE bytes == TextToDraw(text)
<1>2. PICK to \in 0..Len(bytes) : seq = SubSeq(bytes, from, to)
  BY <1>1
<1>3. bytes \in Seq(Nat)
  BY <1>1, TextType
<1>4. \A low, high \in 1..Len(bytes) : EmojiIn(SubSeq(bytes, low, high)) \subseteq Symbols
  BY RequestAssumption
<1> HIDE DEF bytes
<1>5. Len(bytes) \in Nat /\ to \in Nat /\ to <= Len(bytes)
  BY <1>2, <1>3
<1>6. from \in 1..Len(bytes) /\ to \in 1..Len(bytes)
  <2>1. from <= to
    <3> SUFFICES ASSUME to < from PROVE FALSE
      BY <1>5
    <3>1. seq = <<>>
      BY <1>2, <1>5, SubSeqEmpty
    <3> QED
      BY <3>1
  <2> QED
    BY <1>5, <2>1
<1>7. SymbolAt(seq, k) \in EmojiIn(seq)
  BY DEF EmojiIn
<1> QED
  BY <1>2, <1>4, <1>6, <1>7

\* The text in work is one of the item, in a size of the items.
TextInv ==
    /\ pc \in {"line", "split", "span", "image"} =>
         task.size \in Sizes /\ Piece(rest) /\ Piece(line)
    /\ pc = "image" => needsCustomRender(Head(spans).cls)

\* The whole text, and nothing, are pieces of it.
LEMMA TextIsPiece ==
    ASSUME item \in Items, NEW text \in TextsOf(item)
    PROVE  Piece(TextToDraw(text)) /\ Piece(<<>>)
<1> DEFINE bytes == TextToDraw(text)
<1>1. bytes \in Seq(Nat)
  BY TextType
<1> HIDE DEF bytes
<1>2. SubSeq(bytes, 1, Len(bytes)) = bytes /\ SubSeq(bytes, 1, 0) = <<>>
  BY <1>1, SubSeqFull, SubSeqEmpty
<1>3. 1 \in Nat \ {0} /\ Len(bytes) \in 0..Len(bytes) /\ 0 \in 0..Len(bytes)
  BY <1>1
<1> QED
  BY <1>2, <1>3 DEF Piece, bytes

\* There is no text initially.
LEMMA TextInit == Init => TextInv
BY DEF Init, TextInv

\* Lines are cut off the text, and spans off the line.
LEMMA TextStep == BaseInv /\ SpanInv /\ TextInv /\ [Next]_vars => TextInv'
<1> SUFFICES ASSUME BaseInv, SpanInv, TextInv, [Next]_vars PROVE TextInv'
  OBVIOUS
<1>1. ASSUME pc' \notin {"line", "split", "span", "image"} PROVE TextInv'
  BY <1>1 DEF TextInv
<1>2. CASE Start \/ AsIs \/ BadPoint \/ Box \/ Rect \/ Close
  BY <1>1, <1>2 DEF Start, AsIs, BadPoint, Box, Rect, Close
<1>3. CASE LastPoint \/ FirstPoint \/ LineTo \/ LastLine
  BY <1>1, <1>3 DEF LastPoint, FirstPoint, LineTo, LastLine
<1>4. CASE TextItem
  <2>1. /\ item \in Items /\ UNCHANGED item /\ pc' = "line"
        /\ task'.size = TextSize(item) /\ rest' = TextToDraw(item.text) /\ line' = <<>>
    BY <1>4 DEF TextItem, BeginText, NewTask, BaseInv
  <2>2. item.text \in TextsOf(item)
    BY DEF TextsOf
  <2>3. TextSize(item) \in Sizes
    BY <2>1, RequestAssumption
  <2>4. Piece(rest') /\ Piece(line')
    BY <2>1, <2>2, TextIsPiece
  <2>5. Piece(rest)' /\ Piece(line)'
    BY <2>1, <2>4 DEF Piece
  <2> QED
    BY <2>1, <2>3, <2>5 DEF TextInv
<1>5. CASE Marker
  <2>0. /\ item \in Items /\ UNCHANGED item /\ at \in Nat \ {0} /\ at <= Len(Points)
    BY <1>5 DEF Marker, BaseInv
  <2>1. CASE Points[at].color /\ Points[at].text # <<>>
    <3>1. /\ pc' = "line" /\ task'.size = VectorSize(item)
          /\ rest' = TextToDraw(Points[at].text) /\ line' = <<>>
      BY <1>5, <2>1 DEF Marker, BeginText, NewTask
    <3>2. Points[at].text \in TextsOf(item)
      <4>1. item.points \in Seq(Point)
        BY <2>0, SvgBuilderAssumption DEF Item
      <4>2. at \in 1..Len(item.points)
        BY <2>0, <4>1 DEF Points
      <4> QED
        BY <4>2 DEF TextsOf, Points
    <3>3. VectorSize(item) \in Sizes
      BY <2>0, RequestAssumption
    <3>4. Piece(rest') /\ Piece(line')
      BY <2>0, <3>1, <3>2, TextIsPiece
    <3>5. Piece(rest)' /\ Piece(line)'
      BY <2>0, <3>4 DEF Piece
    <3> QED
      BY <3>1, <3>3, <3>5 DEF TextInv
  <2>2. CASE ~(Points[at].color /\ Points[at].text # <<>>)
    BY <1>1, <1>5, <2>2 DEF Marker
  <2> QED
    BY <2>1, <2>2
<1>6. ASSUME UNCHANGED <<item, rest, line, task>>, pc \in {"line", "split", "span", "image"},
             pc' = "image" => needsCustomRender(Head(spans').cls)
      PROVE  TextInv'
  BY <1>6 DEF TextInv, Piece
<1>7. CASE ReadLine
  <2>1. PICK end \in 1..(Len(rest) + 1) :
          line' = SubSeq(rest, 1, end - 1) /\ rest' = SubSeq(rest, end + 1, Len(rest))
    BY <1>7 DEF ReadLine, RestAfter
  <2>2. /\ pc = "line" /\ pc' = "split" /\ UNCHANGED <<item, task>> /\ item \in Items
    BY <1>7 DEF ReadLine, BaseInv
  <2>3. /\ Piece(rest) /\ task.size \in Sizes
    BY <2>2 DEF TextInv
  <2>4. /\ end - 1 \in 0..Len(rest) /\ end + 1 \in Nat \ {0} /\ Len(rest) \in 0..Len(rest)
        /\ 1 \in Nat \ {0}
    BY DEF BaseInv
  <2>5. Piece(line') /\ Piece(rest')
    BY <2>1, <2>2, <2>3, <2>4, PieceOfPiece
  <2>6. Piece(line)' /\ Piece(rest)'
    BY <2>2, <2>5 DEF Piece
  <2> QED
    BY <2>2, <2>3, <2>6 DEF TextInv
<1>8. CASE Split \/ SplitEnd \/ LineEnd \/ TextTag \/ Render
  BY <1>6, <1>8 DEF Split, SplitEnd, LineEnd, TextTag, Render, textVars, spanVars, TextInv
<1>9. CASE Custom
  BY <1>6, <1>9 DEF Custom, textVars
<1>10. CASE Image
  <2>1. pc = "image" /\ UNCHANGED <<item, rest, line, task>>
    BY <1>10 DEF Image
  <2>2. CASE MoreInSpan
    BY <1>6, <1>10, <2>1, <2>2 DEF Image, TextInv
  <2>3. CASE ~MoreInSpan
    BY <1>6, <1>10, <2>1, <2>3 DEF Image
  <2> QED
    BY <2>2, <2>3
<1>11. CASE Environment \/ UNCHANGED vars
  BY <1>11 DEF Environment, vars, textVars, spanVars, TextInv, Piece
<1> QED
  BY <1>2, <1>3, <1>4, <1>5, <1>7, <1>8, <1>9, <1>10, <1>11 DEF Next, Build

\* A build asks the renderer for emoji and sizes of the items only.
LEMMA BuilderIsTypedStep ==
    BaseInv /\ SpanInv /\ UniformInv /\ TextInv /\ [Next]_vars => TypedStep
<1> SUFFICES ASSUME BaseInv, SpanInv, UniformInv, TextInv, [Next]_vars PROVE TypedStep
  OBVIOUS
<1>0. line \in Seq(Nat) /\ Len(line) \in Nat
  BY DEF BaseInv
<1>1. CASE Start \/ AsIs \/ BadPoint \/ Box \/ TextItem \/ Rect \/ Close
  BY <1>1 DEF Start, AsIs, BadPoint, Box, TextItem, Rect, Close, TypedStep
<1>2. CASE LastPoint \/ Marker \/ FirstPoint \/ LineTo
  BY <1>2 DEF LastPoint, Marker, FirstPoint, LineTo, TypedStep
<1>3. CASE LastLine \/ ReadLine \/ Split \/ SplitEnd \/ LineEnd
  BY <1>3 DEF LastLine, ReadLine, Split, SplitEnd, LineEnd, TypedStep
<1>4. CASE TextTag
  <2>1. \E text : Measure(text, task.size)
    BY <1>4 DEF TextTag
  <2>2. task.size \in Sizes
    BY <1>4 DEF TextTag, TextInv
  <2> QED
    BY <2>1, <2>2 DEF TypedStep
\* An emoji of the line.
<1>5. ASSUME pc \in {"span", "image"}, NEW k \in 0..(Len(line) - 1),
             needsCustomRender(classify(SymbolAt(line, k))), Ask(SymbolAt(line, k), task.size)
      PROVE  TypedStep
  <2>1. item \in Items /\ Piece(line) /\ task.size \in Sizes
    BY <1>5 DEF TextInv, BaseInv
  <2> DEFINE symbol == SymbolAt(line, k)
  <2>2. symbol \in Symbols
    BY <1>5, <2>1, EmojiOfPiece
  <2>3. Ask(symbol, task.size)
    BY <1>5
  <2> HIDE DEF symbol
  <2>4. \E s \in Symbols, size \in Sizes : Ask(s, size)
    BY <2>1, <2>2, <2>3, Zenon
  <2> QED
    BY <2>4 DEF TypedStep
<1>6. CASE Custom
  <2>1. /\ pc = "span" /\ spans # <<>> /\ needsCustomRender(Head(spans).cls)
        /\ Ask(SymbolAt(line, Head(spans).begin), task.size)
    BY <1>6 DEF Custom
  <2>2. Head(spans) = spans[1] /\ 1 \in 1..Len(spans) /\ spans[1] \in Spans
    BY <2>1 DEF SpanInv
  <2>3. spans[1].begin \in Nat /\ spans[1].begin < spans[1].end /\ spans[1].end \in Nat
    BY <2>1, <2>2 DEF SpanInv, Tile, Spans
  <2>4. spans[1].end <= Len(line) /\ Uniform(line, spans[1].begin, spans[1].end, spans[1].cls)
    BY <2>1, <2>2 DEF UniformInv
  <2>5. classify(SymbolAt(line, spans[1].begin)) = spans[1].cls
    BY <2>3, <2>4 DEF Uniform, UniformOn
  <2>6. spans[1].begin \in 0..(Len(line) - 1)
    BY <1>0, <2>3, <2>4
  <2> QED
    BY <1>5, <2>1, <2>2, <2>5, <2>6
<1>7. CASE Render
  BY <1>7 DEF Render, TypedStep
<1>8. CASE Image
  <2>1. CASE MoreInSpan
    <3>1. /\ pc = "image" /\ Ask(SymbolAt(line, next), task.size)
          /\ needsCustomRender(classify(SymbolAt(line, next)))
      BY <1>8, <2>1 DEF Image, MoreInSpan, TextInv
    <3>2. next \in 0..(Len(line) - 1)
      BY <1>0, <2>1 DEF MoreInSpan, SpanInv
    <3> QED
      BY <1>5, <3>1, <3>2
  <2>2. CASE ~MoreInSpan
    BY <1>8, <2>2 DEF Image, TypedStep
  <2> QED
    BY <2>1, <2>2
<1>9. CASE Environment
  BY <1>9 DEF Environment, TypedStep
<1>10. CASE UNCHANGED vars
  BY <1>10 DEF vars, TypedStep
<1> QED
  BY <1>1, <1>2, <1>3, <1>4, <1>6, <1>7, <1>8, <1>9, <1>10 DEF Next, Build

AskInv == BaseInv /\ SpanInv /\ UniformInv /\ TextInv /\ GlyphsTypeInv /\ RendererInv

\* What the builder asks the renderer for, while it works through the pieces of
\* its text, is an emoji of the items at a size of theirs, and what the renderer
\* keeps is of such requests.
THEOREM AskInvariance == Spec => []AskInv
<1>1. Init => AskInv
  BY BaseInit, SpanInit, UniformInit, TextInit, GlyphsTypeInit, RendererInit DEF AskInv
<1>2. AskInv /\ [Next]_vars => AskInv'
  BY BaseStep, SpanStep, UniformStep, TextStep, BuilderIsTypedStep, GlyphsTypeStep,
     BuilderIsGlyphStep, RendererStep DEF AskInv
<1> QED
  BY <1>1, <1>2, PTL DEF Spec

\* scaleBitmapToFitHeight reads no pixel outside the bitmap it scales, neither
\* the nearest one nor its neighbour, for any bitmap a font has and any size.
THEOREM ScalingStaysInside == Spec => []ScaleReadsInside
<1>1. AskInv => ScaleReadsInside
  BY PictureReadsInside DEF AskInv, RendererInv, ScaleReadsInside
<1> QED
  BY AskInvariance, <1>1, PTL

-----------------------------------------------------------------------------
(* The lines of a vector.                                                  *)

NoSentinel == \A i \in 1..Len(Points) : Points[i].x # MaxInt

\* first and second are the last two points that are done, as far as there are
\* two.
JoinInv ==
    (isShapeVector(item) /\ NoSentinel) =>
        /\ lines \in Seq((Int \X Int) \X (Int \X Int))
        /\ Len(lines) = IF at = 1 THEN 0 ELSE at - 2
        /\ \A i \in 1..Len(lines) : lines[i] = <<Place(i), Place(i + 1)>>
        /\ first = IF at = 1 THEN NotSet ELSE IF at = 2 THEN Place(1) ELSE Place(at - 2)
        /\ second = IF at <= 2 THEN NotSet ELSE Place(at - 1)
        /\ pc \in {"point", "line", "split", "span", "image"} => at <= Len(Points)
        /\ at <= Len(Points) + 1

\* Points are at whole numbers.
LEMMA PlaceType ==
    ASSUME item \in Items, NEW i \in 1..Len(Points)
    PROVE  Points[i].x \in Int /\ Place(i) \in Int \X Int
<1>1. item.points \in Seq(Point)
  BY SvgBuilderAssumption DEF Item
<1>2. item.points[i] \in Point
  BY <1>1 DEF Points
<1>3. Int32 \subseteq Int
  BY SvgBuilderAssumption DEF Int32
<1> QED
  BY <1>2, <1>3 DEF Points, Place, Point

\* There are finitely many points.
LEMMA PointCount == ASSUME item \in Items PROVE Len(Points) \in Nat
<1>1. item.points \in Seq(Point)
  BY SvgBuilderAssumption DEF Item
<1> QED
  BY <1>1 DEF Points

\* No points are joined initially.
LEMMA JoinInit == Init => JoinInv
BY DEF Init, JoinInv, isShapeVector, NoItem

\* A point is taken with the one before it, a marker changes nothing of that.
LEMMA JoinStep == BaseInv /\ JoinInv /\ [Next]_vars => JoinInv'
<1> SUFFICES ASSUME BaseInv, JoinInv, [Next]_vars,
                    isShapeVector(item)', NoSentinel'
             PROVE  JoinInv'
  BY DEF JoinInv
<1>1. CASE Start
  <2>1. item' \in Items /\ lines' = <<>> /\ at' = 1 /\ first' = NotSet /\ second' = NotSet /\ pc' = "box"
    BY <1>1 DEF Start
  <2>2. Len(item'.points) \in Nat
    <3>1. item'.points \in Seq(Point)
      BY <2>1, SvgBuilderAssumption DEF Item
    <3> QED
      BY <3>1
  <2> QED
    BY <2>1, <2>2 DEF JoinInv, Points
<1>2. ASSUME UNCHANGED <<item, joinVars>>, pc' \in {"point", "line", "split", "span", "image"} => at <= Len(Points)
      PROVE  JoinInv'
  BY <1>2 DEF JoinInv, joinVars, Points, Place, NoSentinel, isShapeVector, BaseInv
<1>3. CASE AsIs \/ BadPoint \/ Box \/ Rect \/ Close \/ LastPoint
  BY <1>2, <1>3 DEF AsIs, BadPoint, Box, Rect, Close, LastPoint
<1>4. CASE TextItem
  BY <1>4 DEF TextItem, isShapeVector
<1>5. CASE Marker
  BY <1>2, <1>5 DEF Marker, BeginText
<1> DEFINE InText == LastLine \/ ReadLine \/ Split \/ SplitEnd \/ LineEnd \/ TextTag
                     \/ Custom \/ Render \/ Image
<1>6. CASE InText
  <2>1. /\ pc \in {"line", "split", "span", "image"}
        /\ UNCHANGED <<item, joinVars>>
    BY <1>6 DEF LastLine, ReadLine, Split, SplitEnd, LineEnd, TextTag, Custom, Render, Image
  <2>2. at <= Len(Points)
    BY <2>1 DEF JoinInv, isShapeVector, NoSentinel, Points
  <2> QED
    BY <1>2, <2>1, <2>2
<1>7. CASE FirstPoint \/ LineTo
  <2>1. pc = "point" /\ pc' = "join" /\ at' = at + 1 /\ UNCHANGED item
    BY <1>7 DEF FirstPoint, LineTo
  <2>2. item \in Items /\ at \in Nat \ {0}
    BY <2>1 DEF BaseInv
  <2>3. isShapeVector(item) /\ NoSentinel
    BY <2>1 DEF isShapeVector, NoSentinel, Points
  <2>4. at \in 1..Len(Points) /\ Len(Points) \in Nat
    BY <2>1, <2>2, <2>3, PointCount DEF JoinInv
  <2>5. \A i \in 1..Len(Points) : Place(i)[1] # MaxInt /\ Place(i) \in Int \X Int
    BY <2>2, <2>3, PlaceType DEF Place, NoSentinel
  <2>6. Points' = Points /\ \A i : Place(i)' = Place(i)
    BY <2>1 DEF Points, Place
  <2>7. CASE at = 1
    <3>1. first[1] = MaxInt
      BY <2>3, <2>7 DEF JoinInv, NotSet
    <3>2. first' = Place(1) /\ UNCHANGED <<second, lines>>
      BY <1>7, <2>7, <3>1 DEF FirstPoint, LineTo
    <3> QED
      BY <2>1, <2>2, <2>3, <2>4, <2>6, <2>7, <3>2 DEF JoinInv
  <2>8. CASE at = 2
    <3>1. first = Place(1) /\ second = NotSet
      BY <2>3, <2>8 DEF JoinInv
    <3>2. first[1] # MaxInt /\ second[1] = MaxInt
      BY <2>4, <2>5, <2>8, <3>1 DEF NotSet
    <3>3. /\ first' = Place(1) /\ second' = Place(2)
          /\ lines' = Append(lines, <<Place(1), Place(2)>>)
      BY <1>7, <2>8, <3>1, <3>2 DEF FirstPoint, LineTo
    <3>4. lines \in Seq((Int \X Int) \X (Int \X Int)) /\ Len(lines) = 0
      BY <2>3, <2>8 DEF JoinInv
    <3>5. Place(1) \in Int \X Int /\ Place(2) \in Int \X Int
      BY <2>4, <2>5, <2>8
    <3>6. /\ lines' \in Seq((Int \X Int) \X (Int \X Int)) /\ Len(lines') = 1
          /\ lines'[1] = <<Place(1), Place(2)>>
      BY <3>3, <3>4, <3>5
    <3> QED
      BY <2>1, <2>4, <2>6, <2>8, <3>3, <3>6 DEF JoinInv
  <2>9. CASE at > 2
    <3>1. first = Place(at - 2) /\ second = Place(at - 1)
      BY <2>3, <2>4, <2>9 DEF JoinInv
    <3>2. /\ first[1] # MaxInt /\ second[1] # MaxInt
          /\ Place(at - 1) \in Int \X Int /\ Place(at) \in Int \X Int
      <4>1. at - 2 \in 1..Len(Points) /\ at - 1 \in 1..Len(Points)
        BY <2>4, <2>9
      <4> QED
        BY <2>4, <2>5, <3>1, <4>1
    <3>3. /\ first' = Place(at - 1) /\ second' = Place(at)
          /\ lines' = Append(lines, <<Place(at - 1), Place(at)>>)
      BY <1>7, <3>1, <3>2 DEF FirstPoint, LineTo, NextFirst
    <3>4. /\ lines \in Seq((Int \X Int) \X (Int \X Int)) /\ Len(lines) = at - 2
          /\ \A i \in 1..Len(lines) : lines[i] = <<Place(i), Place(i + 1)>>
      BY <2>3, <2>9 DEF JoinInv
    <3>5. /\ lines' \in Seq((Int \X Int) \X (Int \X Int)) /\ Len(lines') = at - 1
          /\ lines'[at - 1] = <<Place(at - 1), Place(at)>>
          /\ \A i \in 1..Len(lines) : lines'[i] = lines[i]
      BY <2>4, <3>2, <3>3, <3>4
    <3>6. \A i \in 1..Len(lines') : lines'[i] = <<Place(i), Place(i + 1)>>
      <4> SUFFICES ASSUME NEW i \in 1..Len(lines')
                   PROVE  lines'[i] = <<Place(i), Place(i + 1)>>
        OBVIOUS
      <4>1. CASE i = at - 1
        <5>1. i + 1 = at
          BY <2>4, <4>1
        <5> QED
          BY <3>5, <4>1, <5>1
      <4>2. CASE i # at - 1
        <5>1. i \in 1..Len(lines)
          BY <2>4, <2>9, <3>4, <3>5, <4>2
        <5> QED
          BY <3>4, <3>5, <5>1
      <4> QED
        BY <4>1, <4>2
    <3>7. /\ Len(lines') = at' - 2 /\ at' > 2
          /\ at' - 2 = at - 1 /\ at' - 1 = at
          /\ at' <= Len(Points) + 1
      BY <2>1, <2>4, <2>9, <3>5
    <3>8. first' = Place(at - 2)' /\ second' = Place(at - 1)'
      BY <2>1, <3>3, <3>7 DEF Place, Points
    <3>9. \A i \in 1..Len(lines') : lines'[i] = <<Place(i)', Place(i + 1)'>>
      BY <2>6, <3>6
    <3> QED
      BY <2>1, <2>6, <3>5, <3>7, <3>8, <3>9 DEF JoinInv
  <2> QED
    BY <2>4, <2>7, <2>8, <2>9
<1>8. CASE Environment \/ UNCHANGED vars
  BY <1>2, <1>8 DEF Environment, vars, JoinInv, isShapeVector, NoSentinel, Points
<1> QED
  BY <1>1, <1>3, <1>4, <1>5, <1>6, <1>7, <1>8 DEF Next, Build

\* Whatever markers and texts are drawn between them, the points of a vector
\* are joined in their order, each with the next.
THEOREM VectorIsPolyline == Spec => []LinesJoinNeighbours
<1>1. Init => BaseInv /\ JoinInv
  BY BaseInit, JoinInit
<1>2. (BaseInv /\ JoinInv) /\ [Next]_vars => (BaseInv /\ JoinInv)'
  BY BaseStep, JoinStep
<1>3. JoinInv => LinesJoinNeighbours
  BY DEF JoinInv, LinesJoinNeighbours, NoSentinel
<1> QED
  BY <1>1, <1>2, <1>3, PTL DEF Spec

-----------------------------------------------------------------------------
(* Numbers that wrap, and bounds of sets.                                  *)

Unsigned == 0..(2 * MaxInt + 1)

\* What is wrapped is an unsigned int.
LEMMA WrapType == ASSUME NEW n \in Int PROVE Wrap(n) \in Unsigned
<1> DEFINE m == 2 * (MaxInt + 1)
<1>1. m \in Nat \ {0} /\ m - 1 = 2 * MaxInt + 1
  BY SvgBuilderAssumption
<1>2. Wrap(n) = n % m
  BY DEF Wrap
<1> HIDE DEF m
<1> QED
  BY <1>1, <1>2, ModuloType DEF Unsigned

\* An unsigned int stays as it is.
LEMMA WrapSame == ASSUME NEW n \in Unsigned PROVE Wrap(n) = n
<1> DEFINE m == 2 * (MaxInt + 1)
<1>1. m \in Nat \ {0} /\ n \in 0..(m - 1)
  BY SvgBuilderAssumption DEF Unsigned
<1>2. Wrap(n) = n % m
  BY DEF Wrap
<1> HIDE DEF m
<1> QED
  BY <1>1, <1>2

\* An offset below the modulus is what is left of it after two additions.
LEMMA WrapDifference ==
    ASSUME NEW a \in Int, NEW b \in Unsigned
    PROVE  Wrap(Wrap(a + b) - Wrap(a)) = b
<1> DEFINE m == 2 * (MaxInt + 1)
<1>1. m \in Nat \ {0} /\ b \in 0..(m - 1)
  BY SvgBuilderAssumption DEF Unsigned
<1>2. \A n : Wrap(n) = n % m
  BY DEF Wrap
<1> HIDE DEF m
<1>3. /\ a % m \in 0..(m - 1) /\ (a + b) % m \in 0..(m - 1)
      /\ a = (m * (a \div m)) + (a % m)
      /\ a + b = (m * ((a + b) \div m)) + ((a + b) % m)
      /\ a \div m \in Int /\ (a + b) \div m \in Int
  BY <1>1
<1> DEFINE q == a \div m
           r == (a + b) \div m
           c == a % m
           d == (a + b) % m
<1>4. /\ q \in Int /\ r \in Int /\ c \in 0..(m - 1) /\ d \in 0..(m - 1)
      /\ (m * q) + c + b = (m * r) + d
  BY <1>3
<1> HIDE DEF q, r, c, d
<1>5. m * (r - q) = (c + b) - d
  BY <1>1, <1>4
<1>6. r - q \in Int /\ r - q < 2 /\ r - q > -1
  <2>1. /\ (c + b) - d < 2 * m /\ (c + b) - d > -m
    BY <1>1, <1>4
  <2>2. CASE r - q >= 2
    <3>1. m * (r - q) >= m * 2
      BY <1>1, <1>4, <2>2
    <3> QED
      BY <1>1, <1>4, <1>5, <2>1, <3>1
  <2>3. CASE r - q <= -1
    <3>1. m * (r - q) <= m * (-1)
      BY <1>1, <1>4, <2>3
    <3> QED
      BY <1>1, <1>4, <1>5, <2>1, <3>1
  <2> QED
    BY <1>4, <2>2, <2>3
<1>7. CASE r - q = 0
  <2>1. d - c = b
    BY <1>1, <1>4, <1>5, <1>7
  <2>2. (d - c) % m = b
    BY <1>1, <2>1
  <2> QED
    BY <1>2, <2>2 DEF c, d
<1>8. CASE r - q = 1
  <2>1. d - c = b - m
    BY <1>1, <1>4, <1>5, <1>8
  <2>2. (b - m) % m = b
    BY <1>1
  <2> QED
    BY <1>2, <2>1, <2>2 DEF c, d
<1> QED
  BY <1>6, <1>7, <1>8

\* What is read as an int is one.
LEMMA AsIntType == ASSUME NEW n \in Int PROVE AsInt(n) \in Int32
<1>1. Wrap(n) \in Unsigned
  BY WrapType
<1> QED
  BY <1>1, SvgBuilderAssumption DEF AsInt, Int32, Unsigned

\* An int stays as it is.
LEMMA AsIntSame == ASSUME NEW n \in Int32 PROVE AsInt(n) = n
<1> DEFINE m == 2 * (MaxInt + 1)
<1>1. /\ m \in Nat \ {0} /\ MaxInt \in Nat /\ m = 2 * MaxInt + 2
      /\ n \in (-MaxInt - 1)..MaxInt
  BY SvgBuilderAssumption DEF Int32
<1>2. AsInt(n) = IF n % m > MaxInt THEN (n % m) - m ELSE n % m
  BY DEF Wrap, AsInt
<1> HIDE DEF m
<1>3. CASE n >= 0
  BY <1>1, <1>2, <1>3
<1>4. CASE n < 0
  <2>1. n % m = n + m
    BY <1>1, <1>4
  <2> QED
    BY <1>1, <1>2, <1>4, <2>1
<1> QED
  BY <1>1, <1>3, <1>4

\* A set of ints that is not empty has a least one.
LEMMA LeastInt ==
    ASSUME NEW S \in SUBSET Int32, S # {}
    PROVE  Min(S) \in S /\ \A j \in S : Min(S) <= j
<1> DEFINE low == MaxInt + 1
           T == {x + low : x \in S}
<1>1. low \in Nat /\ \A x \in S : x \in Int /\ x >= -low
  BY SvgBuilderAssumption DEF Int32
<1> HIDE DEF low
<1>2. T \subseteq Nat /\ T # {}
  BY <1>1
<1>3. PICK t \in T : \A j \in T : t <= j
  BY <1>2, LeastOfSet
<1>4. PICK m \in S : t = m + low
  BY <1>3
<1>5. ASSUME NEW j \in S PROVE m <= j
  <2>1. j + low \in T
    OBVIOUS
  <2>2. m + low <= j + low
    BY <1>3, <1>4, <2>1
  <2> QED
    BY <1>1, <2>2
<1> HIDE DEF T
<1> QED
  BY <1>4, <1>5 DEF Min

\* It has a greatest one too.
LEMMA GreatestInt ==
    ASSUME NEW S \in SUBSET Int32, S # {}
    PROVE  Max(S) \in S /\ \A j \in S : Max(S) >= j
<1> DEFINE T == {MaxInt - x : x \in S}
<1>1. MaxInt \in Nat /\ \A x \in S : x \in Int /\ x <= MaxInt
  BY SvgBuilderAssumption DEF Int32
<1>2. T \subseteq Nat /\ T # {}
  BY <1>1
<1>3. PICK t \in T : \A j \in T : t <= j
  BY <1>2, LeastOfSet
<1>4. PICK m \in S : t = MaxInt - m
  BY <1>3
<1>5. ASSUME NEW j \in S PROVE m >= j
  <2>1. MaxInt - j \in T
    OBVIOUS
  <2>2. MaxInt - m <= MaxInt - j
    BY <1>3, <1>4, <2>1
  <2> QED
    BY <1>1, <2>2
<1> HIDE DEF T
<1> QED
  BY <1>4, <1>5 DEF Max

\* The corners of a vector's points are corners of a box around them.
LEMMA CornersBound ==
    ASSUME item \in Items
    PROVE  LET near == Corner(Points)
               far == FarCorner(Points)
           IN /\ near \in Int32 \X Int32 /\ far \in Int32 \X Int32
              /\ \A i \in 1..Len(Points) :
                   /\ Place(i) \in Int32 \X Int32
                   /\ near[1] <= Place(i)[1] /\ Place(i)[1] <= far[1]
                   /\ near[2] <= Place(i)[2] /\ Place(i)[2] <= far[2]
              /\ Len(Points) = 1 => near = Place(1)
<1> DEFINE X == {Points[i].x : i \in 1..Len(Points)}
           Y == {Points[i].y : i \in 1..Len(Points)}
<1>1. MaxInt \in Int32 /\ -MaxInt - 1 \in Int32 /\ MaxInt \in Nat
  BY SvgBuilderAssumption DEF Int32
<1>2. \A i \in 1..Len(Points) : Points[i].x \in Int32 /\ Points[i].y \in Int32
  <2>1. Points \in Seq(Point)
    BY SvgBuilderAssumption DEF Item, Points
  <2>2. \A i \in 1..Len(Points) : Points[i] \in Point
    BY <2>1
  <2> QED
    BY <2>2 DEF Point
<1>3. /\ X \cup {MaxInt} \in SUBSET Int32 /\ Y \cup {MaxInt} \in SUBSET Int32
      /\ X \cup {-MaxInt - 1} \in SUBSET Int32 /\ Y \cup {-MaxInt - 1} \in SUBSET Int32
  BY <1>1, <1>2
<1>4. \A i \in 1..Len(Points) : Points[i].x \in X /\ Points[i].y \in Y
  OBVIOUS
<1>5. Len(Points) = 1 => X = {Points[1].x} /\ Y = {Points[1].y}
  OBVIOUS
<1> HIDE DEF X, Y
<1> DEFINE x == Min(X \cup {MaxInt})
           y == Min(Y \cup {MaxInt})
           u == Max(X \cup {-MaxInt - 1})
           v == Max(Y \cup {-MaxInt - 1})
<1>6. x \in X \cup {MaxInt} /\ \A j \in X \cup {MaxInt} : x <= j
  BY <1>3, LeastInt
<1>7. y \in Y \cup {MaxInt} /\ \A j \in Y \cup {MaxInt} : y <= j
  BY <1>3, LeastInt
<1>8. u \in X \cup {-MaxInt - 1} /\ \A j \in X \cup {-MaxInt - 1} : u >= j
  BY <1>3, GreatestInt
<1>9. v \in Y \cup {-MaxInt - 1} /\ \A j \in Y \cup {-MaxInt - 1} : v >= j
  BY <1>3, GreatestInt
<1>10. Corner(Points) = <<x, y>> /\ FarCorner(Points) = <<u, v>>
  BY DEF Corner, FarCorner, X, Y
<1> HIDE DEF x, y, u, v
<1>11. x \in Int32 /\ y \in Int32 /\ u \in Int32 /\ v \in Int32
  BY <1>3, <1>6, <1>7, <1>8, <1>9
<1>12. ASSUME NEW i \in 1..Len(Points)
       PROVE  /\ Place(i) \in Int32 \X Int32
              /\ x <= Place(i)[1] /\ Place(i)[1] <= u
              /\ y <= Place(i)[2] /\ Place(i)[2] <= v
  <2>1. Place(i) = <<Points[i].x, Points[i].y>> /\ Points[i].x \in Int32 /\ Points[i].y \in Int32
    BY <1>2 DEF Place
  <2>2. Points[i].x \in Int /\ Points[i].y \in Int /\ u \in Int /\ v \in Int
    BY <1>11, <2>1 DEF Int32
  <2>3. x <= Points[i].x /\ u >= Points[i].x /\ y <= Points[i].y /\ v >= Points[i].y
    BY <1>4, <1>6, <1>7, <1>8, <1>9
  <2> QED
    BY <2>1, <2>2, <2>3
<1>13. ASSUME Len(Points) = 1 PROVE <<x, y>> = Place(1)
  <2>1. /\ x \in {Points[1].x, MaxInt} /\ x <= Points[1].x
        /\ y \in {Points[1].y, MaxInt} /\ y <= Points[1].y
    BY <1>4, <1>5, <1>6, <1>7, <1>13
  <2>2. Points[1].x \in Int32 /\ Points[1].y \in Int32
    BY <1>2, <1>13
  <2>3. x = Points[1].x /\ y = Points[1].y
    BY <1>1, <2>1, <2>2 DEF Int32
  <2> QED
    BY <2>3 DEF Place
<1> QED
  BY <1>10, <1>11, <1>12, <1>13

-----------------------------------------------------------------------------
(* Types of the builder's state.                                           *)

Tags == [kind : {"text", "image", "rect", "circle", "cross"},
         from : Int \X Int, to : Int \X Int]

\* What computeWidth gives for a text span is a number.
LEMMA SpanWidth ==
    ASSUME BaseInv, SpanInv, UniformInv, pc = "span", spans # <<>>,
           ~needsCustomRender(Head(spans).cls), task.size \in Sizes
    PROVE  LET text == SymbolsOf(SubSeq(line, Head(spans).begin + 1, Head(spans).end))
               font == FontUsedToMeasure(text, task.size)
           IN (IF font = NoFont THEN Len(text) * task.size
               ELSE WidthIn(font, text, task.size)) \in Int
<1> DEFINE s == spans[1]
           part == SubSeq(line, s.begin + 1, s.end)
           text == SymbolsOf(part)
           font == FontUsedToMeasure(text, task.size)
<1>1. Head(spans) = s /\ s \in Spans /\ 1 \in 1..Len(spans)
  BY DEF SpanInv
<1>2. /\ s.begin \in Nat /\ s.end \in 0..Len(line) /\ s.begin < s.end
      /\ Uniform(line, s.begin, s.end, s.cls)
  BY <1>1 DEF SpanInv, UniformInv, Tile, Spans, BaseInv
<1>3. line \in Seq(Nat)
  BY DEF BaseInv
<1>4. \A k \in 1..Len(text) : classify(text[k]) = s.cls
  BY <1>2, <1>3, UniformSymbols
<1>5. part \in Seq(Nat)
  <2>1. s.begin + 1 \in Nat \ {0}
    BY <1>2
  <2> QED
    BY <1>2, <1>3, <2>1, PartOfText
<1> HIDE DEF part
<1>6. text \in Seq(Nat)
  <2>1. \A k \in Nat : k < Len(part) => After(part, k) \in Nat /\ SymbolAt(part, k) \in Nat
    BY <1>5, SymbolStep, SymbolType
  <2> QED
    BY <1>5, <2>1, SymbolsReached
<1> HIDE DEF text, s
<1>7. task.size \in Nat
  BY GlyphsAssumption
<1>8. CASE font = NoFont
  <2>1. Len(text) \in Nat
    BY <1>6
  <2>2. Len(text) * task.size \in Int
    BY <1>7, <2>1
  <2> QED
    BY <1>1, <1>8, <2>2 DEF text, part
<1>9. CASE font # NoFont
  <2>1. PICK i \in FontsTried(text, task.size) :
          Measures(TextFonts[i], text, task.size) /\ font = TextFonts[i]
    BY <1>9 DEF FontUsedToMeasure
  <2>2. font \in Fonts /\ ~Unusable(font)
    BY <2>1, ListedFonts DEF FontsTried, Measures
  <2>3. SizeOn(font, task.size) \in Heights
    BY <2>2, SizeOnType DEF Unusable
  <2>4. ASSUME NEW k \in 1..Len(text)
        PROVE  Advance(font, text[k], SizeOn(font, task.size)) \in Int
    <3>1. text[k] \in Nat /\ ~needsCustomRender(classify(text[k]))
      BY <1>1, <1>4, <1>6
    <3>2. text[k] \in BasicPlane
      BY <3>1, MeasuredAreSmall
    <3>3. Advance(font, text[k], SizeOn(font, task.size)) \in Int \cup {NoAdvance}
      BY <2>2, <2>3, <3>2, AdvanceAssumption
    <3> QED
      BY <2>1, <3>3 DEF Measures
  <2>5. WidthIn(font, text, task.size) \in Int
    BY <1>6, <2>4, WidthType
  <2> QED
    BY <1>1, <1>9, <2>5 DEF text, part
<1> QED
  BY <1>8, <1>9

StateInv ==
    /\ pc \in {"idle", "box", "join", "point", "line", "split", "span", "image",
               "close", "thrown"}
    /\ corner \in Int32 \X Int32 /\ extent \in Int32 \X Int32
    /\ first \in Int32 \X Int32 /\ second \in Int32 \X Int32
    /\ task.position \in Int32 \X Int32 /\ task.size \in Sizes \cup {0}
    /\ cursor \in [x : Unsigned, y : Unsigned]
    /\ tags \in Seq(Tags) /\ begun \in 0..Len(tags)
    /\ pc \in {"join", "point"} => isShapeVector(item)
    /\ (pc \in {"point", "line", "split", "span", "image"} /\ isShapeVector(item)) =>
         at <= Len(Points)

\* The bounds of the ints are ints.
LEMMA SmallInts ==
    /\ 0 \in Int32 /\ MaxInt \in Int32 /\ 0 \in Unsigned /\ Int32 \subseteq Int
    /\ Unsigned \subseteq Int
BY SvgBuilderAssumption DEF Int32, Unsigned

\* All is 0 or not set initially.
LEMMA StateInit == Init => StateInv
BY SmallInts DEF Init, StateInv, NotSet, NoTask, NewTask

\* Every step stays inside of the widths.
LEMMA StateStep ==
    BaseInv /\ SpanInv /\ UniformInv /\ TextInv /\ GlyphsTypeOK /\ StateInv /\ [Next]_vars
    => StateInv'
<1> SUFFICES ASSUME BaseInv, SpanInv, UniformInv, TextInv, GlyphsTypeOK, StateInv, [Next]_vars
             PROVE  StateInv'
  OBVIOUS
<1>0. Len(tags) \in Nat /\ begun \in Nat /\ begun <= Len(tags)
  BY DEF StateInv
<1>pen. cursor.x \in Int /\ cursor.y \in Int
  BY SmallInts DEF StateInv
<1>1. CASE Start
  BY <1>1, SmallInts DEF Start, StateInv, NotSet, NoTask, NewTask
\* A tag more.
<1>2. ASSUME NEW tag \in Tags PROVE  Append(tags, tag) \in Seq(Tags) /\ begun \in 0..Len(Append(tags, tag))
  BY <1>0 DEF StateInv
<1>3. CASE AsIs \/ BadPoint \/ Close \/ LastPoint
  BY <1>3 DEF AsIs, BadPoint, Close, LastPoint, StateInv, boxVars, joinVars, textVars, spanVars, outVars, isShapeVector, Points
<1>4. CASE Box
  <2>1. item \in Items
    BY <1>4 DEF Box, BaseInv
  <2>2. /\ Corner(Points) \in Int32 \X Int32 /\ FarCorner(Points) \in Int32 \X Int32
        /\ VectorSize(item) \in Nat /\ WindowWidth \in 0..MaxInt
    BY <2>1, CornersBound, RequestAssumption, GlyphsAssumption, SvgBuilderAssumption
  <2> DEFINE near == Corner(Points)
             far == FarCorner(Points)
  <2>3. /\ near[1] \in Int /\ near[2] \in Int /\ far[1] \in Int /\ far[2] \in Int
    BY <2>2, SmallInts
  <2>4. WindowWidth \div 4 \in Int32
    BY <2>2, SvgBuilderAssumption DEF Int32
  <2> HIDE DEF near, far
  <2>5. corner' \in Int32 \X Int32 /\ extent' \in Int32 \X Int32
    <3>1. CASE Len(Points) = 1
      <4>1. /\ corner' = <<AsInt(near[1] - (kMarkerHalfSize + 1)), AsInt(near[2] - (kMarkerHalfSize + 1))>>
            /\ extent' = <<WindowWidth \div 4, AsInt(2 * kMarkerHalfSize + 1 + VectorSize(item) + kTextOffsetY)>>
        BY <1>4, <3>1 DEF Box, near
      <4>2. /\ near[1] - (kMarkerHalfSize + 1) \in Int /\ near[2] - (kMarkerHalfSize + 1) \in Int
            /\ 2 * kMarkerHalfSize + 1 + VectorSize(item) + kTextOffsetY \in Int
        BY <2>2, <2>3 DEF kMarkerHalfSize, kTextOffsetY
      <4>3. /\ AsInt(near[1] - (kMarkerHalfSize + 1)) \in Int32
            /\ AsInt(near[2] - (kMarkerHalfSize + 1)) \in Int32
            /\ AsInt(2 * kMarkerHalfSize + 1 + VectorSize(item) + kTextOffsetY) \in Int32
        BY <4>2, AsIntType
      <4> QED
        BY <2>4, <4>1, <4>3
    <3>2. CASE Len(Points) # 1
      <4>1. corner' = near /\ extent' = <<AsInt(far[1] - near[1]), AsInt(far[2] - near[2])>>
        BY <1>4, <3>2 DEF Box, near, far
      <4>2. far[1] - near[1] \in Int /\ far[2] - near[2] \in Int
        BY <2>3
      <4>3. AsInt(far[1] - near[1]) \in Int32 /\ AsInt(far[2] - near[2]) \in Int32
        BY <4>2, AsIntType
      <4>4. near \in Int32 \X Int32
        BY <2>2 DEF near
      <4> QED
        BY <4>1, <4>3, <4>4
    <3> QED
      BY <3>1, <3>2
  <2> QED
    BY <1>4, <2>5 DEF Box, StateInv, joinVars, textVars, spanVars, outVars
\* A text begins.
<1>5. ASSUME NEW t, BeginText(t), t.position \in Int32 \X Int32, t.size \in Sizes
      PROVE  /\ task'.position \in Int32 \X Int32 /\ task'.size \in Sizes \cup {0}
             /\ cursor' \in [x : Unsigned, y : Unsigned] /\ pc' = "line"
  <2>1. t.position[2] \in Int
    BY <1>5, SmallInts
  <2>2. Wrap(t.position[2]) \in Unsigned
    BY <2>1, WrapType
  <2> QED
    BY <1>5, <2>2, SmallInts DEF BeginText
<1>6. CASE TextItem
  <2>1. item \in Items
    BY <1>6 DEF TextItem, BaseInv
  <2>2. item.x \in Int32 /\ item.y \in Int32 /\ TextSize(item) \in Sizes
    BY <2>1, SvgBuilderAssumption, RequestAssumption DEF Item
  <2>3. PICK t : t = NewTask(<<item.x, item.y>>, TextSize(item), item.text)
    OBVIOUS
  <2>4. BeginText(t)
    BY <1>6, <2>3 DEF TextItem
  <2>5. t.position \in Int32 \X Int32 /\ t.size \in Sizes
    BY <2>2, <2>3 DEF NewTask
  <2>6. /\ task'.position \in Int32 \X Int32 /\ task'.size \in Sizes \cup {0}
        /\ cursor' \in [x : Unsigned, y : Unsigned] /\ pc' = "line"
    BY <1>5, <2>4, <2>5
  <2> QED
    BY <1>6, <2>6 DEF TextItem, StateInv, boxVars, joinVars, isShapeVector
<1>7. CASE Rect
  <2>1. item \in Items
    BY <1>7 DEF Rect, BaseInv
  <2>2. item.x \in Int /\ item.y \in Int
    BY <2>1, SvgBuilderAssumption, SmallInts DEF Item
  <2>3. Tag("rect", <<item.x, item.y>>, <<item.x, item.y>>) \in Tags
    BY <2>2 DEF Tag, Tags
  <2>4. tags' \in Seq(Tags) /\ begun \in 0..Len(tags')
    BY <1>2, <1>7, <2>3 DEF Rect, StateInv
  <2> QED
    BY <1>7, <2>4 DEF Rect, StateInv, boxVars, joinVars, textVars
<1>8. CASE Marker
  <2>1. /\ item \in Items /\ at \in 1..Len(Points) /\ isShapeVector(item) /\ pc = "join"
    BY <1>8, PointCount DEF Marker, BaseInv, StateInv
  <2> DEFINE p == Points[at]
  <2>2. p.x \in Int /\ p.y \in Int
    BY <2>1, PlaceType, CornersBound, SmallInts DEF Place
  <2>3. p.marker \in {"circle", "cross", "none"}
    <3>1. Points \in Seq(Point)
      BY <2>1, SvgBuilderAssumption DEF Item, Points
    <3>2. Points[at] \in Point
      BY <2>1, <3>1
    <3> QED
      BY <3>2 DEF Point
  <2>4. MarkerTags(p) \in Seq(Tags)
    <3>1. /\ AsInt(p.x - kMarkerHalfSize) \in Int32 /\ AsInt(p.y - kMarkerHalfSize) \in Int32
          /\ AsInt(p.x + kMarkerHalfSize) \in Int32 /\ AsInt(p.y + kMarkerHalfSize) \in Int32
      BY <2>2, AsIntType DEF kMarkerHalfSize
    <3>2. /\ AsInt(p.x - kMarkerHalfSize) \in Int /\ AsInt(p.y - kMarkerHalfSize) \in Int
          /\ AsInt(p.x + kMarkerHalfSize) \in Int /\ AsInt(p.y + kMarkerHalfSize) \in Int
      BY <3>1, SmallInts
    <3> HIDE DEF p
    <3> DEFINE a == AsInt(p.x - kMarkerHalfSize)
               b == AsInt(p.y - kMarkerHalfSize)
               c == AsInt(p.x + kMarkerHalfSize)
               d == AsInt(p.y + kMarkerHalfSize)
    <3>3. a \in Int /\ b \in Int /\ c \in Int /\ d \in Int
      BY <3>2
    <3>4. MarkerTags(p) \in {<<Tag("circle", <<a, b>>, <<c, d>>)>>,
                             <<Tag("cross", <<a, b>>, <<c, d>>), Tag("cross", <<a, d>>, <<c, b>>)>>,
                             <<>>}
      BY <2>3 DEF MarkerTags
    <3> HIDE DEF a, b, c, d
    <3>5. /\ Tag("circle", <<a, b>>, <<c, d>>) \in Tags
          /\ Tag("cross", <<a, b>>, <<c, d>>) \in Tags /\ Tag("cross", <<a, d>>, <<c, b>>) \in Tags
      BY <3>3 DEF Tag, Tags
    <3>6. CASE MarkerTags(p) = <<Tag("circle", <<a, b>>, <<c, d>>)>>
      BY <3>5, <3>6
    <3>7. CASE MarkerTags(p) = <<Tag("cross", <<a, b>>, <<c, d>>), Tag("cross", <<a, d>>, <<c, b>>)>>
      BY <3>5, <3>7
    <3>8. CASE MarkerTags(p) = <<>>
      BY <3>8
    <3> QED
      BY <3>4, <3>6, <3>7, <3>8
  <2>5. tags' \in Seq(Tags) /\ begun' \in 0..Len(tags')
    <3>1. tags' = tags \/ tags' = tags \o MarkerTags(p)
      BY <1>8 DEF Marker
    <3>2. tags \in Seq(Tags) /\ begun \in 0..Len(tags) /\ UNCHANGED begun
      BY <1>8 DEF Marker, StateInv
    <3>3. (tags \o MarkerTags(p)) \in Seq(Tags)
          /\ Len(tags \o MarkerTags(p)) = Len(tags) + Len(MarkerTags(p)) /\ Len(MarkerTags(p)) \in Nat
      BY <2>4, <3>2
    <3>4. begun \in 0..Len(tags \o MarkerTags(p))
      BY <1>0, <3>3
    <3> QED
      BY <3>1, <3>2, <3>3, <3>4
  <2>6. CASE p.color /\ p.text # <<>>
    <3>1. VectorSize(item) \in Sizes
      BY <2>1, RequestAssumption
    <3>2. /\ AsInt(p.x + kMarkerHalfSize + kTextOffsetX) \in Int32
          /\ AsInt(p.y - kTextOffsetY) \in Int32
      BY <2>2, AsIntType DEF kMarkerHalfSize, kTextOffsetX, kTextOffsetY
    <3> DEFINE t == NewTask(<<AsInt(p.x + kMarkerHalfSize + kTextOffsetX), AsInt(p.y - kTextOffsetY)>>,
                            VectorSize(item), p.text)
    <3>3. BeginText(t)
      BY <1>8, <2>6 DEF Marker
    <3>4. t.position \in Int32 \X Int32 /\ t.size \in Sizes
      BY <3>1, <3>2 DEF NewTask
    <3> HIDE DEF t
    <3>5. /\ task'.position \in Int32 \X Int32 /\ task'.size \in Sizes \cup {0}
          /\ cursor' \in [x : Unsigned, y : Unsigned] /\ pc' = "line"
      BY <1>5, <3>3, <3>4
    <3> QED
      BY <1>8, <2>1, <2>5, <3>5 DEF Marker, StateInv, boxVars, joinVars, Points, isShapeVector
  <2>7. CASE ~(p.color /\ p.text # <<>>)
    BY <1>8, <2>1, <2>5, <2>7 DEF Marker, StateInv, boxVars, joinVars, textVars, Points, isShapeVector
  <2> QED
    BY <2>6, <2>7
<1>9. CASE FirstPoint \/ LineTo
  <2>1. pc = "point" /\ item \in Items /\ isShapeVector(item) /\ at \in 1..Len(Points)
    BY <1>9, PointCount DEF FirstPoint, LineTo, BaseInv, StateInv
  <2>2. Place(at) \in Int32 \X Int32
    BY <2>1, CornersBound
  <2>3. first' \in Int32 \X Int32 /\ second' \in Int32 \X Int32
    BY <1>9, <2>2 DEF FirstPoint, LineTo, NextFirst, StateInv
  <2> QED
    BY <1>9, <2>1, <2>3 DEF FirstPoint, LineTo, StateInv, boxVars, textVars, outVars
<1>10. CASE LastLine
  BY <1>10 DEF LastLine, StateInv, boxVars, joinVars, textVars, outVars, isShapeVector, Points
<1>11. CASE ReadLine
  <2>1. LineStart(task) \in Unsigned
    BY WrapType, SmallInts DEF StateInv, LineStart
  <2>2. cursor' \in [x : Unsigned, y : Unsigned]
    BY <1>11, <2>1 DEF ReadLine, StateInv
  <2>3. begun' \in 0..Len(tags)
    BY <1>0, <1>11 DEF ReadLine
  <2> QED
    BY <1>11, <2>2, <2>3 DEF ReadLine, StateInv, boxVars, joinVars, Points, isShapeVector
<1>12. CASE Split \/ SplitEnd \/ Custom \/ Render
  BY <1>12 DEF Split, SplitEnd, Custom, Render, StateInv, boxVars, joinVars, textVars, outVars, Points, isShapeVector
<1>13. CASE LineEnd
  <2>1. pc = "span" /\ task.size \in Nat /\ cursor.y \in Int
    BY <1>13, GlyphsAssumption, SmallInts DEF LineEnd, TextInv, StateInv
  <2>2. cursor.y + ((105 * task.size) \div 100) \in Int
    BY <2>1
  <2>3. Wrap(cursor.y + ((105 * task.size) \div 100)) \in Unsigned
    BY <2>2, WrapType
  <2>4. cursor' \in [x : Unsigned, y : Unsigned]
    BY <1>13, <2>3 DEF LineEnd, StateInv
  <2> QED
    BY <1>13, <2>4 DEF LineEnd, StateInv, boxVars, joinVars, outVars, Points, isShapeVector
\* A tag at the cursor, and the cursor behind it.
<1>14. ASSUME NEW kind \in {"text", "image"}, NEW y \in Int, NEW width \in Int
       PROVE  TagAt(kind, y, width) \in Tags /\ Wrap(cursor.x + width) \in Unsigned
  <2>1. cursor.x \in Int
    BY SmallInts DEF StateInv
  <2>2. Wrap(cursor.x + width) \in Unsigned /\ Wrap(y) \in Unsigned
    BY <2>1, WrapType
  <2> QED
    BY <2>1, <2>2, SmallInts DEF TagAt, Tag, Tags
<1>15. CASE TextTag
  <2> DEFINE text == SymbolsOf(SubSeq(line, Head(spans).begin + 1, Head(spans).end))
             font == FontUsedToMeasure(text, task.size)
             width == IF font = NoFont THEN Len(text) * task.size
                      ELSE WidthIn(font, text, task.size)
  <2>1. pc = "span" /\ spans # <<>> /\ ~needsCustomRender(Head(spans).cls) /\ task.size \in Sizes
    BY <1>15 DEF TextTag, TextInv
  <2>2. width \in Int
    BY <2>1, SpanWidth
  <2>3. /\ tags' = Append(tags, TagAt("text", cursor.y + task.size, width))
        /\ cursor' = [cursor EXCEPT !.x = Wrap(cursor.x + width)]
    BY <1>15 DEF TextTag
  <2> HIDE DEF width
  <2>4. cursor.y + task.size \in Int
    <3>1. task.size \in Nat
      BY <2>1, GlyphsAssumption
    <3> QED
      BY <1>pen, <3>1
  <2>5. TagAt("text", cursor.y + task.size, width) \in Tags /\ Wrap(cursor.x + width) \in Unsigned
    BY <1>14, <2>2, <2>4
  <2>6. tags' \in Seq(Tags) /\ begun \in 0..Len(tags')
    BY <1>2, <2>3, <2>5
  <2>7. cursor' \in [x : Unsigned, y : Unsigned]
    BY <2>3, <2>5 DEF StateInv
  <2> QED
    BY <1>15, <2>6, <2>7 DEF TextTag, StateInv, boxVars, joinVars, Points, isShapeVector
<1>16. CASE Image
  <2>1. answer.width \in Nat /\ ImageAdvance(answer) \in Nat
    <3>1. answer.width \in Nat
      BY DEF GlyphsTypeOK, Png
    <3>2. (answer.width * 5) \div 100 \in Nat
      BY <3>1
    <3>3. Min({3, (answer.width * 5) \div 100}) \in Nat
      BY <3>2, LessOf
    <3> QED
      BY <3>1, <3>3 DEF ImageAdvance, ImageSpace
  <2>2. TagAt("image", cursor.y, answer.width) \in Tags
    BY <1>14, <1>pen, <2>1
  <2>3. Wrap(cursor.x + ImageAdvance(answer)) \in Unsigned
    BY <1>14, <2>1
  <2>4. /\ tags' = IF isValid(answer) THEN Append(tags, TagAt("image", cursor.y, answer.width)) ELSE tags
        /\ cursor' = [cursor EXCEPT !.x = Wrap(cursor.x + ImageAdvance(answer))]
        /\ UNCHANGED <<item, boxVars, joinVars, task, begun>>
        /\ pc = "image" /\ pc' \in {"span", "image"}
    BY <1>16 DEF Image
  <2>5. tags' \in Seq(Tags) /\ begun \in 0..Len(tags')
    BY <1>2, <2>2, <2>4 DEF StateInv
  <2>6. cursor' \in [x : Unsigned, y : Unsigned]
    BY <2>3, <2>4 DEF StateInv
  <2> QED
    BY <2>4, <2>5, <2>6 DEF StateInv, boxVars, joinVars, Points, isShapeVector
<1>17. CASE Environment \/ UNCHANGED vars
  BY <1>17 DEF Environment, vars, StateInv, boxVars, joinVars, textVars, outVars, Points, isShapeVector
<1> QED
  BY <1>1, <1>3, <1>4, <1>6, <1>7, <1>8, <1>9, <1>10, <1>11, <1>12, <1>13, <1>15, <1>16, <1>17
  DEF Next, Build

StateTyped == AskInv /\ StateInv

\* All of the builder's state has its type, whatever numbers the items hold:
\* what is computed with them wraps, and never leaves its width.
THEOREM TypeInvariance == Spec => []StateTyped
<1>1. Init => StateInv
  BY StateInit
<1>2. AskInv /\ StateInv /\ [Next]_vars => StateInv'
  BY StateStep DEF AskInv, GlyphsTypeInv
<1> QED
  BY AskInvariance, <1>1, <1>2, PTL DEF Spec, StateTyped

\* The type invariant of the builder and its renderer.
THEOREM TypeCorrect == Spec => []TypeOK
<1>1. StateTyped => TypeOK
  <2> SUFFICES ASSUME StateTyped PROVE TypeOK
    OBVIOUS
  <2>1. \A i \in 1..Len(spans) : spans[i] \in Spans
    BY DEF StateTyped, AskInv, SpanInv
  <2> QED
    BY <2>1 DEF StateTyped, StateInv, AskInv, BaseInv, SpanInv, GlyphsTypeInv, TypeOK,
                Unsigned, Spans
<1> QED
  BY TypeInvariance, <1>1, PTL

-----------------------------------------------------------------------------
(* The tags of a line.                                                     *)

\* The tags of the line follow one another, and the cursor is at its start or
\* right behind the last of them.
FollowInv ==
    pc \in {"split", "span", "image"} =>
        /\ \A i \in (begun + 1)..Len(tags) :
             IF i = begun + 1 THEN tags[i].from[1] = Wrap(task.position[1])
             ELSE Wrap(tags[i].from[1] - tags[i - 1].to[1]) \in 0..3
        /\ IF Len(tags) = begun THEN cursor.x = Wrap(task.position[1])
           ELSE Wrap(cursor.x - tags[Len(tags)].to[1]) \in 0..3

\* A tag at the cursor, and the cursor moved at most three behind it.
LEMMA TagFollows ==
    ASSUME StateInv, FollowInv, pc \in {"span", "image"},
           UNCHANGED <<task, begun>>,
           NEW kind \in {"text", "image"}, NEW y \in Int, NEW width \in Int, NEW gap \in 0..3,
           tags' = Append(tags, TagAt(kind, y, width)),
           cursor'.x = Wrap(cursor.x + width + gap)
    PROVE  FollowInv'
<1> DEFINE tag == TagAt(kind, y, width)
           n == Len(tags)
<1>1. /\ tags \in Seq(Tags) /\ n \in Nat /\ begun \in 0..n
      /\ cursor.x \in Int
  <2>1. cursor.x \in Unsigned
    BY DEF StateInv
  <2>2. Len(tags) \in Nat
    BY DEF StateInv
  <2> QED
    BY <2>1, <2>2, SmallInts DEF StateInv
<1>2. /\ Len(tags') = n + 1 /\ tags'[n + 1] = tag
      /\ \A i \in 1..n : tags'[i] = tags[i]
  BY <1>1
<1>3. tag.from[1] = cursor.x /\ tag.to[1] = Wrap(cursor.x + width)
  BY DEF TagAt, Tag
<1> HIDE DEF tag, n
<1>4. ASSUME NEW i \in (begun + 1)..(n + 1)
      PROVE  IF i = begun + 1 THEN tags'[i].from[1] = Wrap(task.position[1])
             ELSE Wrap(tags'[i].from[1] - tags'[i - 1].to[1]) \in 0..3
  <2>1. CASE i = n + 1
    <3>1. CASE n = begun
      BY <1>2, <1>3, <2>1, <3>1 DEF FollowInv, n
    <3>2. CASE n # begun
      <4>1. tags'[i - 1] = tags[n] /\ i # begun + 1
        BY <1>1, <1>2, <2>1, <3>2
      <4> QED
        BY <1>2, <1>3, <2>1, <3>2, <4>1 DEF FollowInv, n
    <3> QED
      BY <3>1, <3>2
  <2>2. CASE i # n + 1
    <3>1. i \in (begun + 1)..n /\ i \in 1..n
      BY <1>1, <2>2
    <3>2. tags'[i] = tags[i] /\ (i # begun + 1 => tags'[i - 1] = tags[i - 1])
      BY <1>1, <1>2, <3>1
    <3> QED
      BY <3>1, <3>2 DEF FollowInv, n
  <2> QED
    BY <2>1, <2>2
<1>5. Wrap(cursor'.x - tags'[n + 1].to[1]) \in 0..3
  <2>1. gap \in Unsigned /\ cursor.x + width \in Int
    BY <1>1, SvgBuilderAssumption DEF Unsigned
  <2>2. Wrap(Wrap(cursor.x + width + gap) - Wrap(cursor.x + width)) = gap
    BY <2>1, WrapDifference
  <2> QED
    BY <1>2, <1>3, <2>2
<1>6. n + 1 # begun
  BY <1>1
<1> QED
  BY <1>2, <1>4, <1>5, <1>6 DEF FollowInv

\* There are no tags initially.
LEMMA FollowInit == Init => FollowInv
BY DEF Init, FollowInv

\* A tag is put at the cursor, and the cursor behind it.
LEMMA FollowStep ==
    AskInv /\ StateInv /\ FollowInv /\ [Next]_vars => FollowInv'
<1> SUFFICES ASSUME AskInv, StateInv, FollowInv, [Next]_vars PROVE FollowInv'
  OBVIOUS
<1>1. CASE Start \/ AsIs \/ BadPoint \/ Box \/ TextItem \/ Rect \/ Close
  BY <1>1 DEF Start, AsIs, BadPoint, Box, TextItem, Rect, Close, BeginText, FollowInv
<1>2. CASE LastPoint \/ Marker \/ FirstPoint \/ LineTo \/ LastLine
  BY <1>2 DEF LastPoint, Marker, FirstPoint, LineTo, LastLine, BeginText, FollowInv
<1>3. CASE ReadLine
  <2>1. /\ begun' = Len(tags) /\ UNCHANGED <<tags, task>> /\ cursor'.x = Wrap(task.position[1])
    BY <1>3 DEF ReadLine, LineStart, StateInv
  <2>2. Len(tags) \in Nat
    BY DEF StateInv
  <2> QED
    BY <2>1, <2>2 DEF FollowInv
<1>4. CASE Split \/ SplitEnd \/ Custom \/ Render
  BY <1>4 DEF Split, SplitEnd, Custom, Render, FollowInv, textVars, outVars
<1>5. CASE LineEnd
  BY <1>5 DEF LineEnd, FollowInv
<1>6. CASE TextTag
  <2> DEFINE text == SymbolsOf(SubSeq(line, Head(spans).begin + 1, Head(spans).end))
             font == FontUsedToMeasure(text, task.size)
             width == IF font = NoFont THEN Len(text) * task.size
                      ELSE WidthIn(font, text, task.size)
  <2>1. pc = "span" /\ spans # <<>> /\ ~needsCustomRender(Head(spans).cls) /\ task.size \in Sizes
    BY <1>6 DEF TextTag, TextInv, AskInv
  <2>2. width \in Int
    BY <2>1, SpanWidth DEF AskInv
  <2>3. /\ tags' = Append(tags, TagAt("text", cursor.y + task.size, width))
        /\ cursor' = [cursor EXCEPT !.x = Wrap(cursor.x + width)]
        /\ UNCHANGED <<task, begun>>
    BY <1>6 DEF TextTag
  <2> HIDE DEF width
  <2>4. cursor.y + task.size \in Int /\ cursor.x + width + 0 = cursor.x + width
    <3>1. task.size \in Nat /\ cursor.y \in Int /\ cursor.x \in Int
      BY <2>1, GlyphsAssumption, SmallInts DEF StateInv
    <3> QED
      BY <2>2, <3>1
  <2>5. cursor'.x = Wrap(cursor.x + width + 0)
    BY <2>3, <2>4 DEF StateInv
  <2> QED
    BY <2>1, <2>2, <2>3, <2>4, <2>5, TagFollows
<1>7. CASE Image
  <2>1. /\ pc = "image" /\ UNCHANGED <<task, begun>>
        /\ tags' = IF isValid(answer) THEN Append(tags, TagAt("image", cursor.y, answer.width))
                   ELSE tags
        /\ cursor'.x = Wrap(cursor.x + ImageAdvance(answer))
    BY <1>7 DEF Image, StateInv
  <2>2. cursor.x \in Unsigned /\ cursor.x \in Int /\ cursor.y \in Int
    BY SmallInts DEF StateInv
  <2>3. CASE isValid(answer)
    <3> DEFINE gap == Min({3, (answer.width * 5) \div 100})
    <3>1. answer.width \in Nat
      BY DEF AskInv, GlyphsTypeInv, GlyphsTypeOK, Png
    <3>2. (answer.width * 5) \div 100 \in Nat
      BY <3>1
    <3>3. gap \in 0..3
      BY <3>2, LessOf
    <3>4. cursor'.x = Wrap(cursor.x + (answer.width + gap))
      BY <2>1, <2>3 DEF ImageAdvance, ImageSpace
    <3> HIDE DEF gap
    <3>5. cursor.x + (answer.width + gap) = cursor.x + answer.width + gap
      BY <2>2, <3>1, <3>3
    <3>6. tags' = Append(tags, TagAt("image", cursor.y, answer.width))
      BY <2>1, <2>3
    <3>7. cursor'.x = Wrap(cursor.x + answer.width + gap)
      BY <3>4, <3>5
    <3>8. answer.width \in Int /\ "image" \in {"text", "image"} /\ pc \in {"span", "image"}
      BY <2>1, <3>1
    <3> QED
      BY <2>1, <2>2, <3>3, <3>6, <3>7, <3>8, TagFollows
  <2>4. CASE ~isValid(answer)
    <3>1. cursor'.x = cursor.x
      BY <2>1, <2>2, <2>4, WrapSame DEF ImageAdvance
    <3> QED
      BY <2>1, <2>4, <3>1 DEF FollowInv
  <2> QED
    BY <2>3, <2>4
<1>8. CASE Environment \/ UNCHANGED vars
  BY <1>8 DEF Environment, vars, textVars, outVars, FollowInv
<1> QED
  BY <1>1, <1>2, <1>3, <1>4, <1>5, <1>6, <1>7, <1>8 DEF Next, Build

\* The tags of a line follow one another from its start, each at most three
\* pixels behind the one before, also where the sum of their widths wraps.
THEOREM TagsFollowEachOther == Spec => []TagsFollow
<1>1. Init => FollowInv
  BY FollowInit
<1>2. StateTyped /\ FollowInv /\ [Next]_vars => FollowInv'
  BY FollowStep DEF StateTyped
<1>3. FollowInv => TagsFollow
  BY DEF FollowInv, TagsFollow
<1> QED
  BY TypeInvariance, <1>1, <1>2, <1>3, PTL DEF Spec

-----------------------------------------------------------------------------
(* The box of a vector.                                                    *)

Places == {Place(i) : i \in 1..Len(Points)}

\* The corners of a marker.
MarkedBy(tag) ==
    tag.kind \in {"circle", "cross"} =>
        \E i \in 1..Len(Points) :
            \A k \in {1, 2} :
                {tag.from[k], tag.to[k]}
                \subseteq {AsInt(Place(i)[k] - kMarkerHalfSize), AsInt(Place(i)[k] + kMarkerHalfSize)}

BoxInv ==
    (pc \notin {"idle", "thrown"} /\ isShapeVector(item)) =>
        /\ \A i \in 1..Len(lines) : lines[i][1] \in Places /\ lines[i][2] \in Places
        /\ \A i \in 1..Len(tags) : MarkedBy(tags[i])
        /\ at = 1 => first = NotSet
        /\ Len(Points) = 1 => lines = <<>>
        /\ first[1] # MaxInt => first \in Places
        /\ second[1] # MaxInt => second \in Places
        /\ lines \in Seq((Int32 \X Int32) \X (Int32 \X Int32))
        /\ pc = "box" => lines = <<>> /\ tags = <<>> /\ at = 1
        /\ pc # "box" =>
             IF Len(Points) = 1
             THEN /\ corner = <<AsInt(Corner(Points)[1] - (kMarkerHalfSize + 1)),
                                AsInt(Corner(Points)[2] - (kMarkerHalfSize + 1))>>
                  /\ extent = <<WindowWidth \div 4,
                                AsInt(2 * kMarkerHalfSize + 1 + VectorSize(item) + kTextOffsetY)>>
             ELSE /\ corner = Corner(Points)
                  /\ extent = <<AsInt(FarCorner(Points)[1] - Corner(Points)[1]),
                                AsInt(FarCorner(Points)[2] - Corner(Points)[2])>>

\* There is no vector initially.
LEMMA BoxInit == Init => BoxInv
BY DEF Init, BoxInv

\* Lines end at points, and the box does not change once it is there.
LEMMA BoxStep == BaseInv /\ StateInv /\ BoxInv /\ [Next]_vars => BoxInv'
<1> SUFFICES ASSUME BaseInv, StateInv, BoxInv, [Next]_vars,
                    pc' \notin {"idle", "thrown"}, isShapeVector(item')
             PROVE  BoxInv'
  BY DEF BoxInv
<1>1. CASE Start
  BY <1>1, SmallInts DEF Start, BoxInv, NotSet
\* The points are those of before.
<1>2. ASSUME UNCHANGED item
      PROVE  /\ isShapeVector(item) /\ Points' = Points /\ Places' = Places
             /\ \A i : Place(i)' = Place(i)
             /\ \A tag : MarkedBy(tag)' <=> MarkedBy(tag)
  BY <1>2 DEF Points, Places, Place, MarkedBy
<1>3. ASSUME UNCHANGED <<item, boxVars, joinVars>>, pc \notin {"idle", "thrown", "box"}, pc' # "box",
             \A i \in 1..Len(tags') : (i \in 1..Len(tags) /\ tags'[i] = tags[i]) \/ MarkedBy(tags'[i])
      PROVE  BoxInv'
  <2>1. \A i \in 1..Len(tags') : MarkedBy(tags'[i])
    BY <1>2, <1>3 DEF BoxInv
  <2>2. (\A i \in 1..Len(tags) : MarkedBy(tags[i]))'
    BY <1>2, <1>3, <2>1
  <2> QED
    BY <1>2, <1>3, <2>2 DEF BoxInv, boxVars, joinVars
\* A tag that is no marker.
<1>4. ASSUME NEW kind \in {"text", "image"}, NEW y, NEW width,
             tags' = Append(tags, TagAt(kind, y, width))
      PROVE  \A i \in 1..Len(tags') :
               (i \in 1..Len(tags) /\ tags'[i] = tags[i]) \/ MarkedBy(tags'[i])
  <2>1. tags \in Seq(Tags) /\ Len(tags) \in Nat
    BY DEF StateInv
  <2>2. TagAt(kind, y, width).kind \notin {"circle", "cross"}
    BY DEF TagAt, Tag
  <2>3. MarkedBy(TagAt(kind, y, width))
    BY <2>2 DEF MarkedBy
  <2> HIDE DEF MarkedBy
  <2> DEFINE tag == TagAt(kind, y, width)
  <2> HIDE DEF tag
  <2>4. /\ Len(tags') = Len(tags) + 1 /\ tags'[Len(tags) + 1] = tag
        /\ \A i \in 1..Len(tags) : tags'[i] = tags[i]
    BY <1>4, <2>1 DEF tag
  <2>5. \A i \in 1..Len(tags') : i \in 1..Len(tags) \/ i = Len(tags) + 1
    BY <2>1, <2>4
  <2> QED
    BY <2>3, <2>4, <2>5 DEF tag
<1>5. CASE AsIs \/ BadPoint \/ TextItem \/ Rect \/ Close
  BY <1>5 DEF AsIs, BadPoint, TextItem, Rect, Close, isShapeVector
<1>6. CASE LastPoint \/ LastLine \/ ReadLine \/ Split \/ SplitEnd \/ LineEnd \/ Custom \/ Render
  <2>1. UNCHANGED <<item, boxVars, joinVars, tags>> /\ pc \notin {"idle", "thrown", "box"} /\ pc' # "box"
    BY <1>6 DEF LastPoint, LastLine, ReadLine, Split, SplitEnd, LineEnd, Custom, Render, textVars, outVars
  <2> QED
    BY <1>3, <2>1
<1>7. CASE TextTag
  <2>1. PICK y, width : tags' = Append(tags, TagAt("text", y, width))
    BY <1>7 DEF TextTag
  <2>2. UNCHANGED <<item, boxVars, joinVars>> /\ pc = "span" /\ pc' = "span"
    BY <1>7 DEF TextTag
  <2> QED
    BY <1>3, <1>4, <2>1, <2>2
<1>8. CASE Image
  <2>1. tags' = tags \/ tags' = Append(tags, TagAt("image", cursor.y, answer.width))
    BY <1>8 DEF Image
  <2>2. UNCHANGED <<item, boxVars, joinVars>> /\ pc = "image" /\ pc' # "box"
    BY <1>8 DEF Image
  <2> QED
    BY <1>3, <1>4, <2>1, <2>2
<1>9. CASE Box
  <2>1. pc = "box" /\ pc' = "join" /\ UNCHANGED <<item, joinVars, tags>>
    BY <1>9 DEF Box, outVars
  <2>2. lines = <<>> /\ tags = <<>> /\ first = NotSet
    BY <1>2, <2>1 DEF BoxInv
  <2>3. IF Len(Points) = 1
        THEN /\ corner' = <<AsInt(Corner(Points)[1] - (kMarkerHalfSize + 1)),
                            AsInt(Corner(Points)[2] - (kMarkerHalfSize + 1))>>
             /\ extent' = <<WindowWidth \div 4,
                            AsInt(2 * kMarkerHalfSize + 1 + VectorSize(item) + kTextOffsetY)>>
        ELSE /\ corner' = Corner(Points)
             /\ extent' = <<AsInt(FarCorner(Points)[1] - Corner(Points)[1]),
                            AsInt(FarCorner(Points)[2] - Corner(Points)[2])>>
    BY <1>9 DEF Box
  <2> QED
    BY <1>2, <2>1, <2>2, <2>3 DEF BoxInv, joinVars
<1>10. CASE Marker
  <2>1. /\ item \in Items /\ at \in 1..Len(Points) /\ pc = "join"
        /\ UNCHANGED <<item, boxVars, joinVars>> /\ pc' # "box"
    BY <1>10, PointCount DEF Marker, BaseInv, BeginText
  <2> DEFINE p == Points[at]
             more == MarkerTags(p)
  <2>2. tags' = tags \/ tags' = tags \o more
    BY <1>10 DEF Marker
  <2>3. more \in Seq(Tags) /\ \A i \in 1..Len(more) : MarkedBy(more[i])
    <3>1. p.x \in Int /\ p.y \in Int /\ Place(at) = <<p.x, p.y>>
      BY <2>1, CornersBound, SmallInts DEF Place
    <3>2. p.marker \in {"circle", "cross", "none"}
      <4>1. Points \in Seq(Point)
        BY <2>1, SvgBuilderAssumption DEF Item, Points
      <4>2. p \in Point
        BY <2>1, <4>1
      <4> QED
        BY <4>2 DEF Point
    <3> DEFINE a == AsInt(p.x - kMarkerHalfSize)
               b == AsInt(p.y - kMarkerHalfSize)
               c == AsInt(p.x + kMarkerHalfSize)
               d == AsInt(p.y + kMarkerHalfSize)
    <3>3. a \in Int /\ b \in Int /\ c \in Int /\ d \in Int
      <4>1. a \in Int32 /\ b \in Int32 /\ c \in Int32 /\ d \in Int32
        BY <3>1, AsIntType DEF kMarkerHalfSize
      <4> QED
        BY <4>1, SmallInts
    <3>4. \A tag : /\ {tag.from[1], tag.to[1]} \subseteq {a, c}
                   /\ {tag.from[2], tag.to[2]} \subseteq {b, d}
                   => MarkedBy(tag)
      BY <2>1, <3>1 DEF MarkedBy
    <3>5. more \in {<<Tag("circle", <<a, b>>, <<c, d>>)>>,
                    <<Tag("cross", <<a, b>>, <<c, d>>), Tag("cross", <<a, d>>, <<c, b>>)>>,
                    <<>>}
      BY <3>2 DEF MarkerTags
    <3> HIDE DEF a, b, c, d, p, more
    <3>6. ASSUME NEW kind \in {"circle", "cross"}, NEW e \in {b, d}, NEW f \in {b, d}
          PROVE  /\ Tag(kind, <<a, e>>, <<c, f>>) \in Tags
                 /\ MarkedBy(Tag(kind, <<a, e>>, <<c, f>>))
      BY <3>3, <3>4 DEF Tag, Tags
    <3>7. CASE more = <<Tag("circle", <<a, b>>, <<c, d>>)>>
      BY <3>6, <3>7
    <3>8. CASE more = <<Tag("cross", <<a, b>>, <<c, d>>), Tag("cross", <<a, d>>, <<c, b>>)>>
      BY <3>6, <3>8
    <3>9. CASE more = <<>>
      BY <3>9
    <3> QED
      BY <3>5, <3>7, <3>8, <3>9
  <2> HIDE DEF more
  <2>4. tags \in Seq(Tags) /\ Len(tags) \in Nat
    BY DEF StateInv
  <2>5. CASE tags' = tags \o more
    <3>1. /\ Len(tags') = Len(tags) + Len(more) /\ Len(more) \in Nat
          /\ \A i \in 1..Len(tags) : tags'[i] = tags[i]
          /\ \A i \in 1..Len(more) : tags'[i + Len(tags)] = more[i]
      BY <2>3, <2>4, <2>5
    <3>2. ASSUME NEW i \in 1..Len(tags')
          PROVE  (i \in 1..Len(tags) /\ tags'[i] = tags[i]) \/ MarkedBy(tags'[i])
      <4>1. CASE i <= Len(tags)
        BY <2>4, <3>1, <4>1
      <4>2. CASE i > Len(tags)
        <5>1. i - Len(tags) \in 1..Len(more) /\ (i - Len(tags)) + Len(tags) = i
          BY <2>4, <3>1, <4>2
        <5>2. tags'[i] = more[i - Len(tags)]
          BY <3>1, <5>1
        <5> QED
          BY <2>3, <5>1, <5>2
      <4> QED
        BY <2>4, <3>1, <4>1, <4>2
    <3> QED
      BY <1>3, <2>1, <3>2
  <2> QED
    BY <1>3, <2>1, <2>2, <2>5
<1>11. CASE FirstPoint \/ LineTo
  <2>1. /\ pc = "point" /\ pc' = "join" /\ UNCHANGED <<item, boxVars, tags>>
        /\ at' = at + 1 /\ at \in Nat \ {0}
    BY <1>11 DEF FirstPoint, LineTo, outVars, BaseInv
  <2>2. item \in Items /\ isShapeVector(item) /\ at \in 1..Len(Points)
    BY <1>2, <2>1, PointCount DEF BaseInv, StateInv
  <2>3. Place(at) \in Places /\ Places \subseteq Int32 \X Int32
    BY <2>2, CornersBound DEF Places
  <2>4. /\ first[1] # MaxInt => first \in Places
        /\ second[1] # MaxInt => second \in Places
        /\ at = 1 => first = NotSet
    BY <2>1, <2>2 DEF BoxInv
  <2>5. at' # 1
    BY <2>1
  <2>6. CASE FirstPoint
    <3>1. first' = Place(at) /\ UNCHANGED <<second, lines>>
      BY <2>6 DEF FirstPoint
    <3> QED
      BY <1>2, <2>1, <2>3, <2>5, <3>1 DEF BoxInv, boxVars
  <2>7. CASE LineTo
    <3>1. /\ first' \in Places /\ second' = Place(at)
          /\ lines' = Append(lines, <<first', second'>>)
      BY <2>4, <2>7 DEF LineTo, NextFirst
    <3>2. Len(Points) # 1
      <4>1. at # 1
        BY <2>4, <2>7 DEF LineTo, NotSet
      <4>2. at \in 1..Len(Points)
        BY <2>2
      <4>3. Len(Points) = 1 => at = 1
        BY <4>2
      <4> QED
        BY <4>1, <4>3
    <3> DEFINE joined == <<first', second'>>
    <3>3. joined \in (Int32 \X Int32) \X (Int32 \X Int32) /\ joined[1] \in Places /\ joined[2] \in Places
      BY <2>3, <3>1
    <3> HIDE DEF joined
    <3>4. lines \in Seq((Int32 \X Int32) \X (Int32 \X Int32))
          /\ \A i \in 1..Len(lines) : lines[i][1] \in Places /\ lines[i][2] \in Places
      BY <2>1, <2>2 DEF BoxInv
    <3>5. lines' = Append(lines, joined)
      BY <3>1 DEF joined
    <3>6. lines' \in Seq((Int32 \X Int32) \X (Int32 \X Int32))
          /\ \A i \in 1..Len(lines') : lines'[i][1] \in Places /\ lines'[i][2] \in Places
      BY <3>3, <3>4, <3>5
    <3> QED
      BY <1>2, <2>1, <2>3, <2>5, <3>1, <3>2, <3>6 DEF BoxInv, boxVars
  <2> QED
    BY <1>11, <2>6, <2>7
<1>12. CASE Environment \/ UNCHANGED vars
  <2>1. UNCHANGED <<pc, item, boxVars, joinVars, tags>>
    BY <1>12 DEF Environment, vars, outVars
  <2>2. CASE pc = "box"
    BY <1>2, <2>1, <2>2 DEF BoxInv, joinVars, boxVars
  <2>3. CASE pc # "box"
    BY <1>3, <2>1, <2>3
  <2> QED
    BY <2>2, <2>3
<1> QED
  BY <1>1, <1>5, <1>6, <1>7, <1>8, <1>9, <1>10, <1>11, <1>12 DEF Next, Build

\* The shapes are inside: the lines of several points, the marker of one.
LEMMA BoxHoldsShapes == StateTyped /\ BoxInv => ShapesInBox
<1> DEFINE near == Corner(Points)
           far == FarCorner(Points)
           fits == \A k \in {1, 2} :
                     near[k] - kMarkerHalfSize - 1 >= -MaxInt - 1 /\ far[k] - near[k] <= MaxInt
           roomy == /\ \A k \in {1, 2} : near[k] + kMarkerHalfSize <= MaxInt
                    /\ 2 * kMarkerHalfSize + 1 <= WindowWidth \div 4
                    /\ 2 * kMarkerHalfSize + 1 + VectorSize(item) <= MaxInt
           inside(p) == \A k \in {1, 2} : p[k] - corner[k] \in 0..extent[k]
<1> SUFFICES ASSUME StateTyped, BoxInv, pc \notin {"idle", "box", "thrown"}, isShapeVector(item), fits
             PROVE  /\ \A i \in 1..Len(lines) : inside(lines[i][1]) /\ inside(lines[i][2])
                    /\ (Len(Points) = 1 /\ roomy) =>
                         \A i \in 1..Len(tags) : tags[i].kind \in {"circle", "cross"} =>
                             inside(tags[i].from) /\ inside(tags[i].to)
  BY Zenon DEF ShapesInBox
<1>1. item \in Items
  BY DEF StateTyped, AskInv, BaseInv
<1>2. /\ near \in Int32 \X Int32 /\ far \in Int32 \X Int32
      /\ \A i \in 1..Len(Points) :
           /\ Place(i) \in Int32 \X Int32
           /\ near[1] <= Place(i)[1] /\ Place(i)[1] <= far[1]
           /\ near[2] <= Place(i)[2] /\ Place(i)[2] <= far[2]
      /\ Len(Points) = 1 => near = Place(1)
  BY <1>1, CornersBound
<1> HIDE DEF near, far
<1>3. MaxInt \in Nat /\ \A n : n \in Int32 <=> n \in Int /\ -MaxInt - 1 <= n /\ n <= MaxInt
  BY SvgBuilderAssumption DEF Int32
<1>4. \A k \in {1, 2} : near[k] \in Int /\ far[k] \in Int /\ near[k] <= MaxInt
  BY <1>2, <1>3
<1>5. ASSUME Len(Points) # 1, NEW p \in Places PROVE inside(p)
  <2>1. PICK j \in 1..Len(Points) : p = Place(j)
    BY <1>5 DEF Places
  <2>2. \A k \in {1, 2} : p[k] \in Int /\ near[k] <= p[k] /\ p[k] <= far[k]
    BY <1>2, <1>3, <2>1
  <2>3. ASSUME NEW k \in {1, 2} PROVE AsInt(far[k] - near[k]) = far[k] - near[k]
    <3> DEFINE m == far[k] - near[k]
    <3>1. m \in Int /\ m >= 0 /\ m <= MaxInt
      BY <1>4, <2>2
    <3> HIDE DEF m
    <3>2. m \in Int32
      BY <1>3, <3>1
    <3>3. far[k] - near[k] \in Int32
      BY <3>2 DEF m
    <3> QED
      BY <3>3, AsIntSame
  <2>4. \A k \in {1, 2} : corner[k] = near[k] /\ extent[k] = far[k] - near[k]
    BY <1>5, <2>3 DEF BoxInv, near, far
  <2> SUFFICES ASSUME NEW k \in {1, 2} PROVE p[k] - corner[k] \in 0..extent[k]
    OBVIOUS
  <2>5. /\ near[k] \in Int /\ far[k] \in Int /\ p[k] \in Int
        /\ near[k] <= p[k] /\ p[k] <= far[k]
        /\ corner[k] = near[k] /\ extent[k] = far[k] - near[k]
    BY <1>4, <2>2, <2>4
  <2> QED
    BY <2>5
<1>6. ASSUME NEW i \in 1..Len(lines) PROVE inside(lines[i][1]) /\ inside(lines[i][2])
  <2>1. Len(Points) # 1
    BY <1>6 DEF BoxInv
  <2>2. lines[i][1] \in Places /\ lines[i][2] \in Places
    BY DEF BoxInv
  <2> HIDE DEF inside
  <2> QED
    BY <1>5, <2>1, <2>2
<1>7. ASSUME Len(Points) = 1, roomy, NEW i \in 1..Len(tags), tags[i].kind \in {"circle", "cross"}
      PROVE  inside(tags[i].from) /\ inside(tags[i].to)
  <2>1. \A k \in {1, 2} :
          {tags[i].from[k], tags[i].to[k]}
          \subseteq {AsInt(near[k] - kMarkerHalfSize), AsInt(near[k] + kMarkerHalfSize)}
    <3>1. MarkedBy(tags[i])
      BY DEF BoxInv
    <3>2. \A j \in 1..Len(Points) : Place(j) = near
      BY <1>2, <1>7
    <3> QED
      BY <1>7, <3>1, <3>2 DEF MarkedBy
  <2>2. ASSUME NEW k \in {1, 2}
        PROVE  /\ AsInt(near[k] - kMarkerHalfSize) = near[k] - 4
               /\ AsInt(near[k] + kMarkerHalfSize) = near[k] + 4
               /\ AsInt(near[k] - (kMarkerHalfSize + 1)) = near[k] - 5
    <3>1. /\ near[k] - kMarkerHalfSize \in Int32 /\ near[k] + kMarkerHalfSize \in Int32
          /\ near[k] - (kMarkerHalfSize + 1) \in Int32
      <4>1. near[k] \in Int /\ near[k] - 5 >= -MaxInt - 1 /\ near[k] + 4 <= MaxInt
        BY <1>4, <1>7 DEF kMarkerHalfSize
      <4> DEFINE n == near[k]
      <4>2. n \in Int /\ n - 5 >= -MaxInt - 1 /\ n + 4 <= MaxInt
        BY <4>1
      <4> HIDE DEF n
      <4>3. n - 4 \in Int32 /\ n + 4 \in Int32 /\ n - 5 \in Int32
        BY <1>3, <4>2 DEF Int32
      <4> QED
        BY <4>3 DEF kMarkerHalfSize, n
    <3>2. /\ AsInt(near[k] - kMarkerHalfSize) = near[k] - kMarkerHalfSize
          /\ AsInt(near[k] + kMarkerHalfSize) = near[k] + kMarkerHalfSize
          /\ AsInt(near[k] - (kMarkerHalfSize + 1)) = near[k] - (kMarkerHalfSize + 1)
      BY <3>1, AsIntSame
    <3> QED
      BY <1>4, <3>2 DEF kMarkerHalfSize
  <2>3. VectorSize(item) \in Nat
    BY <1>1, RequestAssumption, GlyphsAssumption
  <2>4. AsInt(2 * kMarkerHalfSize + 1 + VectorSize(item) + kTextOffsetY) = 9 + VectorSize(item)
    <3>1. 2 * kMarkerHalfSize + 1 + VectorSize(item) + kTextOffsetY = 9 + VectorSize(item)
      BY <2>3 DEF kMarkerHalfSize, kTextOffsetY
    <3>2. 9 + VectorSize(item) \in Int32
      BY <1>3, <1>7, <2>3 DEF kMarkerHalfSize
    <3> QED
      BY <3>1, <3>2, AsIntSame
  <2>5. \A k \in {1, 2} : corner[k] = near[k] - 5
    BY <1>7, <2>2 DEF BoxInv, near
  <2>6. extent[1] = WindowWidth \div 4 /\ extent[2] = 9 + VectorSize(item)
    BY <1>7, <2>4 DEF BoxInv
  <2>7. \A k \in {1, 2} : extent[k] \in Int /\ extent[k] >= 9
    <3>1. WindowWidth \div 4 \in Int /\ WindowWidth \div 4 >= 9
      BY <1>7, SvgBuilderAssumption DEF kMarkerHalfSize
    <3> QED
      BY <2>3, <2>6, <3>1
  <2>8. ASSUME NEW k \in {1, 2}, NEW c \in {tags[i].from[k], tags[i].to[k]}
        PROVE  c - corner[k] \in 0..extent[k]
    <3>1. c = near[k] - 4 \/ c = near[k] + 4
      BY <2>1, <2>2
    <3>2. near[k] \in Int /\ corner[k] = near[k] - 5
      BY <1>4, <2>5
    <3>3. c - corner[k] = 1 \/ c - corner[k] = 9
      BY <3>1, <3>2
    <3> QED
      BY <2>7, <3>3
  <2> QED
    BY <2>8
<1> QED
  BY <1>6, <1>7

\* The lines of a vector, and the marker of one that is a single point, are
\* inside its SVG, wherever its points are, as long as an int measures its box.
THEOREM ShapesStayInBox == Spec => []ShapesInBox
<1>1. Init => BoxInv
  BY BoxInit
<1>2. StateTyped /\ BoxInv /\ [Next]_vars => BoxInv'
  BY BoxStep DEF StateTyped, AskInv
<1> QED
  BY TypeInvariance, <1>1, <1>2, BoxHoldsShapes, PTL DEF Spec

=============================================================================
