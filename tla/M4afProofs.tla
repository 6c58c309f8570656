---------------------------- MODULE M4afProofs ------------------------------
(***************************************************************************)
(* What the M4A writer does for all samples, however many, and for every   *)
(* size of its block, its moov box and its offsets: the lemmas about sums  *)
(* and about the words of a file, the types, and that sample table, chunk  *)
(* table, chunk buffer and file position agree after every call, also      *)
(* while the media data and with them the offsets are moved.               *)
(***************************************************************************)
EXTENDS M4af, SequenceTheorems, WellFoundedInduction, TLAPS

-----------------------------------------------------------------------------
(* Numbers *)

(* A nonempty set of natural numbers has a least element. *)
LEMMA LeastElement ==
    ASSUME NEW T, T \subseteq Nat, T # {}
    PROVE  \E x \in T : \A y \in T : x <= y
  <1> DEFINE R == OpToRel(<, Nat)
  <1>1. IsWellFoundedOn(R, Nat)
    BY NatLessThanWellFounded
  <1>2. \A x, y \in Nat : y < x => <<y, x>> \in R
    BY DEF OpToRel
  <1> HIDE DEF R
  <1>3. PICK x \in T : \A y \in T : ~(<<y, x>> \in R)
    BY <1>1, WFMin
  <1>4. ASSUME NEW y \in T PROVE x <= y
    <2>1. x \in Nat /\ y \in Nat
      OBVIOUS
    <2>2. ~(y < x)
      BY <1>2, <1>3, <2>1
    <2> QED
      BY <2>1, <2>2
  <1> QED
    BY <1>4

(* Induction over the numbers, with a set for the formula. *)
LEMMA NatUpTo ==
    ASSUME NEW T, T \subseteq Nat, 0 \in T, \A n \in T : n + 1 \in T
    PROVE  T = Nat
  <1> SUFFICES ASSUME T # Nat PROVE FALSE
    OBVIOUS
  <1>1. PICK n \in Nat \ T : \A m \in Nat \ T : n <= m
    <2>1. Nat \ T # {} /\ Nat \ T \subseteq Nat
      OBVIOUS
    <2> QED
      BY <2>1, LeastElement
  <1>2. n # 0 /\ n - 1 \in Nat /\ n - 1 < n
    BY <1>1
  <1>3. n - 1 \in T
    BY <1>1, <1>2
  <1> QED
    BY <1>1, <1>2, <1>3

(* The least of a set of numbers. *)
LEMMA MinFacts ==
    ASSUME NEW T, T \subseteq Nat, T # {}
    PROVE  Min(T) \in T /\ \A y \in T : Min(T) <= y
  BY LeastElement DEF Min

(* The larger of two numbers. *)
LEMMA MaxOfTwo ==
    ASSUME NEW a \in Int, NEW b \in Int
    PROVE  Max({a, b}) = IF a >= b THEN a ELSE b
  <1> DEFINE m == IF a >= b THEN a ELSE b
  <1>1. m \in {a, b} /\ \A y \in {a, b} : m >= y
    OBVIOUS
  <1>2. \A x \in {a, b} : (\A y \in {a, b} : x >= y) => x = m
    OBVIOUS
  <1> HIDE DEF m
  <1>3. Max({a, b}) = m
    BY <1>1, <1>2 DEF Max
  <1> QED
    BY <1>3 DEF m

-----------------------------------------------------------------------------
(* The function Sum *)

Shorter(f) == SubSeq(f, 1, Len(f) - 1)

(* What Sum[f] is in terms of the sum of a shorter sequence. *)
SumStep(g, f) == IF f = << >> THEN 0 ELSE g[Shorter(f)] + f[Len(f)]

UpTo(n) == {f \in Seq(Nat) : Len(f) <= n}

(* The functions that sum every sequence of at most n numbers. *)
SumsUpTo(n) == {g \in [UpTo(n) -> Nat] : \A f \in UpTo(n) : g[f] = SumStep(g, f)}

(* A sequence without its last element. *)
LEMMA ShorterFacts ==
    ASSUME NEW f \in Seq(Nat), f # << >>
    PROVE  /\ Shorter(f) \in Seq(Nat) /\ Len(Shorter(f)) = Len(f) - 1
           /\ Len(f) \in Nat \ {0} /\ f[Len(f)] \in Nat
           /\ \A i \in 1 .. Len(f) - 1 : Shorter(f)[i] = f[i]
  <1>1. Len(f) \in Nat /\ Len(f) # 0
    OBVIOUS
  <1>2. f[Len(f)] \in Nat
    BY <1>1
  <1>3. \A i \in 1 .. Len(f) - 1 : f[i] \in Nat
    BY <1>1
  <1>4. /\ Shorter(f) \in Seq(Nat)
        /\ Len(Shorter(f)) = IF 1 <= Len(f) - 1 THEN Len(f) - 1 - 1 + 1 ELSE 0
        /\ \A i \in 1 .. Len(f) - 1 - 1 + 1 : Shorter(f)[i] = f[1 + i - 1]
    BY <1>1, <1>3, SubSeqProperties, SMTT(30) DEF Shorter
  <1>5. Len(Shorter(f)) = Len(f) - 1
    <2>1. CASE 1 <= Len(f) - 1
      <3>1. Len(Shorter(f)) = Len(f) - 1 - 1 + 1
        BY <1>4, <2>1, Zenon
      <3> QED
        BY <1>1, <3>1
    <2>2. CASE ~(1 <= Len(f) - 1)
      <3>1. Len(Shorter(f)) = 0
        BY <1>4, <2>2, Zenon
      <3>2. \A n \in Nat : n # 0 /\ ~(1 <= n - 1) => n - 1 = 0
        OBVIOUS
      <3>3. Len(f) - 1 = 0
        BY <1>1, <2>2, <3>2, Zenon
      <3> QED
        BY <3>1, <3>3
    <2> QED
      BY <2>1, <2>2
  <1>6. \A i \in 1 .. Len(f) - 1 : i \in 1 .. Len(f) - 1 - 1 + 1 /\ 1 + i - 1 = i
    BY <1>1
  <1> QED
    BY <1>1, <1>2, <1>4, <1>5, <1>6

(* For every length there is a function that sums the sequences up to it. *)
LEMMA SumsExist ==
    ASSUME NEW n \in Nat
    PROVE  SumsUpTo(n) # {}
  <1> DEFINE T == {k \in Nat : SumsUpTo(k) # {}}
  <1>1. 0 \in T
    <2> DEFINE g == [f \in UpTo(0) |-> 0]
    <2>1. \A f \in UpTo(0) : f = << >>
      BY DEF UpTo
    <2>2. g \in SumsUpTo(0)
      BY <2>1 DEF SumsUpTo, SumStep
    <2> QED
      BY <2>2
  <1>2. ASSUME NEW k \in T
        PROVE  k + 1 \in T
    <2>1. PICK g \in SumsUpTo(k) : TRUE
      OBVIOUS
    <2>2. g \in [UpTo(k) -> Nat] /\ \A f \in UpTo(k) : g[f] = SumStep(g, f)
      BY DEF SumsUpTo
    <2> DEFINE h == [f \in UpTo(k + 1) |-> SumStep(g, f)]
    <2>3. ASSUME NEW f \in UpTo(k + 1)
          PROVE  h[f] \in Nat /\ h[f] = SumStep(h, f)
      <3>1. h[f] = SumStep(g, f)
        OBVIOUS
      <3>2. CASE f = << >>
        BY <3>1, <3>2 DEF SumStep
      <3>3. CASE f # << >>
        <4>1. f \in Seq(Nat) /\ Len(f) <= k + 1
          BY DEF UpTo
        <4>2. Shorter(f) \in UpTo(k) /\ Shorter(f) \in UpTo(k + 1) /\ f[Len(f)] \in Nat
          BY <3>3, <4>1, ShorterFacts DEF UpTo
        <4>3. h[Shorter(f)] = g[Shorter(f)] /\ g[Shorter(f)] \in Nat
          BY <2>2, <4>2
        <4> HIDE DEF h
        <4> QED
          BY <3>1, <3>3, <4>2, <4>3 DEF SumStep
      <3> QED
        BY <3>2, <3>3
    <2>4. h \in SumsUpTo(k + 1)
      BY <2>3 DEF SumsUpTo
    <2> QED
      BY <2>4
  <1> HIDE DEF T
  <1>3. T \subseteq Nat
    BY DEF T
  <1>4. T = Nat
    BY <1>1, <1>2, <1>3, NatUpTo
  <1> QED
    BY <1>4 DEF T

(* Two such functions agree where both are defined. *)
LEMMA SumsAgree ==
    ASSUME NEW m \in Nat, NEW n \in Nat, NEW g \in SumsUpTo(m), NEW h \in SumsUpTo(n),
           NEW f \in UpTo(m), f \in UpTo(n)
    PROVE  g[f] = h[f]
  <1> DEFINE T == {k \in Nat : \A s \in UpTo(m) \intersect UpTo(n) :
                                  Len(s) <= k => g[s] = h[s]}
  <1>1. /\ \A s \in UpTo(m) : g[s] = SumStep(g, s)
        /\ \A s \in UpTo(n) : h[s] = SumStep(h, s)
    BY DEF SumsUpTo
  <1>2. 0 \in T
    <2>1. ASSUME NEW s \in UpTo(m) \intersect UpTo(n), Len(s) <= 0
          PROVE  g[s] = h[s]
      <3>1. s = << >>
        BY <2>1 DEF UpTo
      <3> QED
        BY <1>1, <3>1 DEF SumStep
    <2> QED
      BY <2>1
  <1>3. ASSUME NEW k \in T
        PROVE  k + 1 \in T
    <2>1. ASSUME NEW s \in UpTo(m) \intersect UpTo(n), Len(s) <= k + 1
          PROVE  g[s] = h[s]
      <3>1. CASE s = << >>
        BY <1>1, <3>1 DEF SumStep
      <3>2. CASE s # << >>
        <4>1. s \in Seq(Nat) /\ Len(s) <= m /\ Len(s) <= n
          BY DEF UpTo
        <4>2. Shorter(s) \in UpTo(m) \intersect UpTo(n) /\ Len(Shorter(s)) <= k
          BY <2>1, <3>2, <4>1, ShorterFacts DEF UpTo
        <4>3. g[Shorter(s)] = h[Shorter(s)]
          BY <4>2
        <4> QED
          BY <1>1, <3>2, <4>3 DEF SumStep
      <3> QED
        BY <3>1, <3>2
    <2> QED
      BY <2>1
  <1> HIDE DEF T
  <1>4. T \subseteq Nat
    BY DEF T
  <1>5. T = Nat
    BY <1>2, <1>3, <1>4, NatUpTo
  <1>6. Len(f) \in T
    BY <1>5 DEF UpTo
  <1> QED
    BY <1>6 DEF T

(* The recursive definition has the function it describes. *)
LEMMA SumDefined ==
    /\ Sum \in [Seq(Nat) -> Nat]
    /\ \A f \in Seq(Nat) : Sum[f] = SumStep(Sum, f)
  <1> DEFINE Pick(n) == CHOOSE g \in SumsUpTo(n) : TRUE
             s == [f \in Seq(Nat) |-> Pick(Len(f))[f]]
  <1>1. ASSUME NEW n \in Nat
        PROVE  Pick(n) \in SumsUpTo(n)
    BY <1>1, SumsExist
  <1> HIDE DEF Pick
  <1>2. ASSUME NEW f \in Seq(Nat)
        PROVE  s[f] \in Nat /\ s[f] = SumStep(s, f)
    <2>1. Len(f) \in Nat /\ f \in UpTo(Len(f))
      BY DEF UpTo
    <2>2. s[f] = Pick(Len(f))[f] /\ Pick(Len(f)) \in SumsUpTo(Len(f))
      BY <1>1, <2>1
    <2>3. s[f] \in Nat /\ s[f] = SumStep(Pick(Len(f)), f)
      BY <2>1, <2>2 DEF SumsUpTo
    <2>4. CASE f = << >>
      BY <2>3, <2>4 DEF SumStep
    <2>5. CASE f # << >>
      <3>1. /\ Shorter(f) \in Seq(Nat) /\ Len(Shorter(f)) = Len(f) - 1 /\ Len(f) - 1 \in Nat
        BY <2>5, ShorterFacts
      <3>2. Shorter(f) \in UpTo(Len(f)) /\ Shorter(f) \in UpTo(Len(f) - 1)
        BY <2>1, <3>1 DEF UpTo
      <3>3. s[Shorter(f)] = Pick(Len(f) - 1)[Shorter(f)]
        BY <3>1
      <3>4. Pick(Len(f) - 1)[Shorter(f)] = Pick(Len(f))[Shorter(f)]
        BY <1>1, <2>1, <2>2, <3>1, <3>2, SumsAgree
      <3> HIDE DEF s
      <3> QED
        BY <2>3, <2>5, <3>3, <3>4 DEF SumStep
    <2> QED
      BY <2>4, <2>5
  <1>3. s = [f \in Seq(Nat) |-> IF f = << >> THEN 0
                                ELSE s[SubSeq(f, 1, Len(f) - 1)] + f[Len(f)]]
    <2>1. \A f \in Seq(Nat) : s[f] = IF f = << >> THEN 0
                                     ELSE s[SubSeq(f, 1, Len(f) - 1)] + f[Len(f)]
      BY <1>2 DEF SumStep, Shorter
    <2>2. s = [f \in Seq(Nat) |-> s[f]]
      OBVIOUS
    <2> HIDE DEF s
    <2> QED
      BY <2>1, <2>2
  <1> HIDE DEF s
  <1>4. Sum = [f \in Seq(Nat) |-> IF f = << >> THEN 0
                                  ELSE Sum[SubSeq(f, 1, Len(f) - 1)] + f[Len(f)]]
    BY <1>3, Zenon DEF Sum
  <1>5. \A f \in Seq(Nat) : Sum[f] = SumStep(Sum, f)
    <2>1. \A f \in Seq(Nat) : Sum[f] = IF f = << >> THEN 0
                                       ELSE Sum[SubSeq(f, 1, Len(f) - 1)] + f[Len(f)]
      BY <1>4, Zenon
    <2> QED
      BY <2>1 DEF SumStep, Shorter
  <1> DEFINE T == {k \in Nat : \A f \in UpTo(k) : Sum[f] \in Nat}
  <1>6. 0 \in T
    BY <1>5 DEF UpTo, SumStep
  <1>7. ASSUME NEW k \in T
        PROVE  k + 1 \in T
    <2>1. ASSUME NEW f \in UpTo(k + 1)
          PROVE  Sum[f] \in Nat
      <3>1. CASE f = << >>
        <4>1. Sum[f] = SumStep(Sum, f)
          BY <1>5 DEF UpTo
        <4> QED
          BY <3>1, <4>1 DEF SumStep
      <3>2. CASE f # << >>
        <4>1. f \in Seq(Nat) /\ Shorter(f) \in UpTo(k) /\ f[Len(f)] \in Nat
          BY <3>2, ShorterFacts DEF UpTo
        <4>2. Sum[Shorter(f)] \in Nat
          BY <4>1
        <4> QED
          BY <1>5, <3>2, <4>1, <4>2 DEF SumStep
      <3> QED
        BY <3>1, <3>2
    <2> QED
      BY <2>1
  <1> HIDE DEF T
  <1>8. T = Nat
    <2>1. T \subseteq Nat
      BY DEF T
    <2> QED
      BY <1>6, <1>7, <2>1, NatUpTo
  <1>9. ASSUME NEW f \in Seq(Nat)
        PROVE  Sum[f] \in Nat
    <2>1. Len(f) \in T /\ f \in UpTo(Len(f))
      BY <1>8 DEF UpTo
    <2>2. \A g \in UpTo(Len(f)) : Sum[g] \in Nat
      BY <2>1 DEF T
    <2> QED
      BY <2>1, <2>2
  <1>10. Sum \in [Seq(Nat) -> Nat]
    BY <1>4, <1>9
  <1> QED
    BY <1>5, <1>10

-----------------------------------------------------------------------------
(* Sums *)

(* The first n elements of a sequence. *)
LEMMA PrefixFacts ==
    ASSUME NEW S, NEW f \in Seq(S), NEW n \in 0 .. Len(f)
    PROVE  /\ SubSeq(f, 1, n) \in Seq(S) /\ Len(SubSeq(f, 1, n)) = n
           /\ \A i \in 1 .. n : SubSeq(f, 1, n)[i] = f[i]
  <1>1. Len(f) \in Nat /\ n \in Nat /\ n <= Len(f)
    OBVIOUS
  <1>2. \A i \in 1 .. n : f[i] \in S
    BY <1>1
  <1>3. /\ SubSeq(f, 1, n) \in Seq(S)
        /\ Len(SubSeq(f, 1, n)) = IF 1 <= n THEN n - 1 + 1 ELSE 0
        /\ \A i \in 1 .. n - 1 + 1 : SubSeq(f, 1, n)[i] = f[1 + i - 1]
    BY <1>1, <1>2, SubSeqProperties, SMTT(30)
  <1>4. /\ (IF 1 <= n THEN n - 1 + 1 ELSE 0) = n
        /\ n - 1 + 1 = n /\ \A i \in 1 .. n : 1 + i - 1 = i
    BY <1>1
  <1>5. \A i \in 1 .. n : SubSeq(f, 1, n)[i] = f[i]
    BY <1>3, <1>4
  <1> QED
    BY <1>3, <1>4, <1>5

(* The sum of the first 0 elements. *)
LEMMA SumOfNone ==
    ASSUME NEW f \in Seq(Nat)
    PROVE  SumTo(f, 0) = 0
  <1>1. SubSeq(f, 1, 0) = << >>
    BY SubSeqEmpty
  <1>2. Sum[<< >>] = SumStep(Sum, << >>)
    BY EmptySeq, SumDefined
  <1> QED
    BY <1>1, <1>2 DEF SumTo, SumStep

(* A sum of natural numbers is one. *)
LEMMA SumIsNat ==
    ASSUME NEW f \in Seq(Nat), NEW n \in 0 .. Len(f)
    PROVE  SumTo(f, n) \in Nat
  <1>1. SubSeq(f, 1, n) \in Seq(Nat)
    BY PrefixFacts
  <1> QED
    BY <1>1, SumDefined DEF SumTo

(* A sum only depends on the elements it adds. *)
LEMMA SumOfPrefix ==
    ASSUME NEW f \in Seq(Nat), NEW g \in Seq(Nat), NEW n \in 0 .. Len(f), n <= Len(g),
           \A i \in 1 .. n : f[i] = g[i]
    PROVE  SumTo(f, n) = SumTo(g, n)
  <1>1. n \in 0 .. Len(g)
    OBVIOUS
  <1> DEFINE s == SubSeq(f, 1, n)
             t == SubSeq(g, 1, n)
  <1>2. /\ s \in Seq(Nat) /\ Len(s) = n /\ \A i \in 1 .. n : s[i] = f[i]
        /\ t \in Seq(Nat) /\ Len(t) = n /\ \A i \in 1 .. n : t[i] = g[i]
    BY <1>1, PrefixFacts
  <1> HIDE DEF s, t
  <1>3. s = t
    BY <1>2, SeqEqual
  <1> QED
    BY <1>3 DEF SumTo, s, t

(* A sum of n elements is the sum of those before the last, and the last. *)
LEMMA SumOfOneMore ==
    ASSUME NEW f \in Seq(Nat), NEW n \in 1 .. Len(f)
    PROVE  SumTo(f, n) = SumTo(f, n - 1) + f[n]
  <1>1. n \in 0 .. Len(f) /\ n - 1 \in 0 .. Len(f) /\ n - 1 \in 0 .. n /\ Len(f) \in Nat
    OBVIOUS
  <1> DEFINE s == SubSeq(f, 1, n)
             t == SubSeq(f, 1, n - 1)
  <1>2. /\ s \in Seq(Nat) /\ Len(s) = n /\ \A i \in 1 .. n : s[i] = f[i]
        /\ t \in Seq(Nat) /\ Len(t) = n - 1 /\ \A i \in 1 .. n - 1 : t[i] = f[i]
    BY <1>1, PrefixFacts
  <1> HIDE DEF s, t
  <1>3. s # << >>
    BY <1>2
  <1>4. /\ Shorter(s) \in Seq(Nat) /\ Len(Shorter(s)) = n - 1
        /\ \A i \in 1 .. n - 1 : Shorter(s)[i] = s[i]
    BY <1>2, <1>3, ShorterFacts
  <1>5. \A i \in 1 .. n - 1 : i \in 1 .. n
    BY <1>1
  <1>6. \A i \in 1 .. n - 1 : Shorter(s)[i] = t[i]
    BY <1>2, <1>4, <1>5
  <1>7. Shorter(s) = t
    BY <1>2, <1>4, <1>6, SeqEqual
  <1>8. Sum[s] = Sum[t] + s[n]
    <2>1. Sum[s] = SumStep(Sum, s)
      BY <1>2, SumDefined
    <2> QED
      BY <2>1, <1>2, <1>3, <1>7 DEF SumStep
  <1>9. s[n] = f[n]
    BY <1>2
  <1> QED
    BY <1>8, <1>9 DEF SumTo, s, t

(* A sum does not change when an element is appended behind it. *)
LEMMA SumAppend ==
    ASSUME NEW f \in Seq(Nat), NEW x \in Nat
    PROVE  /\ SumTo(Append(f, x), Len(f) + 1) = SumTo(f, Len(f)) + x
           /\ \A n \in 0 .. Len(f) : SumTo(Append(f, x), n) = SumTo(f, n)
  <1> DEFINE g == Append(f, x)
  <1>1. /\ g \in Seq(Nat) /\ Len(g) = Len(f) + 1 /\ Len(f) \in Nat
        /\ \A i \in 1 .. Len(f) : g[i] = f[i]
        /\ g[Len(f) + 1] = x
    BY AppendProperties
  <1> HIDE DEF g
  <1>2. ASSUME NEW n \in 0 .. Len(f)
        PROVE  SumTo(g, n) = SumTo(f, n)
    <2>1. n <= Len(g) /\ \A i \in 1 .. n : f[i] = g[i]
      BY <1>1
    <2> QED
      BY <1>1, <2>1, SumOfPrefix
  <1>3. SumTo(g, Len(f) + 1) = SumTo(g, Len(f)) + g[Len(f) + 1]
    <2>1. Len(f) + 1 \in 1 .. Len(g) /\ Len(f) + 1 - 1 = Len(f)
      BY <1>1
    <2> QED
      BY <1>1, <2>1, SumOfOneMore
  <1>4. Len(f) \in 0 .. Len(f)
    BY <1>1
  <1> QED
    BY <1>1, <1>2, <1>3, <1>4 DEF g

(* A longer sum is not smaller. *)
LEMMA SumGrows ==
    ASSUME NEW f \in Seq(Nat), NEW n \in 0 .. Len(f), NEW m \in 0 .. n
    PROVE  SumTo(f, m) <= SumTo(f, n)
  <1> DEFINE T == {k \in Nat : m + k <= Len(f) => SumTo(f, m) <= SumTo(f, m + k)}
  <1>0. m \in Nat /\ n \in Nat /\ Len(f) \in Nat /\ m <= n /\ n <= Len(f)
    OBVIOUS
  <1>1. 0 \in T
    <2>1. m + 0 = m /\ SumTo(f, m) \in Nat
      BY <1>0, SumIsNat
    <2> QED
      BY <2>1
  <1>2. ASSUME NEW k \in T
        PROVE  k + 1 \in T
    <2>1. ASSUME m + (k + 1) <= Len(f)
          PROVE  SumTo(f, m) <= SumTo(f, m + (k + 1))
      <3>1. /\ m + (k + 1) \in 1 .. Len(f) /\ (m + (k + 1)) - 1 = m + k
            /\ m + k \in 0 .. Len(f) /\ m + k <= Len(f)
        BY <1>0, <2>1
      <3>2. f[m + (k + 1)] \in Nat
        BY <3>1
      <3>3. SumTo(f, m + (k + 1)) = SumTo(f, m + k) + f[m + (k + 1)]
        BY <3>1, SumOfOneMore
      <3>4. SumTo(f, m) \in Nat /\ SumTo(f, m + k) \in Nat /\ SumTo(f, m) <= SumTo(f, m + k)
        BY <1>0, <3>1, SumIsNat
      <3> QED
        BY <3>2, <3>3, <3>4
    <2> QED
      BY <2>1
  <1> HIDE DEF T
  <1>3. T = Nat
    <2>1. T \subseteq Nat
      BY DEF T
    <2> QED
      BY <1>1, <1>2, <2>1, NatUpTo
  <1>4. n - m \in T /\ m + (n - m) = n
    BY <1>0, <1>3
  <1> QED
    BY <1>0, <1>4 DEF T

-----------------------------------------------------------------------------
(* The file *)

(* A sequence, whatever its elements are. *)
IsSeq(f) == Len(f) \in Nat /\ f = [i \in 1 .. Len(f) |-> f[i]]

(* The word at position p of a file. *)
At(f, p) == IF p < Len(f) THEN f[p + 1] ELSE <<"none", 0>>

(* A function on 1 .. n is a sequence. *)
LEMMA IsSeqOfFunction ==
    ASSUME NEW n \in Nat, NEW g, g = [i \in 1 .. n |-> g[i]]
    PROVE  IsSeq(g) /\ Len(g) = n
  <1> DEFINE S == {g[i] : i \in 1 .. n}
  <1>1. g \in [1 .. n -> S]
    OBVIOUS
  <1> HIDE DEF S
  <1>2. g \in Seq(S)
    BY <1>1, SeqDef
  <1>3. Len(g) \in Nat /\ DOMAIN g = 1 .. Len(g) /\ DOMAIN g = 1 .. n
    BY <1>1, <1>2, LenProperties
  <1>4. Len(g) = n
    BY <1>3
  <1> QED
    BY <1>4 DEF IsSeq

(* What Seq holds is a sequence in this sense, *)
LEMMA IsSeqOfSeq ==
    ASSUME NEW S, NEW f \in Seq(S)
    PROVE  IsSeq(f)
  BY LenProperties DEF IsSeq

(* and the other way round, with its elements. *)
LEMMA SeqOfIsSeq ==
    ASSUME NEW f, IsSeq(f), NEW S, \A i \in 1 .. Len(f) : f[i] \in S
    PROVE  f \in Seq(S)
  BY SeqDef DEF IsSeq

(* What writing ws at position p does to a file: its length, the words *)
(* written and the words left alone.                                   *)
LEMMA OverlayFacts ==
    ASSUME NEW f, IsSeq(f), NEW ws, IsSeq(ws), NEW p \in Nat
    PROVE  /\ IsSeq(Overlay(f, p, ws))
           /\ Len(Overlay(f, p, ws)) =
                 IF Len(f) >= p + Len(ws) THEN Len(f) ELSE p + Len(ws)
           /\ \A q \in Nat : 
                 At(Overlay(f, p, ws), q) =
                    IF p <= q /\ q < p + Len(ws) THEN ws[q - p + 1]
                    ELSE IF q < Len(f) THEN f[q + 1]
                    ELSE IF q < p THEN <<"fill", 0>> ELSE <<"none", 0>>
  <1> DEFINE e(i) == IF i \in p + 1 .. p + Len(ws) THEN ws[i - p]
                     ELSE IF i <= Len(f) THEN f[i] ELSE <<"fill", 0>>
             n == IF Len(f) >= p + Len(ws) THEN Len(f) ELSE p + Len(ws)
  <1>1. Len(f) \in Nat /\ Len(ws) \in Nat
    BY DEF IsSeq
  <1>2. n \in Nat /\ Max({Len(f), p + Len(ws)}) = n
    BY <1>1, MaxOfTwo
  <1>3. Overlay(f, p, ws) = [i \in 1 .. n |-> e(i)]
    BY <1>2 DEF Overlay
  <1> HIDE DEF e, n
  <1> DEFINE g == [i \in 1 .. n |-> e(i)]
  <1>4. IsSeq(g) /\ Len(g) = n
    BY <1>2, IsSeqOfFunction, Zenon
  <1>5. ASSUME NEW q \in Nat
        PROVE  At(g, q) = IF p <= q /\ q < p + Len(ws) THEN ws[q - p + 1]
                          ELSE IF q < Len(f) THEN f[q + 1]
                          ELSE IF q < p THEN <<"fill", 0>> ELSE <<"none", 0>>
    <2>1. q < n => At(g, q) = e(q + 1)
      <3>1. q < n => q + 1 \in 1 .. n
        BY <1>2
      <3> QED
        BY <1>4, <3>1 DEF At
    <2>2. ~(q < n) => At(g, q) = <<"none", 0>>
      BY <1>4 DEF At
    <2>3. e(q + 1) = IF p <= q /\ q < p + Len(ws) THEN ws[q - p + 1]
                     ELSE IF q < Len(f) THEN f[q + 1] ELSE <<"fill", 0>>
      <3>1. q + 1 \in p + 1 .. p + Len(ws) <=> p <= q /\ q < p + Len(ws)
        BY <1>1
      <3>2. q + 1 <= Len(f) <=> q < Len(f)
        BY <1>1
      <3>3. q + 1 - p = q - p + 1
        OBVIOUS
      <3> QED
        BY <3>1, <3>2, <3>3 DEF e
    <2>4. q < n <=> q < Len(f) \/ q < p + Len(ws)
      BY <1>1 DEF n
    <2>5. q < p + Len(ws) /\ ~(p <= q) => q < p
      BY <1>1
    <2>6. q < p => q < p + Len(ws)
      BY <1>1
    <2> QED
      BY <2>1, <2>2, <2>3, <2>4, <2>5, <2>6
  <1> QED
    BY <1>3, <1>4, <1>5 DEF n

(* A size word holds a number. *)
SizeOK(w) == w[1] = "size" => w[2] \in Nat

(* A file: a sequence of words, the size words of which hold numbers. *)
IsWords(f) == IsSeq(f) /\ \A i \in 1 .. Len(f) : SizeOK(f[i])

(* Writing words to a file of words. *)
LEMMA OverlayIsWords ==
    ASSUME NEW f, IsWords(f), NEW ws, IsWords(ws), NEW p \in Nat
    PROVE  IsWords(Overlay(f, p, ws))
  <1> DEFINE g == Overlay(f, p, ws)
  <1>1. /\ IsSeq(f) /\ IsSeq(ws) /\ Len(f) \in Nat /\ Len(ws) \in Nat
        /\ \A i \in 1 .. Len(f) : SizeOK(f[i])
        /\ \A i \in 1 .. Len(ws) : SizeOK(ws[i])
    BY DEF IsWords, IsSeq
  <1>2. /\ IsSeq(g)
        /\ Len(g) = IF Len(f) >= p + Len(ws) THEN Len(f) ELSE p + Len(ws)
        /\ \A q \in Nat : 
              At(g, q) = IF p <= q /\ q < p + Len(ws) THEN ws[q - p + 1]
                         ELSE IF q < Len(f) THEN f[q + 1]
                         ELSE IF q < p THEN <<"fill", 0>> ELSE <<"none", 0>>
    BY <1>1, OverlayFacts
  <1> HIDE DEF g
  <1>3. ASSUME NEW i \in 1 .. Len(g)
        PROVE  SizeOK(g[i])
    <2>1. Len(g) \in Nat /\ i - 1 \in Nat /\ i - 1 < Len(g) /\ i - 1 + 1 = i
      BY <1>1, <1>2
    <2>2. g[i] = At(g, i - 1)
      BY <2>1 DEF At
    <2>3. CASE p <= i - 1 /\ i - 1 < p + Len(ws)
      <3>1. i - 1 - p + 1 \in 1 .. Len(ws) /\ g[i] = ws[i - 1 - p + 1]
        BY <1>1, <1>2, <2>1, <2>2, <2>3
      <3> QED
        BY <1>1, <3>1
    <2>4. CASE ~(p <= i - 1 /\ i - 1 < p + Len(ws)) /\ i - 1 < Len(f)
      <3>1. i - 1 + 1 \in 1 .. Len(f) /\ g[i] = f[i - 1 + 1]
        BY <1>1, <1>2, <2>1, <2>2, <2>4
      <3> QED
        BY <1>1, <3>1
    <2>5. CASE ~(p <= i - 1 /\ i - 1 < p + Len(ws)) /\ ~(i - 1 < Len(f))
      <3>1. g[i] \in {<<"fill", 0>>, <<"none", 0>>}
        BY <1>2, <2>1, <2>2, <2>5
      <3> QED
        BY <3>1 DEF SizeOK
    <2> QED
      BY <2>3, <2>4, <2>5
  <1> QED
    BY <1>2, <1>3 DEF IsWords, g

(* Two sequences behind each other. *)
LEMMA ConcatIsSeq ==
    ASSUME NEW f, IsSeq(f), NEW g, IsSeq(g)
    PROVE  /\ IsSeq(f \o g) /\ Len(f \o g) = Len(f) + Len(g)
           /\ \A i \in 1 .. Len(f) + Len(g) :
                 (f \o g)[i] = IF i <= Len(f) THEN f[i] ELSE g[i - Len(f)]
  <1> DEFINE S == {f[i] : i \in 1 .. Len(f)} \union {g[i] : i \in 1 .. Len(g)}
  <1>1. f \in Seq(S)
    <2>1. \A i \in 1 .. Len(f) : f[i] \in S
      OBVIOUS
    <2> QED
      BY <2>1, SeqOfIsSeq
  <1>2. g \in Seq(S)
    <2>1. \A i \in 1 .. Len(g) : g[i] \in S
      OBVIOUS
    <2> QED
      BY <2>1, SeqOfIsSeq
  <1> HIDE DEF S
  <1> QED
    BY <1>1, <1>2, ConcatProperties, IsSeqOfSeq

(* The same, for sequences of known lengths. *)
LEMMA ConcatOfLen ==
    ASSUME NEW f, IsSeq(f), NEW g, IsSeq(g),
           NEW m \in Nat, Len(f) = m, NEW n \in Nat, Len(g) = n
    PROVE  /\ IsSeq(f \o g) /\ Len(f \o g) = m + n
           /\ \A i \in 1 .. m + n : (f \o g)[i] = IF i <= m THEN f[i] ELSE g[i - m]
  BY ConcatIsSeq

(* The empty file. *)
LEMMA EmptyIsWords == IsSeq(<< >>) /\ IsWords(<< >>) /\ Len(<< >>) = 0
  <1>1. << >> \in Seq(Nat) /\ Len(<< >>) = 0
    BY EmptySeq
  <1>2. IsSeq(<< >>)
    BY <1>1, IsSeqOfSeq
  <1> QED
    BY <1>1, <1>2 DEF IsWords

(* Tuples as sequences. *)
LEMMA ShortSeqs ==
    ASSUME NEW a, NEW b, NEW c, NEW d
    PROVE  /\ IsSeq(<<a>>) /\ Len(<<a>>) = 1
           /\ IsSeq(<<a, b>>) /\ Len(<<a, b>>) = 2
           /\ IsSeq(<<a, b, c, d>>) /\ Len(<<a, b, c, d>>) = 4
  <1> DEFINE S == {a, b, c, d}
  <1>1. <<a>> \in Seq(S) /\ <<a, b>> \in Seq(S) /\ <<a, b, c, d>> \in Seq(S)
    OBVIOUS
  <1> HIDE DEF S
  <1> QED
    BY <1>1, IsSeqOfSeq

(* Fill words. *)
LEMMA FillFacts ==
    ASSUME NEW n \in Nat
    PROVE  /\ IsSeq(Fill(n)) /\ Len(Fill(n)) = n
           /\ \A i \in 1 .. n : Fill(n)[i] = <<"fill", 0>>
  <1>1. Fill(n) = [i \in 1 .. n |-> Fill(n)[i]]
    BY DEF Fill
  <1>2. \A i \in 1 .. n : Fill(n)[i] = <<"fill", 0>>
    BY DEF Fill
  <1> QED
    BY <1>1, <1>2, IsSeqOfFunction

(* A box is its size word, its type word and its body. *)
LEMMA BoxFacts ==
    ASSUME NEW type, NEW body, IsSeq(body)
    PROVE  /\ IsSeq(Box(type, body)) /\ Len(Box(type, body)) = Len(body) + 2
           /\ Box(type, body)[1] = <<"size", Len(body) + 2>>
           /\ Box(type, body)[2] = <<"type", type>>
           /\ \A i \in 1 .. Len(body) : Box(type, body)[i + 2] = body[i]
  <1> DEFINE h == <<<<"size", Len(body) + 2>>, <<"type", type>>>>
  <1>1. IsSeq(h) /\ Len(h) = 2 /\ Len(body) \in Nat
    BY ShortSeqs DEF IsSeq
  <1>2. h[1] = <<"size", Len(body) + 2>> /\ h[2] = <<"type", type>>
    OBVIOUS
  <1>3. Box(type, body) = h \o body
    BY DEF Box
  <1> HIDE DEF h
  <1>4. /\ IsSeq(h \o body) /\ Len(h \o body) = Len(h) + Len(body)
        /\ \A i \in 1 .. Len(h) + Len(body) :
              (h \o body)[i] = IF i <= Len(h) THEN h[i] ELSE body[i - Len(h)]
    BY <1>1, ConcatIsSeq
  <1>5. ASSUME NEW i \in 1 .. Len(body)
        PROVE  (h \o body)[i + 2] = body[i]
    <2>1. i + 2 \in 1 .. Len(h) + Len(body) /\ ~(i + 2 <= Len(h)) /\ i + 2 - Len(h) = i
      BY <1>1
    <2> QED
      BY <1>4, <2>1
  <1>6. 1 \in 1 .. Len(h) + Len(body) /\ 2 \in 1 .. Len(h) + Len(body) /\ 1 <= Len(h) /\ 2 <= Len(h)
    BY <1>1
  <1>7. (h \o body)[1] = h[1] /\ (h \o body)[2] = h[2]
    BY <1>4, <1>6
  <1> QED
    BY <1>1, <1>2, <1>3, <1>4, <1>5, <1>7

(* The moov box is as long as its size word says, and its third word holds *)
(* the tables.                                                             *)
LEMMA MoovFacts ==
    ASSUME NEW table, Len(table) \in Nat
    PROVE  /\ MoovLen(table) \in Nat /\ MoovLen(table) >= 3
           /\ IsWords(Moov(table)) /\ Len(Moov(table)) = MoovLen(table)
           /\ Moov(table)[1] = <<"size", MoovLen(table)>>
           /\ Moov(table)[2] = <<"type", "moov">>
           /\ Moov(table)[3] = <<"tables", Tables(table)>>
  <1> DEFINE n == MoovLen(table)
             t == <<<<"tables", Tables(table)>>>>
             body == t \o Fill(n - 3)
  <1>1. n \in Nat /\ n >= 3 /\ n - 3 \in Nat
    BY M4afAssumption DEF MoovLen
  <1>2. IsSeq(t) /\ Len(t) = 1 /\ t[1] = <<"tables", Tables(table)>>
    BY ShortSeqs
  <1>3. Moov(table) = Box("moov", body)
    BY DEF Moov
  <1> HIDE DEF n, t
  <1>4. /\ IsSeq(body) /\ Len(body) = 1 + (n - 3)
        /\ \A i \in 1 .. 1 + (n - 3) : 
              body[i] = IF i <= 1 THEN t[i] ELSE Fill(n - 3)[i - 1]
    <2>1. IsSeq(Fill(n - 3)) /\ Len(Fill(n - 3)) = n - 3
      BY <1>1, FillFacts
    <2>2. /\ IsSeq(t \o Fill(n - 3)) /\ Len(t \o Fill(n - 3)) = Len(t) + Len(Fill(n - 3))
          /\ \A i \in 1 .. Len(t) + Len(Fill(n - 3)) :
                (t \o Fill(n - 3))[i] = IF i <= Len(t) THEN t[i]
                                        ELSE Fill(n - 3)[i - Len(t)]
      BY <1>2, <2>1, ConcatIsSeq, Zenon
    <2> QED
      BY <1>2, <2>1, <2>2
  <1> HIDE DEF body
  <1>5. 1 \in 1 .. 1 + (n - 3) /\ 1 + (n - 3) + 2 = n /\ 1 + (n - 3) = n - 2
    BY <1>1
  <1>6. body[1] = <<"tables", Tables(table)>>
    BY <1>2, <1>4, <1>5
  <1>7. ASSUME NEW i \in 1 .. n - 2
        PROVE  SizeOK(body[i])
    <2>1. CASE i = 1
      BY <1>6, <2>1 DEF SizeOK
    <2>2. CASE i # 1
      <3>1. i - 1 \in 1 .. n - 3 /\ ~(i <= 1) /\ i \in 1 .. 1 + (n - 3)
        BY <1>1, <2>2
      <3>2. body[i] = <<"fill", 0>>
        BY <1>1, <1>4, <3>1, FillFacts
      <3> QED
        BY <3>2 DEF SizeOK
    <2> QED
      BY <2>1, <2>2
  <1> DEFINE m == Box("moov", body)
  <1>8. /\ IsSeq(m) /\ Len(m) = n
        /\ m[1] = <<"size", n>> /\ m[2] = <<"type", "moov">>
        /\ \A i \in 1 .. n - 2 : m[i + 2] = body[i]
    BY <1>4, <1>5, BoxFacts
  <1> HIDE DEF m
  <1>9. ASSUME NEW i \in 1 .. n
        PROVE  SizeOK(m[i])
    <2>1. CASE i = 1
      BY <1>1, <1>8, <2>1 DEF SizeOK
    <2>2. CASE i = 2
      BY <1>8, <2>2 DEF SizeOK
    <2>3. CASE i > 2
      <3>1. i - 2 \in 1 .. n - 2 /\ i - 2 + 2 = i
        BY <1>1, <2>3
      <3>2. m[i] = body[i - 2]
        BY <1>8, <3>1
      <3> QED
        BY <1>7, <3>1, <3>2
    <2> QED
      BY <2>1, <2>2, <2>3
  <1>10. m[3] = body[1]
    <2>1. 1 \in 1 .. n - 2 /\ 1 + 2 = 3
      BY <1>1
    <2> QED
      BY <1>8, <2>1
  <1> QED
    BY <1>1, <1>3, <1>6, <1>8, <1>9, <1>10 DEF IsWords, m, n

(* The headers m4af_finalize_mdat() and m4af_shift_mdat_pos() write. *)
LEMMA HeaderFacts ==
    /\ IsWords(FreeAndMdat) /\ Len(FreeAndMdat) = 4
    /\ FreeAndMdat[1] = <<"size", 2>> /\ FreeAndMdat[2] = <<"type", "free">>
    /\ FreeAndMdat[3] = <<"size", 0>> /\ FreeAndMdat[4] = <<"type", "mdat">>
  <1> DEFINE a == Box("free", << >>)
             b == <<<<"size", 0>>, <<"type", "mdat">>>>
  <1>1. /\ IsSeq(a) /\ Len(a) = 2 /\ a[1] = <<"size", 2>> /\ a[2] = <<"type", "free">>
    <2>1. IsSeq(<< >>) /\ Len(<< >>) = 0 /\ 0 + 2 = 2
      BY EmptyIsWords
    <2>2. /\ IsSeq(a) /\ Len(a) = Len(<< >>) + 2
          /\ a[1] = <<"size", Len(<< >>) + 2>> /\ a[2] = <<"type", "free">>
      <3> DEFINE e == << >>
      <3>1. IsSeq(e)
        BY <2>1
      <3> HIDE DEF e
      <3>2. /\ IsSeq(Box("free", e)) /\ Len(Box("free", e)) = Len(e) + 2
            /\ Box("free", e)[1] = <<"size", Len(e) + 2>>
            /\ Box("free", e)[2] = <<"type", "free">>
        BY <3>1, BoxFacts
      <3> QED
        BY <3>2 DEF e
    <2> QED
      BY <2>1, <2>2
  <1>2. /\ IsSeq(b) /\ Len(b) = 2 /\ b[1] = <<"size", 0>> /\ b[2] = <<"type", "mdat">>
    BY ShortSeqs
  <1> HIDE DEF a, b
  <1>3. /\ IsSeq(a \o b) /\ Len(a \o b) = 4
        /\ \A i \in 1 .. 4 : (a \o b)[i] = IF i <= 2 THEN a[i] ELSE b[i - 2]
    BY <1>1, <1>2, ConcatOfLen
  <1>4. /\ (a \o b)[1] = a[1] /\ (a \o b)[2] = a[2]
        /\ (a \o b)[3] = b[1] /\ (a \o b)[4] = b[2]
    BY <1>3
  <1>5. FreeAndMdat = a \o b
    BY DEF FreeAndMdat, a, b
  <1> HIDE DEF FreeAndMdat
  <1>6. ASSUME NEW i \in 1 .. 4
        PROVE  SizeOK(FreeAndMdat[i])
    <2>1. i \in {1, 2, 3, 4}
      OBVIOUS
    <2>2. FreeAndMdat[i] \in {<<"size", 2>>, <<"type", "free">>, <<"size", 0>>, <<"type", "mdat">>}
      BY <1>1, <1>2, <1>4, <1>5, <2>1
    <2> QED
      BY <2>2 DEF SizeOK
  <1> QED
    BY <1>1, <1>2, <1>3, <1>4, <1>5, <1>6 DEF IsWords

Head0 == Box("ftyp", Fill(6)) \o FreeAndMdat

(* What m4af_begin_write() writes: 12 words. *)
LEMMA HeadFacts ==
    /\ IsWords(Head0) /\ Len(Head0) = 12
    /\ Head0[1] = <<"size", 8>> /\ Head0[2] = <<"type", "ftyp">>
    /\ \A i \in 1 .. 4 : Head0[i + 8] = FreeAndMdat[i]
  <1> DEFINE six == 6
             eight == 8
             four == 4
             fill == Fill(six)
             a == Box("ftyp", fill)
  <1>0. six \in Nat /\ eight \in Nat /\ four \in Nat /\ six + 2 = 8 /\ eight + four = 12
    OBVIOUS
  <1> HIDE DEF six, four, eight
  <1>1. IsSeq(fill) /\ Len(fill) = six /\ \A i \in 1 .. six : fill[i] = <<"fill", 0>>
    BY <1>0, FillFacts
  <1> HIDE DEF fill
  <1>2. /\ IsSeq(a) /\ Len(a) = 8 /\ a[1] = <<"size", 8>> /\ a[2] = <<"type", "ftyp">>
        /\ \A i \in 1 .. 6 : a[i + 2] = <<"fill", 0>>
    <2>1. /\ IsSeq(a) /\ Len(a) = Len(fill) + 2
          /\ a[1] = <<"size", Len(fill) + 2>> /\ a[2] = <<"type", "ftyp">>
          /\ \A i \in 1 .. Len(fill) : a[i + 2] = fill[i]
      BY <1>1, BoxFacts
    <2> HIDE DEF a
    <2> QED
      BY <1>0, <1>1, <2>1 DEF six
  <1>3. /\ IsSeq(FreeAndMdat) /\ Len(FreeAndMdat) = 4
        /\ \A i \in 1 .. 4 : SizeOK(FreeAndMdat[i])
    BY HeaderFacts DEF IsWords
  <1> HIDE DEF a
  <1>4. /\ IsSeq(a \o FreeAndMdat) /\ Len(a \o FreeAndMdat) = 12
        /\ \A i \in 1 .. 12 :
              (a \o FreeAndMdat)[i] = IF i <= 8 THEN a[i] ELSE FreeAndMdat[i - 8]
    <2>1. Len(a) = eight /\ Len(FreeAndMdat) = four
      BY <1>2, <1>3 DEF eight, four
    <2>2. /\ IsSeq(a \o FreeAndMdat) /\ Len(a \o FreeAndMdat) = Len(a) + Len(FreeAndMdat)
          /\ \A i \in 1 .. Len(a) + Len(FreeAndMdat) :
                (a \o FreeAndMdat)[i] = IF i <= Len(a) THEN a[i] ELSE FreeAndMdat[i - Len(a)]
      BY <1>2, <1>3, ConcatIsSeq, Zenon
    <2> QED
      BY <1>0, <2>1, <2>2 DEF eight, four
  <1>5. Head0 = a \o FreeAndMdat
    BY DEF Head0, a, fill, six
  <1> HIDE DEF Head0
  <1>6. Head0[1] = a[1] /\ Head0[2] = a[2]
    <2>1. 1 \in 1 .. 12 /\ 1 <= 8 /\ 2 \in 1 .. 12 /\ 2 <= 8
      OBVIOUS
    <2>2. (a \o FreeAndMdat)[1] = a[1] /\ (a \o FreeAndMdat)[2] = a[2]
      BY <1>4, <2>1
    <2> QED
      BY <1>5, <2>2, Zenon
  <1>7. ASSUME NEW i \in 1 .. 4
        PROVE  Head0[i + 8] = FreeAndMdat[i]
    <2>1. i + 8 \in 1 .. 12 /\ ~(i + 8 <= 8) /\ i + 8 - 8 = i
      OBVIOUS
    <2> DEFINE j == i + 8
    <2> HIDE DEF j
    <2>2. j \in 1 .. 12 /\ ~(j <= 8) /\ j - 8 = i
      BY <2>1 DEF j
    <2>3. Head0[j] = FreeAndMdat[j - 8]
      BY <1>4, <1>5, <2>2
    <2> QED
      BY <2>2, <2>3 DEF j
  <1>8. ASSUME NEW i \in 1 .. 12
        PROVE  SizeOK(Head0[i])
    <2>1. CASE i = 1
      BY <1>2, <1>6, <2>1 DEF SizeOK
    <2>2. CASE i = 2
      BY <1>2, <1>6, <2>2 DEF SizeOK
    <2>3. CASE i > 2 /\ i <= 8
      <3>1. i - 2 \in 1 .. 6 /\ i - 2 + 2 = i
        BY <2>3
      <3>2. Head0[i] = <<"fill", 0>>
        BY <1>2, <1>4, <1>5, <2>3, <3>1
      <3> QED
        BY <3>2 DEF SizeOK
    <2>4. CASE i > 8
      <3>1. i - 8 \in 1 .. 4 /\ ~(i <= 8)
        BY <2>4
      <3>2. Head0[i] = FreeAndMdat[i - 8]
        BY <1>4, <1>5, <3>1, Zenon
      <3> QED
        BY <1>3, <3>1, <3>2
    <2> QED
      BY <2>1, <2>2, <2>3, <2>4
  <1> QED
    BY <1>2, <1>4, <1>5, <1>6, <1>7, <1>8 DEF IsWords

(* m4af_finalize_mdat() keeps the file a file of words. *)
LEMMA SizedMdatIsWords ==
    ASSUME NEW f, IsWords(f), NEW p \in Nat, p >= 4, mdatSize \in Nat
    PROVE  IsWords(SizedMdat(f, p))
  <1> DEFINE a == <<<<"size", 1>>, <<"type", "mdat">>, <<"size", mdatSize + 4>>, <<"fill", 0>>>>
             b == <<<<"size", mdatSize + 2>>>>
  <1>1. p - 4 \in Nat /\ p - 2 \in Nat
    OBVIOUS
  <1>2. /\ IsSeq(a) /\ Len(a) = 4
        /\ IsSeq(b) /\ Len(b) = 1
    BY ShortSeqs
  <1>3. IsWords(a)
    <2>1. a[1] = <<"size", 1>> /\ a[2] = <<"type", "mdat">> /\ a[3] = <<"size", mdatSize + 4>>
          /\ a[4] = <<"fill", 0>>
      OBVIOUS
    <2>2. \A w \in {<<"size", 1>>, <<"type", "mdat">>, <<"size", mdatSize + 4>>, <<"fill", 0>>} : SizeOK(w)
      BY DEF SizeOK
    <2>3. \A i \in 1 .. 4 : i \in {1, 2, 3, 4}
      OBVIOUS
    <2> HIDE DEF a
    <2> QED
      BY <1>2, <2>1, <2>2, <2>3 DEF IsWords
  <1>4. IsWords(b)
    <2>1. b[1] = <<"size", mdatSize + 2>> /\ SizeOK(<<"size", mdatSize + 2>>)
      BY DEF SizeOK
    <2>2. \A i \in 1 .. 1 : i = 1
      OBVIOUS
    <2> HIDE DEF b
    <2> QED
      BY <1>2, <2>1, <2>2 DEF IsWords
  <1>5. SizedMdat(f, p) \in {Overlay(f, p - 4, a), Overlay(f, p - 2, b)}
    BY DEF SizedMdat
  <1> HIDE DEF a, b
  <1> QED
    BY <1>1, <1>3, <1>4, <1>5, OverlayIsWords

(* The file after a write that succeeded or failed. *)
LEMMA CommitIsWords ==
    ASSUME NEW f, IsWords(f), NEW p, Commit(f, p), lastError \in BOOLEAN
    PROVE  IsWords(file') /\ pos' = p /\ lastError' \in BOOLEAN
  BY EmptyIsWords DEF Commit

(* The words of the file, as TypeOK has them. *)
LEMMA FileType ==
    IsWords(file) <=> /\ file \in Seq({<<"fill", 0>>} \union {WordAt(p) : p \in 0 .. Len(file) - 1})
                      /\ \A i \in 1 .. Len(file) : SizeOK(file[i])
  <1> DEFINE S == {<<"fill", 0>>} \union {WordAt(p) : p \in 0 .. Len(file) - 1}
  <1>1. ASSUME IsSeq(file)
        PROVE  file \in Seq(S)
    <2>1. ASSUME NEW i \in 1 .. Len(file)
          PROVE  file[i] \in S
      <3>1. Len(file) \in Nat
        BY <1>1 DEF IsSeq
      <3>2. i - 1 \in 0 .. Len(file) - 1 /\ i - 1 + 1 = i
        BY <3>1
      <3>3. WordAt(i - 1) = file[i]
        BY <3>2 DEF WordAt
      <3> QED
        BY <3>2, <3>3
    <2> HIDE DEF S
    <2> QED
      BY <1>1, <2>1, SeqOfIsSeq
  <1>2. ASSUME file \in Seq(S)
        PROVE  IsSeq(file)
    <2> HIDE DEF S
    <2> QED
      BY <1>2, IsSeqOfSeq
  <1> HIDE DEF S
  <1> QED
    BY <1>1, <1>2 DEF IsWords, S

-----------------------------------------------------------------------------
(* Types *)

(* An entry of the chunk table, and what the chunk buffer may hold. *)
Chunk == [offset : Nat, size : Nat, n : Nat, duration : Nat]

BufferWords(s) == UNION {{<<"data", i, k>> : k \in 1 .. s[i]} : i \in DOMAIN s}

(* Where the media data are, and how far they move. *)
Places ==
    /\ pc = "begin" => /\ NoSamples /\ mdatPos = 0 /\ mdatSize = 0
                       /\ shiftEnd = 0 /\ shiftBy = 0
    /\ pc \in {"write", "finalize", "mdat", "moov", "patch", "shift"} => mdatPos = 12
    /\ pc \in {"write", "finalize", "mdat", "moov", "patch"} => shiftBy = 0
    /\ pc = "patch" => moovSize = MoovLen(chunks)
    /\ pc \in {"shift", "front"} => shiftBy = MoovLen(chunks) + Slack
    /\ pc = "front" => mdatPos = 12 + shiftBy
    /\ pc = "done" => \/ mdatPos = 12 /\ shiftBy = 0
                      \/ mdatPos = 12 + shiftBy /\ shiftBy = MoovLen(chunks) + Slack

(* The types, strengthened by what keeps them: numbers in the size words,  *)
(* and a shiftEnd that stays between the places of the media data.         *)
TypeInv ==
    /\ TypeOK
    /\ IsWords(file)
    /\ Places

(* What TypeOK says, in the form the proofs use. *)
LEMMA TypeFacts ==
    TypeOK <=>
        /\ file \in Seq({<<"fill", 0>>} \union {WordAt(p) : p \in 0 .. Len(file) - 1})
        /\ pos \in Nat /\ mdatPos \in Nat /\ mdatSize \in Nat /\ moovSize \in Nat /\ shiftBy \in Nat
        /\ samples \in Seq(SampleSizes \union {0})
        /\ chunks \in Seq(Chunk)
        /\ buffer \in Seq(BufferWords(samples))
        /\ lastError \in BOOLEAN /\ readFailed \in BOOLEAN
        /\ shiftEnd \in 0 .. mdatPos + mdatSize
        /\ pc \in {"begin", "write", "finalize", "mdat", "moov", "patch", "shift",
                   "front", "done", "failed"}
  <1>1. {pos, mdatPos, mdatSize, moovSize, shiftBy} \subseteq Nat
        <=> pos \in Nat /\ mdatPos \in Nat /\ mdatSize \in Nat /\ moovSize \in Nat /\ shiftBy \in Nat
    OBVIOUS
  <1>2. {lastError, readFailed} \subseteq BOOLEAN <=> lastError \in BOOLEAN /\ readFailed \in BOOLEAN
    BY Zenon
  <1> QED
    BY <1>1, <1>2, Zenon DEF TypeOK, Chunk, BufferWords

(* Sample sizes are numbers. *)
LEMMA SizesAreNat == SampleSizes \union {0} \subseteq Nat
  BY M4afAssumption

(* The data of the sample after s, as words the buffer may hold. *)
LEMMA BufferFacts ==
    ASSUME NEW s \in Seq(Nat), NEW size \in Nat
    PROVE  /\ BufferWords(s) \subseteq BufferWords(Append(s, size))
           /\ Data(Len(s) + 1, size) \in Seq(BufferWords(Append(s, size)))
           /\ Len(Data(Len(s) + 1, size)) = size
           /\ \A k \in 1 .. size : Data(Len(s) + 1, size)[k] = <<"data", Len(s) + 1, k>>
  <1> DEFINE t == Append(s, size)
             d == Data(Len(s) + 1, size)
  <1>1. /\ t \in Seq(Nat) /\ Len(t) = Len(s) + 1 /\ Len(s) \in Nat
        /\ \A i \in 1 .. Len(s) : t[i] = s[i]
        /\ t[Len(s) + 1] = size
        /\ DOMAIN s = 1 .. Len(s) /\ DOMAIN t = 1 .. Len(s) + 1
    BY AppendProperties
  <1> HIDE DEF t
  <1>2. ASSUME NEW w \in BufferWords(s)
        PROVE  w \in BufferWords(t)
    <2>1. PICK i \in 1 .. Len(s) : w \in {<<"data", i, k>> : k \in 1 .. s[i]}
      BY <1>1 DEF BufferWords
    <2>2. i \in 1 .. Len(s) + 1 /\ t[i] = s[i]
      BY <1>1
    <2> QED
      BY <1>1, <2>1, <2>2 DEF BufferWords
  <1>3. d = [k \in 1 .. size |-> <<"data", Len(s) + 1, k>>]
    BY DEF Data
  <1> HIDE DEF d
  <1>4. IsSeq(d) /\ Len(d) = size
    BY <1>3, IsSeqOfFunction
  <1>5. \A k \in 1 .. size : d[k] = <<"data", Len(s) + 1, k>>
    BY <1>3
  <1>6. ASSUME NEW k \in 1 .. size
        PROVE  d[k] \in BufferWords(t)
    <2> DEFINE i == Len(s) + 1
    <2>1. i \in DOMAIN t /\ t[i] = size
      BY <1>1
    <2>2. d[k] = <<"data", i, k>>
      BY <1>5
    <2> HIDE DEF i
    <2>3. d[k] \in {<<"data", i, l>> : l \in 1 .. t[i]}
      BY <2>1, <2>2
    <2> QED
      BY <2>1, <2>3, Zenon DEF BufferWords
  <1> DEFINE W == BufferWords(t)
  <1> HIDE DEF W
  <1>7. \A i \in 1 .. Len(d) : d[i] \in W
    BY <1>4, <1>6 DEF W
  <1>8. d \in Seq(W)
    BY <1>4, <1>7, SeqOfIsSeq
  <1> QED
    BY <1>2, <1>4, <1>5, <1>8 DEF t, d, W

(* The chunk buffer holds no size words. *)
LEMMA BufferIsWords ==
    ASSUME NEW s, NEW b \in Seq(BufferWords(s))
    PROVE  IsWords(b)
  <1>1. \A w \in BufferWords(s) : w[1] = "data"
    BY DEF BufferWords
  <1> DEFINE W == BufferWords(s)
  <1> HIDE DEF W
  <1>2. IsSeq(b) /\ \A i \in 1 .. Len(b) : b[i] \in W
    BY IsSeqOfSeq, ElementOfSeq DEF W
  <1>3. \A w \in W : SizeOK(w)
    BY <1>1 DEF SizeOK, W
  <1> QED
    BY <1>2, <1>3 DEF IsWords

(* m4af_flush_chunk() and the file. *)
LEMMA FlushChunkFacts ==
    ASSUME TypeInv, FlushChunk
    PROVE  /\ IsWords(file') /\ lastError' \in BOOLEAN /\ Len(buffer) \in Nat
           /\ pos' = pos + Len(buffer) /\ mdatSize' = mdatSize + Len(buffer)
           /\ ~Failed /\ ~lastError' => file' = Overlay(file, pos, buffer)
  <1>1. /\ IsWords(file) /\ pos \in Nat /\ buffer \in Seq(BufferWords(samples)) /\ lastError \in BOOLEAN
    BY TypeFacts DEF TypeInv
  <1>2. IsWords(buffer)
    BY <1>1, BufferIsWords
  <1>3. IsWords(Overlay(file, pos, buffer))
    BY <1>1, <1>2, OverlayIsWords
  <1>4. Len(buffer) \in Nat
    BY <1>1
  <1>5. Commit(Overlay(file, pos, buffer), pos + Len(buffer)) /\ mdatSize' = mdatSize + Len(buffer)
    BY DEF FlushChunk
  <1>6. IsWords(file') /\ pos' = pos + Len(buffer) /\ lastError' \in BOOLEAN
    BY <1>1, <1>3, <1>5, CommitIsWords
  <1>7. ~Failed /\ ~lastError' => file' = Overlay(file, pos, buffer)
    BY <1>5 DEF Commit
  <1> QED
    BY <1>4, <1>5, <1>6, <1>7

(* m4af_flush_chunk() and the chunk table: only the offset of the last *)
(* chunk changes.                                                      *)
LEMMA FlushedFacts ==
    ASSUME chunks \in Seq(Chunk), pos \in Nat
    PROVE  /\ Flushed \in Seq(Chunk) /\ Len(Flushed) = Len(chunks)
           /\ \A j \in 1 .. Len(chunks) :
                 /\ Flushed[j].size = chunks[j].size
                 /\ Flushed[j].n = chunks[j].n
                 /\ Flushed[j].duration = chunks[j].duration
                 /\ Flushed[j].offset =
                       IF j = Len(chunks) /\ buffer # << >> THEN pos ELSE chunks[j].offset
  <1>1. CASE buffer = << >>
    BY <1>1 DEF Flushed
  <1>2. CASE buffer # << >> /\ chunks = << >>
    <2>1. Flushed = [chunks EXCEPT ![Len(chunks)].offset = pos]
      BY <1>2 DEF Flushed
    <2>2. Len(chunks) = 0 /\ DOMAIN chunks = {}
      BY <1>2
    <2>3. Flushed = chunks
      BY <2>1, <2>2
    <2> QED
      BY <2>2, <2>3
  <1>3. CASE buffer # << >> /\ chunks # << >>
    <2> DEFINE last == Len(chunks)
               c == [chunks[last] EXCEPT !.offset = pos]
    <2>1. last \in 1 .. Len(chunks) /\ last \in Nat
      BY <1>3
    <2>2. chunks[last] \in Chunk
      BY <2>1
    <2>3. /\ c \in Chunk /\ c.offset = pos /\ c.size = chunks[last].size
          /\ c.n = chunks[last].n /\ c.duration = chunks[last].duration
      BY <2>2 DEF Chunk
    <2>4. Flushed = [chunks EXCEPT ![last] = c]
      BY <1>3 DEF Flushed
    <2> HIDE DEF c, last
    <2>5. /\ Flushed \in Seq(Chunk) /\ Len(Flushed) = Len(chunks)
          /\ \A j \in 1 .. Len(chunks) : Flushed[j] = IF j = last THEN c ELSE chunks[j]
      BY <2>1, <2>3, <2>4, ExceptSeq
    <2> QED
      BY <1>3, <2>3, <2>5 DEF last
  <1> QED
    BY <1>1, <1>2, <1>3

(* The chunk table after a sample. *)
TableOf(table, size) == [table EXCEPT ![Len(table)] = Grown(@, size)]

(* Only the last chunk grows. *)
LEMMA GrownFacts ==
    ASSUME NEW table \in Seq(Chunk), table # << >>, NEW size \in Nat
    PROVE  /\ TableOf(table, size) \in Seq(Chunk)
           /\ Len(TableOf(table, size)) = Len(table)
           /\ \A j \in 1 .. Len(table) :
                 /\ TableOf(table, size)[j].offset = table[j].offset
                 /\ TableOf(table, size)[j].size =
                       IF j = Len(table) THEN table[j].size + size ELSE table[j].size
                 /\ TableOf(table, size)[j].n =
                       IF j = Len(table) THEN table[j].n + 1 ELSE table[j].n
  <1> DEFINE last == Len(table)
             c == Grown(table[last], size)
  <1>1. last \in 1 .. Len(table) /\ last \in Nat
    OBVIOUS
  <1>2. table[last] \in Chunk
    BY <1>1
  <1>3. /\ c \in Chunk /\ c.offset = table[last].offset
        /\ c.size = table[last].size + size /\ c.n = table[last].n + 1
    <2> DEFINE r == table[last]
    <2>1. /\ r \in Chunk /\ r.offset \in Nat /\ r.size \in Nat /\ r.n \in Nat
          /\ r.duration \in Nat /\ Delta \in Nat
      BY <1>2, M4afAssumption DEF Chunk
    <2> HIDE DEF r
    <2>2. /\ r.size + size \in Nat /\ r.n + 1 \in Nat /\ r.duration + Delta \in Nat
      BY <2>1
    <2>3. c = [r EXCEPT !.size = r.size + size, !.n = r.n + 1, !.duration = r.duration + Delta]
      BY DEF Grown, r
    <2> HIDE DEF c
    <2>4. c = [offset |-> r.offset, size |-> r.size + size, n |-> r.n + 1,
               duration |-> r.duration + Delta]
      BY <2>1, <2>3 DEF Chunk
    <2> QED
      BY <2>1, <2>2, <2>4 DEF Chunk, r
  <1>4. TableOf(table, size) = [table EXCEPT ![last] = c]
    BY DEF TableOf
  <1> HIDE DEF c, last
  <1>5. /\ TableOf(table, size) \in Seq(Chunk) /\ Len(TableOf(table, size)) = Len(table)
        /\ \A j \in 1 .. Len(table) : TableOf(table, size)[j] = IF j = last THEN c ELSE table[j]
    BY <1>1, <1>3, <1>4, ExceptSeq
  <1> QED
    BY <1>3, <1>5 DEF last

(* Every offset grows by the same. *)
LEMMA ShiftedFacts ==
    ASSUME NEW table \in Seq(Chunk), NEW by \in Int,
           \A j \in 1 .. Len(table) : table[j].offset + by \in Nat
    PROVE  /\ Shifted(table, by) \in Seq(Chunk) /\ Len(Shifted(table, by)) = Len(table)
           /\ \A j \in 1 .. Len(table) :
                 Shifted(table, by)[j] = [table[j] EXCEPT !.offset = @ + by]
  <1> DEFINE g == Shifted(table, by)
  <1>1. Len(table) \in Nat /\ \A j \in 1 .. Len(table) : table[j] \in Chunk
    OBVIOUS
  <1>2. g = [j \in 1 .. Len(table) |-> [table[j] EXCEPT !.offset = @ + by]]
    BY DEF Shifted
  <1> HIDE DEF g
  <1>3. ASSUME NEW j \in 1 .. Len(table)
        PROVE  g[j] = [table[j] EXCEPT !.offset = @ + by] /\ g[j] \in Chunk
    BY <1>1, <1>2 DEF Chunk
  <1>4. g = [j \in 1 .. Len(table) |-> g[j]]
    BY <1>2
  <1>5. IsSeq(g) /\ Len(g) = Len(table)
    BY <1>1, <1>4, IsSeqOfFunction
  <1>6. g \in Seq(Chunk)
    BY <1>3, <1>5, SeqOfIsSeq
  <1> QED
    BY <1>3, <1>5, <1>6 DEF g

(* The type invariant of the next state, from the facts about each *)
(* variable.                                                       *)
LEMMA TypeIntro ==
    ASSUME IsWords(file'),
           pos' \in Nat, mdatPos' \in Nat, mdatSize' \in Nat, moovSize' \in Nat, shiftBy' \in Nat,
           samples' \in Seq(SampleSizes \union {0}),
           chunks' \in Seq(Chunk),
           buffer' \in Seq(BufferWords(samples')),
           lastError' \in BOOLEAN, readFailed' \in BOOLEAN,
           shiftEnd' \in 0 .. mdatPos' + mdatSize',
           pc' \in {"write", "finalize", "mdat", "moov", "patch", "shift",
                    "front", "done", "failed"},
           Places'
    PROVE  TypeInv'
  <1> DEFINE S == {<<"fill", 0>>} \union {WordAt(p)' : p \in 0 .. Len(file') - 1}
  <1>1. file' \in Seq(S)
    <2>1. ASSUME NEW i \in 1 .. Len(file')
          PROVE  file'[i] \in S
      <3>1. Len(file') \in Nat
        BY DEF IsSeq, IsWords
      <3>2. i - 1 \in 0 .. Len(file') - 1 /\ i - 1 + 1 = i
        BY <3>1
      <3>3. WordAt(i - 1)' = file'[i]
        BY <3>2 DEF WordAt
      <3> QED
        BY <3>2, <3>3
    <2> HIDE DEF S
    <2> QED
      BY <2>1, SeqOfIsSeq DEF IsWords
  <1>2. {pos', mdatPos', mdatSize', moovSize', shiftBy'} \subseteq Nat
    OBVIOUS
  <1>3. {lastError', readFailed'} \subseteq BOOLEAN
    BY Zenon
  <1>4. TypeOK'
    BY <1>1, <1>2, <1>3, Zenon DEF TypeOK, Chunk, BufferWords
  <1> QED
    BY <1>4 DEF TypeInv

(* The initial state. *)
LEMMA InitTypeInv == Init => TypeInv
  <1> SUFFICES ASSUME Init PROVE TypeInv
    OBVIOUS
  <1>1. IsWords(file)
    BY EmptyIsWords DEF Init
  <1>2. TypeOK
    <2>1. << >> \in Seq(SampleSizes \union {0}) /\ << >> \in Seq(Chunk)
          /\ << >> \in Seq(BufferWords(samples))
      BY EmptySeq, Zenon
    <2>2. shiftEnd \in 0 .. mdatPos + mdatSize
      BY DEF Init
    <2>3. lastError \in BOOLEAN /\ readFailed \in BOOLEAN
      BY DEF Init
    <2>4. /\ pos \in Nat /\ mdatPos \in Nat /\ mdatSize \in Nat /\ moovSize \in Nat /\ shiftBy \in Nat
      BY DEF Init
    <2> QED
      BY <1>1, <2>1, <2>2, <2>3, <2>4, FileType, TypeFacts DEF Init, NoSamples
  <1> QED
    BY <1>1, <1>2 DEF TypeInv, Places, Init, NoSamples

(* Each action keeps the types. *)
LEMMA BeginWriteType == TypeInv /\ BeginWrite => TypeInv'
  <1> SUFFICES ASSUME TypeInv, BeginWrite PROVE TypeInv'
    OBVIOUS
  <1>1. /\ IsWords(file) /\ lastError \in BOOLEAN /\ readFailed \in BOOLEAN
        /\ samples = << >> /\ chunks = << >> /\ buffer = << >> /\ mdatSize = 0 /\ shiftEnd = 0
        /\ moovSize \in Nat /\ shiftBy = 0
    BY TypeFacts DEF TypeInv, Places, BeginWrite, NoSamples
  <1>2. /\ Commit(Overlay(file, 0, Head0), Len(Head0)) /\ mdatPos' = Len(Head0)
        /\ pc' = "write"
        /\ UNCHANGED <<mdatSize, samples, chunks, buffer, readFailed, moovSize, shiftBy, shiftEnd>>
    BY DEF BeginWrite, Head0
  <1>3. IsWords(Head0) /\ Len(Head0) = 12
    BY HeadFacts
  <1>4. IsWords(Overlay(file, 0, Head0))
    BY <1>1, <1>3, OverlayIsWords
  <1>5. IsWords(file') /\ pos' = 12 /\ lastError' \in BOOLEAN
    BY <1>1, <1>2, <1>3, <1>4, CommitIsWords
  <1>6. /\ samples' \in Seq(SampleSizes \union {0}) /\ chunks' \in Seq(Chunk)
        /\ buffer' \in Seq(BufferWords(samples'))
    BY <1>1, <1>2, EmptySeq
  <1>7. Places'
    BY <1>1, <1>2, <1>3 DEF Places
  <1> QED
    BY <1>1, <1>2, <1>3, <1>5, <1>6, <1>7, TypeIntro

LEMMA WriteSampleType ==
    ASSUME TypeInv, NEW size \in SampleSizes \union {0}, WriteSample(size)
    PROVE  TypeInv'
  <1>1. /\ IsWords(file) /\ lastError \in BOOLEAN /\ readFailed \in BOOLEAN
        /\ pos \in Nat /\ mdatPos \in Nat /\ mdatSize \in Nat
        /\ moovSize \in Nat /\ shiftBy \in Nat /\ shiftEnd \in 0 .. mdatPos + mdatSize
        /\ samples \in Seq(SampleSizes \union {0}) /\ samples \in Seq(Nat) /\ size \in Nat
        /\ chunks \in Seq(Chunk) /\ buffer \in Seq(BufferWords(samples))
        /\ mdatPos = 12 /\ shiftBy = 0
    BY TypeFacts, SizesAreNat DEF TypeInv, Places, WriteSample
  <1>2. /\ UNCHANGED <<mdatPos, readFailed, moovSize, shiftBy, shiftEnd>>
        /\ pc' \in {"failed", "finalize", "write"}
    BY DEF WriteSample
  <1>9. Places'
    BY <1>1, <1>2 DEF Places
  <1>3. CASE lastError
    <2>1. UNCHANGED <<samples, chunks, buffer, file, pos, mdatSize, lastError>>
      BY <1>3 DEF WriteSample
    <2> QED
      BY <1>1, <1>2, <2>1, <1>9, TypeIntro
  <1>4. CASE ~lastError
    <2> DEFINE table == IF StartsChunk THEN Append(Flushed, NewChunk) ELSE chunks
               data == Data(Len(samples) + 1, size)
    <2>1. /\ samples' = Append(samples, size)
          /\ chunks' = TableOf(table, size)
          /\ IF StartsChunk THEN FlushChunk /\ buffer' = data
             ELSE /\ buffer' = buffer \o data /\ lastError' \in BOOLEAN
                  /\ UNCHANGED <<file, pos, mdatSize>>
      BY <1>4 DEF WriteSample, TableOf
    <2>2. samples' \in Seq(SampleSizes \union {0})
      BY <1>1, <2>1, AppendProperties
    <2>3. table \in Seq(Chunk) /\ table # << >>
      <3>1. CASE StartsChunk
        <4>1. Flushed \in Seq(Chunk) /\ NewChunk \in Chunk
          BY <1>1, FlushedFacts DEF NewChunk, Chunk
        <4> QED
          BY <3>1, <4>1, AppendProperties
      <3>2. CASE ~StartsChunk
        BY <1>1, <3>2 DEF StartsChunk
      <3> QED
        BY <3>1, <3>2
    <2> HIDE DEF table
    <2>4. chunks' \in Seq(Chunk)
      BY <1>1, <2>1, <2>3, GrownFacts
    <2>5. /\ BufferWords(samples) \subseteq BufferWords(samples')
          /\ data \in Seq(BufferWords(samples'))
      BY <1>1, <2>1, BufferFacts
    <2> HIDE DEF data
    <2>6. CASE StartsChunk
      <3>1. FlushChunk /\ buffer' = data
        BY <2>1, <2>6
      <3>2. IsWords(file') /\ lastError' \in BOOLEAN /\ Len(buffer) \in Nat
            /\ pos' = pos + Len(buffer) /\ mdatSize' = mdatSize + Len(buffer)
        BY <3>1, FlushChunkFacts
      <3>3. pos' \in Nat /\ mdatSize' \in Nat /\ shiftEnd' \in 0 .. mdatPos' + mdatSize'
        BY <1>1, <1>2, <3>2
      <3> QED
        BY <1>1, <1>2, <2>2, <2>4, <2>5, <3>1, <3>2, <3>3, <1>9, TypeIntro
    <2>7. CASE ~StartsChunk
      <3>1. buffer' = buffer \o data /\ lastError' \in BOOLEAN /\ UNCHANGED <<file, pos, mdatSize>>
        BY <2>1, <2>7
      <3>2. buffer \in Seq(BufferWords(samples'))
        BY <1>1, <2>5, SeqMonotonic
      <3>3. buffer' \in Seq(BufferWords(samples'))
        BY <2>5, <3>1, <3>2, ConcatProperties
      <3> QED
        BY <1>1, <1>2, <2>2, <2>4, <3>1, <3>3, <1>9, TypeIntro
    <2> QED
      BY <2>6, <2>7
  <1> QED
    BY <1>3, <1>4

LEMMA FinalizeFlushType == TypeInv /\ FinalizeFlush => TypeInv'
  <1> SUFFICES ASSUME TypeInv, FinalizeFlush PROVE TypeInv'
    OBVIOUS
  <1>1. /\ readFailed \in BOOLEAN /\ pos \in Nat /\ mdatPos \in Nat /\ mdatSize \in Nat
        /\ moovSize \in Nat /\ shiftBy \in Nat /\ shiftEnd \in 0 .. mdatPos + mdatSize
        /\ samples \in Seq(SampleSizes \union {0}) /\ chunks \in Seq(Chunk) /\ mdatPos = 12 /\ shiftBy = 0
    BY TypeFacts DEF TypeInv, Places, FinalizeFlush
  <1>2. /\ FlushChunk /\ chunks' = Flushed /\ buffer' = << >> /\ pc' = "mdat"
        /\ UNCHANGED <<mdatPos, samples, readFailed, moovSize, shiftBy, shiftEnd>>
    BY DEF FinalizeFlush
  <1>3. /\ IsWords(file') /\ lastError' \in BOOLEAN /\ Len(buffer) \in Nat
        /\ pos' = pos + Len(buffer) /\ mdatSize' = mdatSize + Len(buffer)
    BY <1>2, FlushChunkFacts
  <1>4. pos' \in Nat /\ mdatSize' \in Nat /\ shiftEnd' \in 0 .. mdatPos' + mdatSize'
    BY <1>1, <1>2, <1>3
  <1>5. chunks' \in Seq(Chunk) /\ buffer' \in Seq(BufferWords(samples'))
    BY <1>1, <1>2, FlushedFacts, EmptySeq
  <1>6. Places'
    BY <1>1, <1>2 DEF Places
  <1> QED
    BY <1>1, <1>2, <1>3, <1>4, <1>5, <1>6, TypeIntro

LEMMA FinalizeMdatType == TypeInv /\ FinalizeMdat => TypeInv'
  <1> SUFFICES ASSUME TypeInv, FinalizeMdat PROVE TypeInv'
    OBVIOUS
  <1>1. /\ readFailed \in BOOLEAN /\ lastError \in BOOLEAN /\ IsWords(file)
        /\ mdatPos \in Nat /\ mdatSize \in Nat
        /\ moovSize \in Nat /\ shiftBy \in Nat /\ shiftEnd \in 0 .. mdatPos + mdatSize
        /\ samples \in Seq(SampleSizes \union {0}) /\ chunks \in Seq(Chunk) /\ mdatPos = 12 /\ shiftBy = 0
        /\ buffer \in Seq(BufferWords(samples))
    BY TypeFacts DEF TypeInv, Places, FinalizeMdat
  <1>2. /\ Commit(SizedMdat(file, mdatPos), mdatPos + mdatSize) /\ pc' = "moov"
        /\ UNCHANGED <<mdatPos, mdatSize, samples, chunks, buffer, readFailed,
                       moovSize, shiftBy, shiftEnd>>
    BY DEF FinalizeMdat
  <1>3. IsWords(SizedMdat(file, mdatPos))
    BY <1>1, SizedMdatIsWords
  <1>4. IsWords(file') /\ pos' = mdatPos + mdatSize /\ lastError' \in BOOLEAN
    BY <1>1, <1>2, <1>3, CommitIsWords
  <1>5. Places'
    BY <1>1, <1>2 DEF Places
  <1> QED
    BY <1>1, <1>2, <1>4, <1>5, TypeIntro

LEMMA WriteMoovType == TypeInv /\ WriteMoov => TypeInv'
  <1> SUFFICES ASSUME TypeInv, WriteMoov PROVE TypeInv'
    OBVIOUS
  <1>1. /\ readFailed \in BOOLEAN /\ lastError \in BOOLEAN /\ IsWords(file)
        /\ pos \in Nat /\ mdatPos \in Nat /\ mdatSize \in Nat
        /\ shiftBy \in Nat /\ shiftEnd \in 0 .. mdatPos + mdatSize
        /\ samples \in Seq(SampleSizes \union {0}) /\ chunks \in Seq(Chunk) /\ mdatPos = 12 /\ shiftBy = 0
        /\ buffer \in Seq(BufferWords(samples)) /\ Len(chunks) \in Nat
    BY TypeFacts DEF TypeInv, Places, WriteMoov
  <1>2. /\ Commit(Overlay(file, pos, Moov(chunks)), pos + MoovLen(chunks))
        /\ moovSize' = MoovLen(chunks) /\ pc' \in {"patch", "done"}
        /\ UNCHANGED <<mdatPos, mdatSize, samples, chunks, buffer, readFailed,
                       shiftBy, shiftEnd>>
    BY DEF WriteMoov
  <1>3. MoovLen(chunks) \in Nat /\ IsWords(Moov(chunks))
    BY <1>1, MoovFacts
  <1>4. IsWords(Overlay(file, pos, Moov(chunks)))
    BY <1>1, <1>3, OverlayIsWords
  <1>5. IsWords(file') /\ pos' = pos + MoovLen(chunks) /\ lastError' \in BOOLEAN
    BY <1>1, <1>2, <1>4, CommitIsWords
  <1>6. Places'
    BY <1>1, <1>2 DEF Places
  <1> QED
    BY <1>1, <1>2, <1>3, <1>5, <1>6, TypeIntro

(* How far m4af_patch_moov() moves the offsets. *)
PatchBy == Slack + MoovLen(Shifted(chunks, moovSize + Slack))

(* What m4af_patch_moov() does to the table: every offset grows by as much *)
(* as the media data will move.                                            *)
LEMMA PatchFacts ==
    ASSUME TypeOK, PatchMoov
    PROVE  /\ chunks' \in Seq(Chunk) /\ Len(chunks') = Len(chunks)
           /\ shiftBy' \in Nat /\ shiftBy' = MoovLen(chunks') + Slack
           /\ PatchBy \in Nat
           /\ \A j \in 1 .. Len(chunks) :
                 chunks'[j] = [chunks[j] EXCEPT !.offset = @ + PatchBy]
  <1> DEFINE a == moovSize + Slack
             once == Shifted(chunks, a)
             b == MoovLen(once) - moovSize
             by == PatchBy
  <1>1. chunks \in Seq(Chunk) /\ moovSize \in Nat /\ Slack \in Nat
    BY TypeFacts, M4afAssumption
  <1>2. chunks' = Shifted(once, b) /\ shiftBy' = MoovLen(chunks') + Slack
    BY DEF PatchMoov
  <1>3. /\ a \in Int /\ \A j \in 1 .. Len(chunks) : chunks[j].offset \in Nat /\ chunks[j].offset + a \in Nat
    <2>1. \A j \in 1 .. Len(chunks) : chunks[j] \in Chunk
      BY <1>1
    <2>2. \A j \in 1 .. Len(chunks) : chunks[j].offset \in Nat
      BY <2>1 DEF Chunk
    <2> QED
      BY <1>1, <2>2
  <1> HIDE DEF a
  <1>4. /\ once \in Seq(Chunk) /\ Len(once) = Len(chunks) /\ Len(chunks) \in Nat
        /\ \A j \in 1 .. Len(chunks) : once[j] = [chunks[j] EXCEPT !.offset = @ + a]
    BY <1>1, <1>3, ShiftedFacts
  <1> HIDE DEF once
  <1>5. MoovLen(once) \in Nat
    BY <1>4, MoovFacts
  <1>6. b \in Int /\ by \in Nat /\ a + b = by
    BY <1>1, <1>5 DEF a, once, PatchBy
  <1>7. ASSUME NEW j \in 1 .. Len(once)
        PROVE  once[j].offset + b \in Nat
    <2>1. chunks[j] \in Chunk
      BY <1>1, <1>4
    <2>2. once[j].offset = chunks[j].offset + a /\ chunks[j].offset \in Nat
      BY <1>4, <2>1 DEF Chunk
    <2> QED
      BY <1>3, <1>6, <2>2
  <1> HIDE DEF b, by
  <1>8. /\ chunks' \in Seq(Chunk) /\ Len(chunks') = Len(once)
        /\ \A j \in 1 .. Len(once) : chunks'[j] = [once[j] EXCEPT !.offset = @ + b]
    BY <1>2, <1>4, <1>6, <1>7, ShiftedFacts
  <1>9. ASSUME NEW j \in 1 .. Len(chunks)
        PROVE  chunks'[j] = [chunks[j] EXCEPT !.offset = @ + by]
    <2>1. chunks[j] \in Chunk
      BY <1>1
    <2>2. chunks[j].offset \in Nat /\ chunks[j].offset + a + b = chunks[j].offset + by
      BY <1>3, <1>6
    <2>3. once[j] = [chunks[j] EXCEPT !.offset = @ + a]
      BY <1>4
    <2>4. chunks'[j] = [once[j] EXCEPT !.offset = @ + b]
      BY <1>4, <1>8
    <2> QED
      BY <2>1, <2>2, <2>3, <2>4 DEF Chunk
  <1>10. MoovLen(chunks') \in Nat
    BY <1>4, <1>8, MoovFacts
  <1> QED
    BY <1>1, <1>2, <1>4, <1>6, <1>8, <1>9, <1>10 DEF by

LEMMA PatchMoovType == TypeInv /\ PatchMoov => TypeInv'
  <1> SUFFICES ASSUME TypeInv, PatchMoov PROVE TypeInv'
    OBVIOUS
  <1>1. /\ readFailed \in BOOLEAN /\ lastError \in BOOLEAN /\ IsWords(file)
        /\ pos \in Nat /\ mdatPos \in Nat /\ mdatSize \in Nat /\ moovSize \in Nat
        /\ samples \in Seq(SampleSizes \union {0}) /\ mdatPos = 12 /\ shiftBy = 0
        /\ buffer \in Seq(BufferWords(samples)) /\ TypeOK
    BY TypeFacts DEF TypeInv, Places, PatchMoov
  <1>2. /\ shiftEnd' = mdatPos + mdatSize /\ pc' = "shift"
        /\ UNCHANGED <<file, pos, mdatPos, mdatSize, samples, buffer, lastError,
                       readFailed, moovSize>>
    BY DEF PatchMoov
  <1>3. chunks' \in Seq(Chunk) /\ shiftBy' \in Nat
    BY <1>1, PatchFacts
  <1>4. shiftEnd' \in 0 .. mdatPos' + mdatSize'
    BY <1>1, <1>2
  <1>5. Places'
    BY <1>1, <1>2, PatchFacts DEF Places
  <1> QED
    BY <1>1, <1>2, <1>3, <1>4, <1>5, TypeIntro

(* The block m4af_shift_mdat_pos() copies lies in the media data. *)
LEMMA BlockStartFacts ==
    ASSUME TypeOK
    PROVE  /\ BlockStart \in Nat /\ mdatPos <= BlockStart
           /\ mdatPos < shiftEnd => BlockStart < shiftEnd
           /\ ~(mdatPos < shiftEnd) => BlockStart = mdatPos
           /\ BlockStart = mdatPos \/ BlockStart = shiftEnd - BlockLen
  <1>1. /\ mdatPos \in Nat /\ mdatSize \in Nat /\ shiftEnd \in Nat
        /\ BlockLen \in Nat /\ BlockLen > 0
    BY TypeFacts, M4afAssumption
  <1>2. BlockStart = IF mdatPos >= shiftEnd - BlockLen THEN mdatPos ELSE shiftEnd - BlockLen
    BY <1>1, MaxOfTwo DEF BlockStart
  <1> QED
    BY <1>1, <1>2

(* The words of a block, as read back. *)
LEMMA WordsAtFacts ==
    ASSUME NEW p \in Nat, NEW n \in Nat, IsWords(file)
    PROVE  /\ IsWords(WordsAt(p, n)) /\ Len(WordsAt(p, n)) = n
           /\ \A k \in 1 .. n : WordsAt(p, n)[k] = WordAt(p + k - 1)
  <1> DEFINE g == WordsAt(p, n)
  <1>1. g = [k \in 1 .. n |-> WordAt(p + k - 1)]
    BY DEF WordsAt
  <1> HIDE DEF g
  <1>2. \A k \in 1 .. n : g[k] = WordAt(p + k - 1)
    BY <1>1
  <1>3. IsSeq(g) /\ Len(g) = n
    BY <1>1, IsSeqOfFunction
  <1>4. ASSUME NEW k \in 1 .. n
        PROVE  SizeOK(g[k])
    <2>1. CASE p + k - 1 + 1 \in 1 .. Len(file)
      <3>1. g[k] = file[p + k - 1 + 1]
        BY <1>2, <2>1 DEF WordAt
      <3> QED
        BY <2>1, <3>1 DEF IsWords
    <2>2. CASE ~(p + k - 1 + 1 \in 1 .. Len(file))
      <3>1. g[k] = <<"none", 0>>
        BY <1>2, <2>2 DEF WordAt
      <3> QED
        BY <3>1 DEF SizeOK
    <2> QED
      BY <2>1, <2>2
  <1> QED
    BY <1>2, <1>3, <1>4 DEF IsWords, g

LEMMA ShiftBlockType == TypeInv /\ ShiftBlock => TypeInv'
  <1> SUFFICES ASSUME TypeInv, ShiftBlock PROVE TypeInv'
    OBVIOUS
  <1>1. /\ readFailed \in BOOLEAN /\ lastError \in BOOLEAN /\ IsWords(file)
        /\ pos \in Nat /\ mdatPos \in Nat /\ mdatSize \in Nat /\ moovSize \in Nat
        /\ shiftBy \in Nat /\ shiftEnd \in 0 .. mdatPos + mdatSize
        /\ samples \in Seq(SampleSizes \union {0}) /\ mdatPos = 12 /\ shiftBy = MoovLen(chunks) + Slack
        /\ chunks \in Seq(Chunk) /\ buffer \in Seq(BufferWords(samples)) /\ TypeOK
    BY TypeFacts DEF TypeInv, Places, ShiftBlock
  <1> DEFINE f == Overlay(file, BlockStart + shiftBy, WordsAt(BlockStart, shiftEnd - BlockStart))
  <1>2. /\ BlockStart < shiftEnd /\ shiftEnd' = BlockStart /\ pc' = "shift"
        /\ \/ Commit(f, shiftEnd + shiftBy) /\ UNCHANGED readFailed
           \/ /\ readFailed' = TRUE /\ pos' = shiftEnd + shiftBy /\ file' = << >>
              /\ UNCHANGED lastError
        /\ UNCHANGED <<mdatPos, mdatSize, samples, chunks, buffer, moovSize, shiftBy>>
    BY DEF ShiftBlock
  <1>3. BlockStart \in Nat /\ shiftEnd \in Nat /\ shiftEnd - BlockStart \in Nat
        /\ BlockStart + shiftBy \in Nat /\ shiftEnd + shiftBy \in Nat
        /\ shiftEnd' \in 0 .. mdatPos' + mdatSize'
    BY <1>1, <1>2, BlockStartFacts
  <1>4. IsWords(f)
    BY <1>1, <1>3, WordsAtFacts, OverlayIsWords
  <1> HIDE DEF f
  <1>5. IsWords(file') /\ pos' \in Nat /\ lastError' \in BOOLEAN /\ readFailed' \in BOOLEAN
    <2>1. CASE Commit(f, shiftEnd + shiftBy) /\ UNCHANGED readFailed
      BY <1>1, <1>3, <1>4, <2>1, CommitIsWords
    <2>2. CASE readFailed' = TRUE /\ pos' = shiftEnd + shiftBy /\ file' = << >> /\ UNCHANGED lastError
      BY <1>1, <1>3, <2>2, EmptyIsWords
    <2> QED
      BY <1>2, <2>1, <2>2
  <1>6. Places'
    BY <1>1, <1>2 DEF Places
  <1> QED
    BY <1>1, <1>2, <1>3, <1>5, <1>6, TypeIntro

LEMMA ShiftHeaderType == TypeInv /\ ShiftHeader => TypeInv'
  <1> SUFFICES ASSUME TypeInv, ShiftHeader PROVE TypeInv'
    OBVIOUS
  <1>1. /\ readFailed \in BOOLEAN /\ lastError \in BOOLEAN /\ IsWords(file)
        /\ pos \in Nat /\ mdatPos \in Nat /\ mdatSize \in Nat /\ moovSize \in Nat
        /\ shiftBy \in Nat /\ shiftEnd \in 0 .. mdatPos + mdatSize
        /\ samples \in Seq(SampleSizes \union {0}) /\ mdatPos = 12 /\ shiftBy = MoovLen(chunks) + Slack
        /\ chunks \in Seq(Chunk) /\ buffer \in Seq(BufferWords(samples)) /\ TypeOK
    BY TypeFacts DEF TypeInv, Places, ShiftHeader
  <1> DEFINE p == mdatPos + shiftBy
             f == Overlay(file, p - 4, FreeAndMdat)
  <1>2. /\ mdatPos' = p /\ Commit(SizedMdat(f, p), p + mdatSize) /\ pc' = "front"
        /\ UNCHANGED <<mdatSize, samples, chunks, buffer, readFailed, moovSize, shiftBy, shiftEnd>>
    BY DEF ShiftHeader
  <1>3. p \in Nat /\ p >= 12 /\ p - 4 \in Nat /\ p + mdatSize \in Nat
        /\ shiftEnd' \in 0 .. p + mdatSize
    <2>1. mdatPos = 12 /\ shiftBy \in Nat /\ mdatSize \in Nat
      BY <1>1
    <2>2. shiftEnd' = shiftEnd /\ shiftEnd \in 0 .. 12 + mdatSize
      BY <1>1, <1>2
    <2>3. p = 12 + shiftBy
      BY <2>1
    <2> HIDE DEF p
    <2>4. p \in Nat /\ p >= 12 /\ p - 4 \in Nat /\ p + mdatSize \in Nat
      BY <2>1, <2>3
    <2>5. 12 + mdatSize <= p + mdatSize
      BY <2>1, <2>4
    <2> QED
      BY <2>1, <2>2, <2>4, <2>5
  <1> HIDE DEF p
  <1>4. IsWords(f)
    BY <1>1, <1>3, HeaderFacts, OverlayIsWords
  <1>5. IsWords(SizedMdat(f, p))
    BY <1>1, <1>3, <1>4, SizedMdatIsWords
  <1>6. IsWords(file') /\ pos' = p + mdatSize /\ lastError' \in BOOLEAN
    BY <1>1, <1>2, <1>5, CommitIsWords
  <1>7. Places'
    BY <1>1, <1>2 DEF Places, p
  <1> QED
    BY <1>1, <1>2, <1>3, <1>6, <1>7, TypeIntro

LEMMA WriteMoovFrontType == TypeInv /\ WriteMoovFront => TypeInv'
  <1> SUFFICES ASSUME TypeInv, WriteMoovFront PROVE TypeInv'
    OBVIOUS
  <1>1. /\ readFailed \in BOOLEAN /\ lastError \in BOOLEAN /\ IsWords(file)
        /\ pos \in Nat /\ mdatPos \in Nat /\ mdatSize \in Nat /\ moovSize \in Nat
        /\ shiftBy \in Nat /\ shiftEnd \in 0 .. mdatPos + mdatSize
        /\ samples \in Seq(SampleSizes \union {0})
        /\ mdatPos = 12 + shiftBy /\ shiftBy = MoovLen(chunks) + Slack
        /\ chunks \in Seq(Chunk) /\ buffer \in Seq(BufferWords(samples)) /\ Len(chunks) \in Nat
    BY TypeFacts DEF TypeInv, Places, WriteMoovFront
  <1> DEFINE free == 8 + MoovLen(chunks)
             f == Overlay(file, 8, Moov(chunks))
             w == <<<<"size", FreeLen(free)>>, <<"type", "free">>>>
  <1>2. /\ Commit(Overlay(f, free, w), free + FreeLen(free)) /\ pc' = "done"
        /\ UNCHANGED <<mdatPos, mdatSize, samples, chunks, buffer, readFailed, moovSize,
                       shiftBy, shiftEnd>>
    BY DEF WriteMoovFront
  <1>3. /\ MoovLen(chunks) \in Nat /\ IsWords(Moov(chunks))
        /\ Slack \in Nat /\ FreeLen(free) = Slack /\ free \in Nat
    <2>1. MoovLen(chunks) \in Nat /\ IsWords(Moov(chunks))
      BY <1>1, MoovFacts
    <2>2. Slack \in Nat
      BY M4afAssumption
    <2>3. FreeLen(free) = mdatPos - free - 4
      BY DEF FreeLen
    <2>4. \A m, n \in Nat : 8 + m \in Nat /\ 12 + (m + n) - (8 + m) - 4 = n
      OBVIOUS
    <2>5. mdatPos = 12 + (MoovLen(chunks) + Slack)
      BY <1>1
    <2>6. free \in Nat /\ mdatPos - free - 4 = Slack
      BY <2>1, <2>2, <2>4, <2>5
    <2> QED
      BY <2>1, <2>2, <2>3, <2>6, Zenon
  <1>4. IsWords(w)
    <2>1. IsSeq(w) /\ Len(w) = 2 /\ w[1] = <<"size", FreeLen(free)>> /\ w[2] = <<"type", "free">>
      BY ShortSeqs
    <2>2. SizeOK(<<"size", FreeLen(free)>>) /\ SizeOK(<<"type", "free">>)
      BY <1>3 DEF SizeOK
    <2>3. \A i \in 1 .. 2 : i \in {1, 2}
      OBVIOUS
    <2> HIDE DEF w
    <2> QED
      BY <2>1, <2>2, <2>3 DEF IsWords
  <1> HIDE DEF w, free
  <1>5. IsWords(f)
    BY <1>1, <1>3, OverlayIsWords
  <1> HIDE DEF f
  <1>6. IsWords(Overlay(f, free, w))
    BY <1>3, <1>4, <1>5, OverlayIsWords
  <1>7. IsWords(file') /\ pos' = free + FreeLen(free) /\ lastError' \in BOOLEAN
    BY <1>1, <1>2, <1>6, CommitIsWords
  <1>8. pos' \in Nat
    BY <1>3, <1>7
  <1>9. Places'
    BY <1>1, <1>2 DEF Places
  <1> QED
    BY <1>1, <1>2, <1>7, <1>8, <1>9, TypeIntro

(* A step keeps the type invariant, *)
LEMMA NextTypeInv == TypeInv /\ [Next]_vars => TypeInv'
  <1> SUFFICES ASSUME TypeInv, [Next]_vars PROVE TypeInv'
    OBVIOUS
  <1>1. CASE BeginWrite
    BY <1>1, BeginWriteType
  <1>2. CASE \E size \in SampleSizes \union {0} : WriteSample(size)
    BY <1>2, WriteSampleType
  <1>3. CASE FinalizeFlush
    BY <1>3, FinalizeFlushType
  <1>4. CASE FinalizeMdat
    BY <1>4, FinalizeMdatType
  <1>5. CASE WriteMoov
    BY <1>5, WriteMoovType
  <1>6. CASE PatchMoov
    BY <1>6, PatchMoovType
  <1>7. CASE ShiftBlock
    BY <1>7, ShiftBlockType
  <1>8. CASE ShiftHeader
    BY <1>8, ShiftHeaderType
  <1>9. CASE WriteMoovFront
    BY <1>9, WriteMoovFrontType
  <1>10. CASE UNCHANGED vars
    BY <1>10 DEF TypeInv, TypeOK, Places, NoSamples, IsWords, IsSeq, WordAt, vars
  <1> QED
    BY <1>1, <1>2, <1>3, <1>4, <1>5, <1>6, <1>7, <1>8, <1>9, <1>10 DEF Next, Stopped

(* so it always holds. *)
LEMMA TypeInvAlways == Spec => []TypeInv
  <1>1. Init => TypeInv
    BY InitTypeInv
  <1>2. TypeInv /\ [Next]_vars => TypeInv'
    BY NextTypeInv
  <1> QED
    BY <1>1, <1>2, PTL DEF Spec

(* Every variable keeps its type. *)
THEOREM TypesAlways == Spec => []TypeOK
  <1>1. TypeInv => TypeOK
    BY DEF TypeInv
  <1> QED
    BY <1>1, TypeInvAlways, PTL

-----------------------------------------------------------------------------
(* The chunk table and the sample table *)

CountsOf(t) == [j \in DOMAIN t |-> t[j].n]
SizesOf(t) == [j \in DOMAIN t |-> t[j].size]

(* A chunk table and a sample table agree: each chunk has the size of its  *)
(* samples, and together they have all of them.                            *)
Chain(t, s) ==
    /\ SumTo(CountsOf(t), Len(t)) = Len(s)
    /\ \A j \in 1 .. Len(t) : SumTo(SizesOf(t), j) = SumTo(s, SumTo(CountsOf(t), j))

(* The counts and the sizes of a chunk table. *)
LEMMA ColumnFacts ==
    ASSUME NEW t \in Seq(Chunk)
    PROVE  /\ Len(t) \in Nat /\ DOMAIN t = 1 .. Len(t)
           /\ CountsOf(t) \in Seq(Nat) /\ Len(CountsOf(t)) = Len(t)
           /\ SizesOf(t) \in Seq(Nat) /\ Len(SizesOf(t)) = Len(t)
           /\ \A j \in 1 .. Len(t) : /\ t[j] \in Chunk
                                     /\ t[j].n \in Nat /\ CountsOf(t)[j] = t[j].n
                                     /\ t[j].size \in Nat /\ SizesOf(t)[j] = t[j].size
                                     /\ t[j].offset \in Nat
  <1>1. Len(t) \in Nat /\ DOMAIN t = 1 .. Len(t) /\ \A j \in 1 .. Len(t) : t[j] \in Chunk
    BY LenProperties
  <1>2. \A j \in 1 .. Len(t) : t[j].n \in Nat /\ t[j].size \in Nat /\ t[j].offset \in Nat
    BY <1>1 DEF Chunk
  <1> DEFINE f == CountsOf(t)
             g == SizesOf(t)
  <1>3. /\ f = [j \in 1 .. Len(t) |-> t[j].n]
        /\ g = [j \in 1 .. Len(t) |-> t[j].size]
    BY <1>1 DEF CountsOf, SizesOf
  <1> HIDE DEF f, g
  <1>4. /\ f = [j \in 1 .. Len(t) |-> f[j]] /\ g = [j \in 1 .. Len(t) |-> g[j]]
        /\ \A j \in 1 .. Len(t) : f[j] = t[j].n /\ g[j] = t[j].size
    BY <1>3
  <1>5. IsSeq(f) /\ Len(f) = Len(t) /\ IsSeq(g) /\ Len(g) = Len(t)
    BY <1>1, <1>4, IsSeqOfFunction
  <1>6. f \in Seq(Nat) /\ g \in Seq(Nat)
    BY <1>2, <1>4, <1>5, SeqOfIsSeq
  <1> QED
    BY <1>1, <1>2, <1>4, <1>5, <1>6 DEF f, g

(* Tables that differ in their offsets have the same counts and sizes. *)
LEMMA SameColumns ==
    ASSUME NEW t \in Seq(Chunk), NEW u \in Seq(Chunk), Len(t) = Len(u),
           \A j \in 1 .. Len(t) : t[j].n = u[j].n /\ t[j].size = u[j].size
    PROVE  CountsOf(t) = CountsOf(u) /\ SizesOf(t) = SizesOf(u)
  <1>1. DOMAIN t = 1 .. Len(t) /\ DOMAIN u = 1 .. Len(t)
    BY ColumnFacts
  <1> QED
    BY <1>1 DEF CountsOf, SizesOf

(* The number of samples up to a chunk. *)
LEMMA CountFacts ==
    ASSUME NEW t \in Seq(Chunk), NEW s \in Seq(Nat), Chain(t, s), NEW j \in 0 .. Len(t)
    PROVE  SumTo(CountsOf(t), j) \in 0 .. Len(s)
  <1> DEFINE f == CountsOf(t)
  <1>1. f \in Seq(Nat) /\ Len(f) = Len(t) /\ Len(t) \in Nat /\ Len(s) \in Nat
    BY ColumnFacts
  <1> HIDE DEF f
  <1>2. Len(t) \in 0 .. Len(f) /\ j \in 0 .. Len(f) /\ j \in 0 .. Len(t)
    BY <1>1
  <1>3. SumTo(f, j) \in Nat /\ SumTo(f, j) <= SumTo(f, Len(t))
    BY <1>1, <1>2, SumIsNat, SumGrows
  <1>4. SumTo(f, Len(t)) = Len(s)
    BY DEF Chain, f
  <1> QED
    BY <1>1, <1>3, <1>4 DEF f

(* A sample in a new chunk keeps the tables in agreement, *)
LEMMA ChainNewChunk ==
    ASSUME NEW t \in Seq(Chunk), NEW s \in Seq(Nat), Chain(t, s)
    PROVE  /\ Append(t, NewChunk) \in Seq(Chunk) /\ Append(t, NewChunk) # << >>
           /\ Len(Append(t, NewChunk)) = Len(t) + 1
           /\ \A j \in 1 .. Len(t) : Append(t, NewChunk)[j] = t[j]
           /\ Append(t, NewChunk)[Len(t) + 1] = NewChunk
           /\ Chain(Append(t, NewChunk), s)
           /\ \A j \in 0 .. Len(t) :
                 SumTo(SizesOf(Append(t, NewChunk)), j) = SumTo(SizesOf(t), j)
           /\ SumTo(SizesOf(Append(t, NewChunk)), Len(t) + 1) = SumTo(SizesOf(t), Len(t))
  <1> DEFINE u == Append(t, NewChunk)
             n == Len(t)
  <1>1. NewChunk \in Chunk
    BY DEF NewChunk, Chunk
  <1>2. /\ u \in Seq(Chunk) /\ u # << >> /\ Len(u) = n + 1
        /\ \A j \in 1 .. n : u[j] = t[j]
        /\ u[n + 1] = NewChunk
    BY <1>1, AppendProperties
  <1> HIDE DEF u
  <1> DEFINE ct == CountsOf(t)  zt == SizesOf(t)
             cu == CountsOf(u)  zu == SizesOf(u)
  <1>3. /\ n \in Nat /\ ct \in Seq(Nat) /\ zt \in Seq(Nat) /\ Len(ct) = n /\ Len(zt) = n
        /\ \A j \in 1 .. n : ct[j] = t[j].n /\ zt[j] = t[j].size
    BY ColumnFacts
  <1>4. /\ cu \in Seq(Nat) /\ zu \in Seq(Nat) /\ Len(cu) = n + 1 /\ Len(zu) = n + 1
        /\ \A j \in 1 .. n + 1 : cu[j] = u[j].n /\ zu[j] = u[j].size
    BY <1>2, ColumnFacts
  <1> HIDE DEF ct, zt, cu, zu
  <1>5. ASSUME NEW j \in 0 .. n
        PROVE  SumTo(cu, j) = SumTo(ct, j) /\ SumTo(zu, j) = SumTo(zt, j)
    <2>1. \A i \in 1 .. j : ct[i] = cu[i] /\ zt[i] = zu[i]
      <3>1. \A i \in 1 .. j : i \in 1 .. n /\ i \in 1 .. n + 1
        BY <1>3
      <3> QED
        BY <1>2, <1>3, <1>4, <3>1
    <2>2. j \in 0 .. Len(ct) /\ j \in 0 .. Len(zt) /\ j <= Len(cu) /\ j <= Len(zu)
      BY <1>3, <1>4
    <2> QED
      BY <1>3, <1>4, <2>1, <2>2, SumOfPrefix
  <1>6. SumTo(cu, n + 1) = SumTo(ct, n) /\ SumTo(zu, n + 1) = SumTo(zt, n)
    <2>1. n + 1 \in 1 .. n + 1 /\ n + 1 - 1 = n /\ n \in 0 .. n
      BY <1>3
    <2>2. cu[n + 1] = 0 /\ zu[n + 1] = 0
      BY <1>2, <1>4, <2>1 DEF NewChunk
    <2>3. SumTo(cu, n + 1) = SumTo(cu, n) + 0 /\ SumTo(zu, n + 1) = SumTo(zu, n) + 0
      <3>1. n + 1 \in 1 .. Len(cu) /\ n + 1 \in 1 .. Len(zu)
        BY <1>4, <2>1
      <3>2. /\ SumTo(cu, n + 1) = SumTo(cu, n + 1 - 1) + cu[n + 1]
            /\ SumTo(zu, n + 1) = SumTo(zu, n + 1 - 1) + zu[n + 1]
        BY <1>4, <3>1, SumOfOneMore
      <3> QED
        BY <2>1, <2>2, <3>2
    <2>4. SumTo(ct, n) \in Nat /\ SumTo(zt, n) \in Nat
      BY <1>3, <2>1, SumIsNat
    <2> QED
      BY <1>5, <2>1, <2>3, <2>4
  <1>7. /\ SumTo(ct, n) = Len(s)
        /\ \A j \in 1 .. n : SumTo(zt, j) = SumTo(s, SumTo(ct, j))
    BY DEF Chain, ct, zt
  <1>8. SumTo(zt, n) = SumTo(s, Len(s))
    <2>1. CASE n = 0
      <3>1. SumTo(ct, 0) = 0 /\ SumTo(zt, 0) = 0 /\ SumTo(s, 0) = 0
        BY <1>3, SumOfNone
      <3> QED
        BY <1>7, <2>1, <3>1
    <2>2. CASE n # 0
      <3>1. n \in 1 .. n
        BY <1>3, <2>2
      <3> QED
        BY <1>7, <3>1
    <2> QED
      BY <2>1, <2>2
  <1>9. Chain(u, s)
    <2>1. SumTo(cu, n + 1) = Len(s)
      BY <1>6, <1>7
    <2>2. ASSUME NEW j \in 1 .. n + 1
          PROVE  SumTo(zu, j) = SumTo(s, SumTo(cu, j))
      <3>1. CASE j = n + 1
        BY <1>6, <1>7, <1>8, <3>1
      <3>2. CASE j # n + 1
        <4>1. j \in 1 .. n /\ j \in 0 .. n
          BY <1>3, <3>2
        <4> QED
          BY <1>5, <1>7, <4>1
      <3> QED
        BY <3>1, <3>2
    <2> QED
      BY <1>2, <2>1, <2>2 DEF Chain, cu, zu
  <1> QED
    BY <1>2, <1>5, <1>6, <1>9 DEF u, zu, zt

(* and so does a sample in the last chunk. *)
LEMMA ChainGrow ==
    ASSUME NEW t \in Seq(Chunk), t # << >>, NEW s \in Seq(Nat), Chain(t, s), NEW size \in Nat
    PROVE  /\ Chain(TableOf(t, size), Append(s, size))
           /\ \A j \in 0 .. Len(t) - 1 :
                 SumTo(SizesOf(TableOf(t, size)), j) = SumTo(SizesOf(t), j)
           /\ SumTo(SizesOf(TableOf(t, size)), Len(t)) = SumTo(SizesOf(t), Len(t)) + size
  <1> DEFINE u == TableOf(t, size)
             n == Len(t)
             r == Append(s, size)
  <1>1. /\ u \in Seq(Chunk) /\ Len(u) = n
        /\ \A j \in 1 .. n : /\ u[j].size = IF j = n THEN t[j].size + size ELSE t[j].size
                             /\ u[j].n = IF j = n THEN t[j].n + 1 ELSE t[j].n
    BY GrownFacts
  <1>2. n \in Nat /\ n # 0
    OBVIOUS
  <1> HIDE DEF u
  <1>3. /\ r \in Seq(Nat) /\ Len(r) = Len(s) + 1 /\ Len(s) \in Nat
        /\ SumTo(r, Len(s) + 1) = SumTo(s, Len(s)) + size
        /\ \A i \in 0 .. Len(s) : SumTo(r, i) = SumTo(s, i)
    BY AppendProperties, SumAppend
  <1> HIDE DEF r
  <1> DEFINE ct == CountsOf(t)  zt == SizesOf(t)
             cu == CountsOf(u)  zu == SizesOf(u)
  <1>4. /\ ct \in Seq(Nat) /\ zt \in Seq(Nat) /\ Len(ct) = n /\ Len(zt) = n
        /\ \A j \in 1 .. n : /\ ct[j] = t[j].n /\ zt[j] = t[j].size
                             /\ t[j].n \in Nat /\ t[j].size \in Nat
    BY ColumnFacts
  <1>5. /\ cu \in Seq(Nat) /\ zu \in Seq(Nat) /\ Len(cu) = n /\ Len(zu) = n
        /\ \A j \in 1 .. n : cu[j] = u[j].n /\ zu[j] = u[j].size
    BY <1>1, ColumnFacts
  <1>6. \A j \in 0 .. n : SumTo(ct, j) \in 0 .. Len(s)
    BY CountFacts
  <1>7. /\ SumTo(ct, n) = Len(s)
        /\ \A j \in 1 .. n : SumTo(zt, j) = SumTo(s, SumTo(ct, j))
    BY DEF Chain
  <1> HIDE DEF ct, zt, cu, zu
  <1>8. ASSUME NEW j \in 0 .. n - 1
        PROVE  SumTo(cu, j) = SumTo(ct, j) /\ SumTo(zu, j) = SumTo(zt, j)
    <2>1. \A i \in 1 .. j : i \in 1 .. n /\ i # n
      BY <1>2
    <2>2. \A i \in 1 .. j : ct[i] = cu[i] /\ zt[i] = zu[i]
      BY <1>1, <1>4, <1>5, <2>1
    <2>3. j \in 0 .. Len(ct) /\ j \in 0 .. Len(zt) /\ j <= Len(cu) /\ j <= Len(zu)
      BY <1>2, <1>4, <1>5
    <2> QED
      BY <1>4, <1>5, <2>2, <2>3, SumOfPrefix
  <1>9. SumTo(cu, n) = SumTo(ct, n) + 1 /\ SumTo(zu, n) = SumTo(zt, n) + size
    <2>1. n \in 1 .. n /\ n - 1 \in 0 .. n - 1 /\ n - 1 \in 0 .. n
      BY <1>2
    <2>2. cu[n] = ct[n] + 1 /\ zu[n] = zt[n] + size /\ ct[n] \in Nat /\ zt[n] \in Nat
      BY <1>1, <1>4, <1>5, <2>1
    <2>3. /\ SumTo(cu, n) = SumTo(cu, n - 1) + cu[n] /\ SumTo(zu, n) = SumTo(zu, n - 1) + zu[n]
          /\ SumTo(ct, n) = SumTo(ct, n - 1) + ct[n] /\ SumTo(zt, n) = SumTo(zt, n - 1) + zt[n]
      BY <1>4, <1>5, <2>1, SumOfOneMore
    <2>4. SumTo(ct, n - 1) \in Nat /\ SumTo(zt, n - 1) \in Nat
      BY <1>4, <2>1, SumIsNat
    <2>5. SumTo(cu, n - 1) = SumTo(ct, n - 1) /\ SumTo(zu, n - 1) = SumTo(zt, n - 1)
      BY <1>8, <2>1
    <2> QED
      BY <2>2, <2>3, <2>4, <2>5
  <1>10. Chain(u, r)
    <2>1. SumTo(cu, n) = Len(r)
      BY <1>3, <1>7, <1>9
    <2>2. ASSUME NEW j \in 1 .. n
          PROVE  SumTo(zu, j) = SumTo(r, SumTo(cu, j))
      <3>1. CASE j = n
        <4>1. SumTo(zt, n) = SumTo(s, Len(s))
          BY <1>7, <3>1
        <4> QED
          BY <1>3, <1>7, <1>9, <3>1, <4>1
      <3>2. CASE j # n
        <4>1. j \in 0 .. n - 1 /\ j \in 0 .. n
          BY <1>2, <3>2
        <4>2. SumTo(r, SumTo(ct, j)) = SumTo(s, SumTo(ct, j))
          BY <1>3, <1>6, <4>1
        <4> QED
          BY <1>7, <1>8, <4>1, <4>2
      <3> QED
        BY <3>1, <3>2
    <2> QED
      BY <1>1, <2>1, <2>2 DEF Chain, cu, zu
  <1> QED
    BY <1>8, <1>9, <1>10 DEF u, r, zu, zt

-----------------------------------------------------------------------------
(* The tables, the chunk buffer and the file position *)

(* m4af_write_sample() may still be called: the last chunk is in the       *)
(* buffer and has no place yet.                                            *)
Pending == pc \in {"write", "finalize"}

(* Where the offsets say the media data are. *)
Base == IF pc = "shift" THEN mdatPos + shiftBy ELSE mdatPos

(* Only the last sample may be empty, and so only the last chunk. *)
TableInv ==
    /\ Chain(chunks, samples)
    /\ \A j \in 1 .. Len(chunks) :
          /\ chunks[j].n > 0
          /\ chunks[j].size = 0 => j = Len(chunks) /\ pc # "write"
    /\ SumTo(SizesOf(chunks), Len(chunks)) = mdatSize + Len(buffer)
    /\ pc # "write" => samples # << >>

(* A chunk with data that is in the file is where the sizes before it put  *)
(* it; a chunk that is not has no place, and all of it is in the buffer.   *)
PlaceInv ==
    /\ \A j \in 1 .. Len(chunks) :
          chunks[j].size > 0 /\ (j < Len(chunks) \/ ~Pending) =>
             chunks[j].offset = Base + SumTo(SizesOf(chunks), j - 1)
    /\ pc \in {"write", "finalize", "mdat", "moov"} => pos = mdatPos + mdatSize
    /\ Pending => \/ chunks = << >> /\ Len(buffer) = 0
                  \/ /\ chunks # << >>
                     /\ Len(buffer) = chunks[Len(chunks)].size
                     /\ chunks[Len(chunks)].offset = 0
    /\ ~Pending => buffer = << >>

ChunkInv == ~Failed /\ pc # "begin" => TableInv /\ PlaceInv

(* A flag that says something failed stays. *)
LEMMA FailedStays ==
    ASSUME TypeInv, Next, ~Failed'
    PROVE  ~Failed /\ ~lastError' /\ ~readFailed'
  <1>1. lastError \in BOOLEAN /\ readFailed \in BOOLEAN
    BY TypeFacts DEF TypeInv
  <1>2. ~lastError' /\ ~readFailed'
    BY DEF Failed
  <1>4. lastError => lastError'
    <2>1. ASSUME NEW f, NEW p, Commit(f, p), lastError
          PROVE  lastError'
      BY <2>1 DEF Commit
    <2>2. ASSUME NEW size \in SampleSizes \union {0}, WriteSample(size), lastError
          PROVE  lastError'
      BY <2>2 DEF WriteSample
    <2> QED
      BY <2>1, <2>2 DEF Next, BeginWrite, FinalizeFlush, FlushChunk, FinalizeMdat, WriteMoov,
         PatchMoov, ShiftBlock, ShiftHeader, WriteMoovFront, Stopped, vars
  <1>5. readFailed => readFailed'
    BY DEF Next, BeginWrite, WriteSample, FinalizeFlush, FinalizeMdat, WriteMoov,
       PatchMoov, ShiftBlock, ShiftHeader, WriteMoovFront, Stopped, vars
  <1> QED
    BY <1>2, <1>4, <1>5 DEF Failed

(* The table after the last chunk was written. *)
LEMMA FlushPlaces ==
    ASSUME TypeInv, TableInv, PlaceInv, Pending
    PROVE  /\ Flushed \in Seq(Chunk) /\ Len(Flushed) = Len(chunks)
           /\ Chain(Flushed, samples) /\ SizesOf(Flushed) = SizesOf(chunks)
           /\ \A j \in 1 .. Len(chunks) :
                 /\ Flushed[j].n = chunks[j].n /\ Flushed[j].size = chunks[j].size
                 /\ chunks[j].size > 0 =>
                       Flushed[j].offset = mdatPos + SumTo(SizesOf(chunks), j - 1)
  <1>1. /\ chunks \in Seq(Chunk) /\ pos \in Nat /\ mdatPos \in Nat /\ mdatSize \in Nat
        /\ buffer \in Seq(BufferWords(samples))
    BY TypeFacts DEF TypeInv
  <1>2. /\ Flushed \in Seq(Chunk) /\ Len(Flushed) = Len(chunks)
        /\ \A j \in 1 .. Len(chunks) :
              /\ Flushed[j].size = chunks[j].size
              /\ Flushed[j].n = chunks[j].n
              /\ Flushed[j].offset =
                    IF j = Len(chunks) /\ buffer # << >> THEN pos ELSE chunks[j].offset
    BY <1>1, FlushedFacts
  <1>3. CountsOf(Flushed) = CountsOf(chunks) /\ SizesOf(Flushed) = SizesOf(chunks)
    BY <1>1, <1>2, SameColumns
  <1>4. Chain(Flushed, samples)
    BY <1>2, <1>3 DEF TableInv, Chain
  <1>5. pc # "shift" /\ Base = mdatPos
    BY DEF Pending, Base
  <1>6. pos = mdatPos + mdatSize
    BY DEF Pending, PlaceInv
  <1> DEFINE z == SizesOf(chunks)
  <1>7. /\ z \in Seq(Nat) /\ Len(z) = Len(chunks) /\ Len(chunks) \in Nat
        /\ \A j \in 1 .. Len(chunks) : z[j] = chunks[j].size /\ chunks[j].size \in Nat
    BY <1>1, ColumnFacts
  <1>8. SumTo(z, Len(chunks)) = mdatSize + Len(buffer)
    BY DEF TableInv
  <1>9. ASSUME NEW j \in 1 .. Len(chunks), chunks[j].size > 0
        PROVE  Flushed[j].offset = mdatPos + SumTo(z, j - 1)
    <2>1. CASE j < Len(chunks)
      <3>1. chunks[j].offset = mdatPos + SumTo(z, j - 1)
        BY <1>5, <1>9, <2>1 DEF PlaceInv
      <3> QED
        BY <1>2, <1>7, <2>1, <3>1
    <2>2. CASE j = Len(chunks)
      <3>1. Len(buffer) = chunks[j].size
        BY <2>2, <1>7 DEF PlaceInv
      <3>2. buffer # << >>
        BY <1>9, <3>1, EmptyIsWords
      <3>3. Flushed[j].offset = pos
        BY <1>2, <2>2, <3>2
      <3> HIDE DEF z
      <3>4. SumTo(z, j) = SumTo(z, j - 1) + z[j]
        BY <1>7, SumOfOneMore
      <3>5. j - 1 \in 0 .. Len(z)
        BY <1>7
      <3>6. SumTo(z, j - 1) \in Nat
        BY <1>7, <3>5, SumIsNat
      <3>7. SumTo(z, j - 1) = mdatSize
        BY <1>1, <1>7, <1>8, <2>2, <3>1, <3>4, <3>6
      <3> QED
        BY <1>6, <3>3, <3>7
    <2> QED
      BY <1>7, <2>1, <2>2
  <1> QED
    BY <1>2, <1>3, <1>4, <1>9

(* Each action keeps ChunkInv. *)
LEMMA BeginWriteChunks ==
    ASSUME TypeInv, BeginWrite
    PROVE  ChunkInv'
  <1>1. /\ samples' = << >> /\ chunks' = << >> /\ buffer' = << >> /\ mdatSize' = 0
        /\ pc' = "write" /\ mdatPos' = Len(Head0) /\ pos' = Len(Head0)
    BY DEF BeginWrite, Commit, Head0, TypeInv, Places, NoSamples
  <1>2. mdatPos' = 12 /\ pos' = 12
    BY <1>1, HeadFacts
  <1>3. << >> \in Seq(Nat) /\ << >> \in Seq(Chunk) /\ Len(<< >>) = 0
    BY EmptySeq
  <1>4. CountsOf(<< >>) \in Seq(Nat) /\ SizesOf(<< >>) \in Seq(Nat)
    BY <1>3, ColumnFacts
  <1>5. SumTo(CountsOf(<< >>), 0) = 0 /\ SumTo(SizesOf(<< >>), 0) = 0
    BY <1>4, SumOfNone
  <1>6. \A j : ~(j \in 1 .. 0)
    OBVIOUS
  <1>7. Chain(<< >>, << >>)
    BY <1>3, <1>5, <1>6 DEF Chain
  <1>8. TableInv'
    BY <1>1, <1>3, <1>5, <1>6, <1>7 DEF TableInv
  <1>9. PlaceInv'
    BY <1>1, <1>2, <1>3, <1>6 DEF PlaceInv, Pending
  <1> QED
    BY <1>8, <1>9 DEF ChunkInv

LEMMA WriteSampleChunks ==
    ASSUME TypeInv, ChunkInv, NEW size \in SampleSizes \union {0}, WriteSample(size),
           ~Failed, ~lastError'
    PROVE  TableInv' /\ PlaceInv'
  <1>1. /\ pos \in Nat /\ mdatPos \in Nat /\ mdatSize \in Nat
        /\ samples \in Seq(Nat) /\ size \in Nat
        /\ chunks \in Seq(Chunk) /\ buffer \in Seq(BufferWords(samples)) /\ Len(buffer) \in Nat
    BY TypeFacts, SizesAreNat DEF TypeInv
  <1>2. pc = "write" /\ Pending /\ TableInv /\ PlaceInv
    BY DEF WriteSample, Pending, ChunkInv
  <1> DEFINE table == IF StartsChunk THEN Append(Flushed, NewChunk) ELSE chunks
             data == Data(Len(samples) + 1, size)
             n == Len(chunks)
             z == SizesOf(chunks)
  <1>3. /\ samples' = Append(samples, size)
        /\ chunks' = TableOf(table, size)
        /\ IF StartsChunk THEN FlushChunk /\ buffer' = data
           ELSE buffer' = buffer \o data /\ UNCHANGED <<file, pos, mdatSize>>
        /\ mdatPos' = mdatPos
        /\ pc' = IF size = 0 THEN "finalize" ELSE "write"
    BY DEF WriteSample, TableOf, Failed
  <1>4. Len(data) = size /\ data \in Seq(BufferWords(samples'))
        /\ BufferWords(samples) \subseteq BufferWords(samples')
    BY <1>1, <1>3, BufferFacts
  <1> HIDE DEF data
  <1>5. /\ n \in Nat /\ z \in Seq(Nat) /\ Len(z) = n
        /\ \A j \in 1 .. n : z[j] = chunks[j].size /\ chunks[j].size \in Nat /\ chunks[j].n \in Nat
    BY <1>1, ColumnFacts
  <1>6. samples' \in Seq(Nat) /\ samples' # << >>
    BY <1>1, <1>3, AppendProperties
  <1>7. Pending' /\ pc' # "shift" /\ Base' = mdatPos
    BY <1>3 DEF Pending, Base
  <1>8. SumTo(z, n) = mdatSize + Len(buffer) /\ pos = mdatPos + mdatSize
    BY <1>2 DEF TableInv, PlaceInv
  <1>9. CASE StartsChunk
    <2>1. FlushChunk /\ buffer' = data
      BY <1>3, <1>9
    <2>2. pos' = pos + Len(buffer) /\ mdatSize' = mdatSize + Len(buffer)
      BY <2>1, FlushChunkFacts
    <2> DEFINE u == Append(Flushed, NewChunk)
    <2>3. /\ Flushed \in Seq(Chunk) /\ Len(Flushed) = n
          /\ Chain(Flushed, samples) /\ SizesOf(Flushed) = z
          /\ \A j \in 1 .. n :
                /\ Flushed[j].n = chunks[j].n /\ Flushed[j].size = chunks[j].size
                /\ chunks[j].size > 0 => Flushed[j].offset = mdatPos + SumTo(z, j - 1)
      BY <1>2, FlushPlaces
    <2>4. /\ u \in Seq(Chunk) /\ u # << >> /\ Len(u) = n + 1
          /\ \A j \in 1 .. n : u[j] = Flushed[j]
          /\ u[n + 1] = NewChunk
          /\ Chain(u, samples)
          /\ \A j \in 0 .. n : SumTo(SizesOf(u), j) = SumTo(z, j)
          /\ SumTo(SizesOf(u), n + 1) = SumTo(z, n)
      <3> HIDE DEF u
      <3>1. PICK f \in Seq(Chunk) : f = Flushed
        BY <2>3
      <3>2. u = Append(f, NewChunk) /\ Len(f) = n /\ Chain(f, samples) /\ SizesOf(f) = z
        BY <2>3, <3>1 DEF u
      <3> HIDE DEF n, z
      <3> QED
        BY <1>1, <3>1, <3>2, ChainNewChunk
    <2>5. chunks' = TableOf(u, size)
      BY <1>3, <1>9
    <2> HIDE DEF u, z, n
    <2>6. /\ Len(chunks') = n + 1
          /\ \A j \in 1 .. n + 1 :
                /\ chunks'[j].offset = u[j].offset
                /\ chunks'[j].size = IF j = n + 1 THEN u[j].size + size ELSE u[j].size
                /\ chunks'[j].n = IF j = n + 1 THEN u[j].n + 1 ELSE u[j].n
      BY <1>1, <2>4, <2>5, GrownFacts
    <2>7. /\ Chain(chunks', samples')
          /\ \A j \in 0 .. n : SumTo(SizesOf(chunks'), j) = SumTo(z, j)
          /\ SumTo(SizesOf(chunks'), n + 1) = SumTo(z, n) + size
      <3>1. /\ Chain(TableOf(u, size), Append(samples, size))
            /\ \A j \in 0 .. Len(u) - 1 :
                  SumTo(SizesOf(TableOf(u, size)), j) = SumTo(SizesOf(u), j)
            /\ SumTo(SizesOf(TableOf(u, size)), Len(u)) = SumTo(SizesOf(u), Len(u)) + size
        BY <1>1, <2>4, ChainGrow
      <3>2. Len(u) - 1 = n
        BY <1>5, <2>4
      <3> QED
        BY <1>3, <2>4, <2>5, <3>1, <3>2
    <2>8. /\ chunks'[n + 1].size = size /\ chunks'[n + 1].n = 1 /\ chunks'[n + 1].offset = 0
          /\ n + 1 \in 1 .. n + 1
      <3>1. n + 1 \in 1 .. n + 1
        BY <1>5
      <3> QED
        BY <1>1, <2>4, <2>6, <3>1 DEF NewChunk
    <2>9. ASSUME NEW j \in 1 .. n
          PROVE  /\ chunks'[j].size = chunks[j].size /\ chunks'[j].n = chunks[j].n
                 /\ chunks'[j].size > 0 => chunks'[j].offset = mdatPos + SumTo(z, j - 1)
      <3>1. j \in 1 .. n + 1 /\ j # n + 1
        BY <1>5
      <3> QED
        BY <2>3, <2>4, <2>6, <3>1
    <2>10. TableInv'
      <3>1. ASSUME NEW j \in 1 .. n + 1
            PROVE  chunks'[j].n > 0 /\ (chunks'[j].size = 0 => j = n + 1 /\ pc' # "write")
        <4>1. CASE j = n + 1
          BY <1>3, <2>8, <4>1
        <4>2. CASE j # n + 1
          <5>1. j \in 1 .. n
            BY <1>5, <4>2
          <5>2. chunks[j].n > 0 /\ chunks[j].size # 0
            BY <1>2, <5>1 DEF TableInv, n
          <5> QED
            BY <2>9, <5>1, <5>2
        <4> QED
          BY <4>1, <4>2
      <3>2. SumTo(SizesOf(chunks'), n + 1) = mdatSize' + Len(buffer')
        BY <1>4, <1>8, <2>1, <2>2, <2>7
      <3> QED
        BY <1>6, <2>6, <2>7, <3>1, <3>2 DEF TableInv
    <2>11. PlaceInv'
      <3>1. ASSUME NEW j \in 1 .. n + 1, chunks'[j].size > 0, j < n + 1
            PROVE  chunks'[j].offset = mdatPos + SumTo(SizesOf(chunks'), j - 1)
        <4>1. j \in 1 .. n /\ j - 1 \in 0 .. n
          BY <1>5, <3>1
        <4> QED
          BY <2>7, <2>9, <3>1, <4>1
      <3>2. pos' = mdatPos' + mdatSize'
        BY <1>1, <1>3, <1>8, <2>2
      <3>3. Len(buffer') = chunks'[n + 1].size
        BY <1>4, <2>1, <2>8
      <3>4. chunks' # << >>
        BY <1>5, <2>6, EmptyIsWords
      <3> QED
        BY <1>7, <2>6, <2>8, <3>1, <3>2, <3>3, <3>4 DEF PlaceInv
    <2> QED
      BY <2>10, <2>11
  <1>10. CASE ~StartsChunk
    <2>1. buffer' = buffer \o data /\ UNCHANGED <<file, pos, mdatSize>> /\ chunks' = TableOf(chunks, size)
      BY <1>3, <1>10
    <2>2. chunks # << >> /\ n # 0
      BY <1>1, <1>10 DEF StartsChunk
    <2>3. Len(buffer') = Len(buffer) + size
      <3>1. buffer \in Seq(BufferWords(samples'))
        BY <1>1, <1>4, SeqMonotonic
      <3> QED
        BY <1>4, <2>1, <3>1, ConcatProperties
    <2>4. /\ Len(chunks') = n
          /\ \A j \in 1 .. n :
                /\ chunks'[j].offset = chunks[j].offset
                /\ chunks'[j].size = IF j = n THEN chunks[j].size + size ELSE chunks[j].size
                /\ chunks'[j].n = IF j = n THEN chunks[j].n + 1 ELSE chunks[j].n
      BY <1>1, <2>1, <2>2, GrownFacts
    <2>5. /\ Chain(chunks', samples')
          /\ \A j \in 0 .. n - 1 : SumTo(SizesOf(chunks'), j) = SumTo(z, j)
          /\ SumTo(SizesOf(chunks'), n) = SumTo(z, n) + size
      BY <1>1, <1>2, <1>3, <2>1, <2>2, ChainGrow DEF TableInv
    <2>6. n \in 1 .. n
      BY <1>5, <2>2
    <2>7. TableInv'
      <3>1. ASSUME NEW j \in 1 .. n
            PROVE  chunks'[j].n > 0 /\ (chunks'[j].size = 0 => j = n /\ pc' # "write")
        <4>1. chunks[j].n > 0 /\ chunks[j].size > 0 /\ chunks[j].n \in Nat /\ chunks[j].size \in Nat
          BY <1>2, <1>5 DEF TableInv
        <4>2. /\ chunks'[j].size = IF j = n THEN chunks[j].size + size ELSE chunks[j].size
              /\ chunks'[j].n = IF j = n THEN chunks[j].n + 1 ELSE chunks[j].n
          BY <2>4
        <4>3. chunks'[j].size > 0 /\ chunks'[j].n > 0
          BY <1>1, <4>1, <4>2
        <4> QED
          BY <4>3
      <3>2. SumTo(SizesOf(chunks'), n) = mdatSize' + Len(buffer')
        BY <1>1, <1>8, <2>1, <2>3, <2>5
      <3> QED
        BY <1>6, <2>4, <2>5, <3>1, <3>2 DEF TableInv
    <2>8. PlaceInv'
      <3>1. ASSUME NEW j \in 1 .. n, chunks'[j].size > 0, j < n
            PROVE  chunks'[j].offset = mdatPos + SumTo(SizesOf(chunks'), j - 1)
        <4>1. j - 1 \in 0 .. n - 1 /\ j # n
          BY <1>5, <3>1
        <4>2. chunks[j].size > 0 /\ Base = mdatPos
          BY <1>2, <2>4, <3>1, <4>1 DEF Base
        <4>3. chunks[j].offset = mdatPos + SumTo(z, j - 1)
          BY <1>2, <3>1, <4>2 DEF PlaceInv
        <4> QED
          BY <2>4, <2>5, <4>1, <4>3
      <3>2. Len(buffer') = chunks'[n].size /\ chunks'[n].offset = 0
        <4>1. Len(buffer) = chunks[n].size /\ chunks[n].offset = 0
          BY <1>2, <2>2 DEF PlaceInv
        <4> QED
          BY <2>3, <2>4, <2>6, <4>1
      <3>3. chunks' # << >>
        BY <2>2, <2>4, EmptyIsWords
      <3> QED
        BY <1>3, <1>7, <1>8, <2>1, <2>4, <3>1, <3>2, <3>3 DEF PlaceInv
    <2> QED
      BY <2>7, <2>8
  <1> QED
    BY <1>9, <1>10

LEMMA FinalizeFlushChunks ==
    ASSUME TypeInv, ChunkInv, FinalizeFlush, ~Failed
    PROVE  TableInv' /\ PlaceInv'
  <1>1. /\ pos \in Nat /\ mdatPos \in Nat /\ mdatSize \in Nat
        /\ chunks \in Seq(Chunk) /\ Len(buffer) \in Nat
    BY TypeFacts DEF TypeInv
  <1>2. Pending /\ TableInv /\ PlaceInv
    BY DEF FinalizeFlush, Pending, ChunkInv
  <1>3. /\ samples # << >> /\ FlushChunk /\ chunks' = Flushed /\ buffer' = << >> /\ pc' = "mdat"
        /\ UNCHANGED <<mdatPos, samples>>
    BY DEF FinalizeFlush
  <1>4. /\ Len(chunks') = Len(chunks)
        /\ Chain(chunks', samples) /\ SizesOf(chunks') = SizesOf(chunks)
        /\ \A j \in 1 .. Len(chunks) :
              /\ chunks'[j].n = chunks[j].n /\ chunks'[j].size = chunks[j].size
              /\ chunks[j].size > 0 =>
                    chunks'[j].offset = mdatPos + SumTo(SizesOf(chunks), j - 1)
    BY <1>2, <1>3, FlushPlaces
  <1>5. pos' = pos + Len(buffer) /\ mdatSize' = mdatSize + Len(buffer) /\ Len(buffer') = 0
    BY <1>3, FlushChunkFacts, EmptyIsWords
  <1>6. pos = mdatPos + mdatSize
    BY <1>2 DEF PlaceInv, Pending
  <1>7. TableInv'
    <2>1. SumTo(SizesOf(chunks'), Len(chunks')) = mdatSize' + Len(buffer')
      BY <1>1, <1>2, <1>4, <1>5 DEF TableInv
    <2>2. \A j \in 1 .. Len(chunks') :
             chunks'[j].n > 0 /\ (chunks'[j].size = 0 => j = Len(chunks') /\ pc' # "write")
      BY <1>2, <1>3, <1>4 DEF TableInv
    <2> QED
      BY <1>3, <1>4, <2>1, <2>2 DEF TableInv
  <1>8. PlaceInv'
    <2>1. Base' = mdatPos /\ ~Pending'
      BY <1>3 DEF Base, Pending
    <2>2. \A j \in 1 .. Len(chunks') :
             chunks'[j].size > 0 => chunks'[j].offset = mdatPos + SumTo(SizesOf(chunks'), j - 1)
      BY <1>4
    <2>3. pos' = mdatPos' + mdatSize'
      BY <1>1, <1>3, <1>5, <1>6
    <2> QED
      BY <1>3, <2>1, <2>2, <2>3 DEF PlaceInv
  <1> QED
    BY <1>7, <1>8

(* The steps that leave the tables alone. *)
LEMMA KeptChunks ==
    ASSUME TableInv, PlaceInv, ~Pending, pc # "begin",
           UNCHANGED <<chunks, samples, buffer, mdatSize>>,
           pc' \notin {"begin", "write", "finalize"}, Base' = Base,
           pc' \in {"mdat", "moov"} => pos' = mdatPos' + mdatSize'
    PROVE  TableInv' /\ PlaceInv'
  <1>1. TableInv'
    BY DEF TableInv, Pending
  <1>2. PlaceInv'
    BY DEF PlaceInv, Pending
  <1> QED
    BY <1>1, <1>2

(* There is a chunk when there is a sample. *)
LEMMA ChunksNonempty ==
    ASSUME NEW t \in Seq(Chunk), NEW s \in Seq(Nat), Chain(t, s), s # << >>
    PROVE  t # << >> /\ Len(t) \in 1 .. Len(t)
  <1>1. Len(s) # 0 /\ Len(t) \in Nat
    OBVIOUS
  <1>2. ASSUME Len(t) = 0
        PROVE  FALSE
    <2>1. CountsOf(t) \in Seq(Nat)
      BY ColumnFacts
    <2>2. SumTo(CountsOf(t), 0) = 0
      BY <2>1, SumOfNone
    <2> QED
      BY <1>1, <1>2, <2>2 DEF Chain
  <1> QED
    BY <1>1, <1>2, EmptyIsWords

(* The length of moov does not shrink when the offsets grow. *)
LEMMA MoovLenGrows ==
    ASSUME NEW t \in Seq(Chunk), NEW u \in Seq(Chunk), Len(t) = Len(u),
           Len(t) \in 1 .. Len(t), t[Len(t)].offset <= u[Len(u)].offset
    PROVE  /\ MoovLen(t) <= MoovLen(u) /\ MoovLen(t) \in Nat /\ MoovLen(u) \in Nat
           /\ Is64(t) => Is64(u)
           /\ (Is64(t) <=> Is64(u)) => MoovLen(t) = MoovLen(u)
  <1>1. /\ MaxUint32 \in Nat /\ MoovFixed \in Nat /\ Len(t) \in Nat
        /\ t[Len(t)].offset \in Nat /\ u[Len(u)].offset \in Nat
    BY M4afAssumption, ColumnFacts
  <1>2. Is64(t) => Is64(u)
    BY <1>1 DEF Is64
  <1>3. /\ MoovLen(t) = MoovFixed + Len(t) * (IF Is64(t) THEN 2 ELSE 1)
        /\ MoovLen(u) = MoovFixed + Len(t) * (IF Is64(u) THEN 2 ELSE 1)
    BY DEF MoovLen
  <1>4. \A n \in Nat : n * 2 = n + n /\ n * 1 = n
    OBVIOUS
  <1>5. /\ MoovLen(t) = MoovFixed + (IF Is64(t) THEN Len(t) + Len(t) ELSE Len(t))
        /\ MoovLen(u) = MoovFixed + (IF Is64(u) THEN Len(t) + Len(t) ELSE Len(t))
    BY <1>1, <1>3, <1>4
  <1> HIDE DEF Is64
  <1> QED
    BY <1>1, <1>2, <1>5

(* The offsets grow by as much as the media data move: the second time     *)
(* moov grows, they do not become wider once more.                         *)
LEMMA PatchMovesAsFar ==
    ASSUME TypeInv, TableInv, PatchMoov
    PROVE  PatchBy = shiftBy' /\ MoovLen(chunks) <= MoovLen(chunks')
  <1> DEFINE a == moovSize + Slack
             once == Shifted(chunks, a)
             b == MoovLen(once) - moovSize
             n == Len(chunks)
  <1>1. /\ chunks \in Seq(Chunk) /\ moovSize \in Nat /\ Slack \in Nat /\ samples \in Seq(Nat)
        /\ moovSize = MoovLen(chunks) /\ TypeOK
    <2>1. TypeOK /\ moovSize = MoovLen(chunks)
      BY DEF TypeInv, Places, PatchMoov
    <2>2. chunks \in Seq(Chunk) /\ moovSize \in Nat /\ samples \in Seq(Nat)
      BY <2>1, TypeFacts, SizesAreNat
    <2>3. Slack \in Nat
      BY M4afAssumption
    <2> QED
      BY <2>1, <2>2, <2>3
  <1>2. samples # << >> /\ Chain(chunks, samples)
    BY DEF TableInv, PatchMoov
  <1>3. n \in 1 .. n /\ n \in Nat
    BY <1>1, <1>2, ChunksNonempty, ColumnFacts
  <1>4. chunks' = Shifted(once, b) /\ shiftBy' = MoovLen(chunks') + Slack /\ PatchBy = Slack + MoovLen(once)
    BY DEF PatchMoov, PatchBy
  <1>5. /\ a \in Nat
        /\ \A j \in 1 .. n : /\ chunks[j] \in Chunk /\ chunks[j].offset \in Nat
                             /\ chunks[j].offset + a \in Nat
    <2>1. a \in Nat
      BY <1>1
    <2> HIDE DEF a
    <2>2. ASSUME NEW j \in 1 .. n
          PROVE  /\ chunks[j] \in Chunk /\ chunks[j].offset \in Nat
                 /\ chunks[j].offset + a \in Nat
      <3>1. chunks[j] \in Chunk /\ chunks[j].offset \in Nat
        BY <1>1, ColumnFacts
      <3> QED
        BY <2>1, <3>1
    <2> QED
      BY <2>1, <2>2
  <1> HIDE DEF a
  <1>6. /\ once \in Seq(Chunk) /\ Len(once) = n
        /\ \A j \in 1 .. n : once[j] = [chunks[j] EXCEPT !.offset = @ + a]
    BY <1>1, <1>5, ShiftedFacts
  <1>7. once[n].offset = chunks[n].offset + a /\ once[n].offset \in Nat
    BY <1>3, <1>5, <1>6 DEF Chunk
  <1> HIDE DEF once
  <1>8. /\ moovSize <= MoovLen(once) /\ MoovLen(once) \in Nat
        /\ Is64(chunks) => Is64(once)
        /\ (Is64(chunks) <=> Is64(once)) => moovSize = MoovLen(once)
    <2>1. chunks[n].offset <= once[n].offset
      BY <1>3, <1>5, <1>7
    <2> QED
      BY <1>1, <1>3, <1>6, <2>1, MoovLenGrows
  <1>9. b \in Nat
    BY <1>1, <1>8
  <1>10. /\ chunks' \in Seq(Chunk) /\ Len(chunks') = n
         /\ \A j \in 1 .. n : chunks'[j] = [once[j] EXCEPT !.offset = @ + b]
    <2>1. \A j \in 1 .. Len(once) : once[j].offset + b \in Nat
      BY <1>6, <1>9, ColumnFacts
    <2> HIDE DEF b
    <2> QED
      BY <1>4, <1>6, <1>9, <2>1, ShiftedFacts
  <1>11. once[n] \in Chunk
    BY <1>3, <1>6, ColumnFacts
  <1>12. chunks'[n].offset = once[n].offset + b
    BY <1>3, <1>10, <1>11 DEF Chunk
  <1>13. /\ MoovLen(once) <= MoovLen(chunks') /\ MoovLen(chunks') \in Nat
         /\ Is64(once) => Is64(chunks')
         /\ (Is64(once) <=> Is64(chunks')) => MoovLen(once) = MoovLen(chunks')
    <2>1. once[n].offset <= chunks'[n].offset
      BY <1>7, <1>9, <1>12
    <2> QED
      BY <1>3, <1>6, <1>10, <2>1, MoovLenGrows
  <1>14. Is64(once) <=> Is64(chunks')
    <2>1. CASE ~Is64(once)
      <3>1. b = 0
        BY <1>1, <1>8, <2>1
      <3>2. chunks'[n].offset = once[n].offset
        BY <1>7, <1>12, <3>1
      <3> QED
        BY <1>6, <1>10, <2>1, <3>2 DEF Is64
    <2> QED
      BY <1>13, <2>1
  <1> QED
    BY <1>1, <1>4, <1>8, <1>13, <1>14

LEMMA PatchMoovChunks ==
    ASSUME TypeInv, ChunkInv, PatchMoov, ~Failed
    PROVE  TableInv' /\ PlaceInv'
  <1>1. /\ chunks \in Seq(Chunk) /\ samples \in Seq(Nat) /\ TypeOK
        /\ mdatPos \in Nat /\ mdatSize \in Nat /\ Len(buffer) \in Nat
    BY TypeFacts, SizesAreNat DEF TypeInv
  <1>2. ~Pending /\ TableInv /\ PlaceInv /\ Base = mdatPos
    BY DEF PatchMoov, Pending, Base, ChunkInv
  <1>3. /\ pc' = "shift" /\ UNCHANGED <<mdatPos, samples, buffer, mdatSize>>
    BY DEF PatchMoov
  <1>4. ~Pending' /\ Base' = mdatPos + shiftBy'
    BY <1>3 DEF Pending, Base
  <1>5. /\ chunks' \in Seq(Chunk) /\ Len(chunks') = Len(chunks) /\ shiftBy' \in Nat
        /\ \A j \in 1 .. Len(chunks) : chunks'[j] = [chunks[j] EXCEPT !.offset = @ + shiftBy']
    <2>1. PatchBy = shiftBy'
      BY <1>2, PatchMovesAsFar
    <2> QED
      BY <1>1, <2>1, PatchFacts
  <1> DEFINE z == SizesOf(chunks)
  <1>6. ASSUME NEW j \in 1 .. Len(chunks)
        PROVE  /\ chunks'[j].n = chunks[j].n /\ chunks'[j].size = chunks[j].size
               /\ chunks'[j].offset = chunks[j].offset + shiftBy'
               /\ chunks[j].offset \in Nat /\ chunks[j].size \in Nat
               /\ SumTo(z, j - 1) \in Nat
    <2>1. chunks[j] \in Chunk /\ chunks[j].offset \in Nat /\ chunks[j].size \in Nat
      BY <1>1, ColumnFacts
    <2>2. z \in Seq(Nat) /\ Len(z) = Len(chunks) /\ Len(chunks) \in Nat
      BY <1>1, ColumnFacts
    <2> HIDE DEF z
    <2>3. j - 1 \in 0 .. Len(z)
      BY <2>2
    <2>4. SumTo(z, j - 1) \in Nat
      BY <2>2, <2>3, SumIsNat
    <2> QED
      BY <1>5, <2>1, <2>4 DEF Chunk
  <1>7. CountsOf(chunks') = CountsOf(chunks) /\ SizesOf(chunks') = z
    BY <1>1, <1>5, <1>6, SameColumns
  <1> HIDE DEF z
  <1>8. TableInv'
    <2>1. Chain(chunks', samples')
      BY <1>2, <1>3, <1>5, <1>7 DEF TableInv, Chain, z
    <2>2. SumTo(SizesOf(chunks'), Len(chunks')) = mdatSize' + Len(buffer')
      BY <1>2, <1>3, <1>5, <1>7 DEF TableInv, z
    <2>3. \A j \in 1 .. Len(chunks') :
             chunks'[j].n > 0 /\ (chunks'[j].size = 0 => j = Len(chunks'))
      BY <1>2, <1>5, <1>6 DEF TableInv
    <2>4. samples' # << >> /\ pc' # "write"
      BY <1>3 DEF PatchMoov, TableInv, ChunkInv
    <2>5. samples # << >>
      BY <1>2 DEF TableInv, PatchMoov
    <2> QED
      BY <1>3, <2>1, <2>2, <2>3, <2>5 DEF TableInv
  <1>9. PlaceInv'
    <2>1. ASSUME NEW j \in 1 .. Len(chunks'), chunks'[j].size > 0
          PROVE  chunks'[j].offset = Base' + SumTo(SizesOf(chunks'), j - 1)
      <3>1. j \in 1 .. Len(chunks) /\ chunks[j].size > 0
        BY <1>5, <1>6, <2>1
      <3>2. chunks[j].offset = mdatPos + SumTo(z, j - 1)
        BY <1>2, <3>1 DEF PlaceInv, z
      <3> QED
        BY <1>1, <1>4, <1>5, <1>6, <1>7, <3>1, <3>2
    <2> QED
      BY <1>2, <1>3, <1>4, <2>1 DEF PlaceInv
  <1> QED
    BY <1>8, <1>9

(* A step keeps ChunkInv, *)
LEMMA NextChunkInv == TypeInv /\ ChunkInv /\ [Next]_vars => ChunkInv'
  <1> SUFFICES ASSUME TypeInv, ChunkInv, [Next]_vars PROVE ChunkInv'
    OBVIOUS
  <1>1. CASE BeginWrite
    BY <1>1, BeginWriteChunks
  <1>2. CASE UNCHANGED vars
    BY <1>2 DEF ChunkInv, Failed, TableInv, PlaceInv, Pending, Base, vars
  <1>3. CASE Next /\ ~BeginWrite /\ pc = "begin"
    <2>1. pc' = "begin"
      BY <1>3 DEF Next, WriteSample, FinalizeFlush, FinalizeMdat, WriteMoov, PatchMoov,
         ShiftBlock, ShiftHeader, WriteMoovFront, Stopped
    <2> QED
      BY <2>1 DEF ChunkInv
  <1>4. CASE Next /\ Failed'
    BY <1>4 DEF ChunkInv
  <1>5. CASE Next /\ ~BeginWrite /\ pc # "begin" /\ ~Failed'
    <2>1. ~Failed /\ ~lastError' /\ ~readFailed'
      BY <1>5, FailedStays
    <2>2. TableInv /\ PlaceInv
      BY <1>5, <2>1 DEF ChunkInv
    <2>3. mdatPos \in Nat /\ mdatSize \in Nat /\ shiftBy \in Nat
      BY TypeFacts DEF TypeInv
    <2>4. CASE \E size \in SampleSizes \union {0} : WriteSample(size)
      BY <2>1, <2>4, WriteSampleChunks DEF ChunkInv
    <2>5. CASE FinalizeFlush
      BY <2>1, <2>5, FinalizeFlushChunks DEF ChunkInv
    <2>6. CASE FinalizeMdat
      <3>1. Base' = Base /\ ~Pending /\ pos' = mdatPos' + mdatSize' /\ pc' = "moov"
        BY <2>6 DEF FinalizeMdat, Base, Pending, Commit
      <3>2. UNCHANGED <<chunks, samples, buffer, mdatSize>>
        BY <2>6 DEF FinalizeMdat
      <3> QED
        BY <1>5, <2>2, <3>1, <3>2, KeptChunks DEF ChunkInv
    <2>7. CASE WriteMoov
      <3>1. Base' = Base /\ ~Pending /\ pc' \in {"patch", "done"}
        BY <2>7 DEF WriteMoov, Base, Pending
      <3>2. UNCHANGED <<chunks, samples, buffer, mdatSize>>
        BY <2>7 DEF WriteMoov
      <3> QED
        BY <1>5, <2>2, <3>1, <3>2, KeptChunks DEF ChunkInv
    <2>8. CASE PatchMoov
      BY <2>1, <2>8, PatchMoovChunks DEF ChunkInv
    <2>9. CASE ShiftBlock
      <3>1. Base' = Base /\ ~Pending /\ pc' = "shift"
        BY <2>9 DEF ShiftBlock, Base, Pending
      <3>2. UNCHANGED <<chunks, samples, buffer, mdatSize>>
        BY <2>9 DEF ShiftBlock
      <3> QED
        BY <1>5, <2>2, <3>1, <3>2, KeptChunks DEF ChunkInv
    <2>10. CASE ShiftHeader
      <3>1. Base' = Base /\ ~Pending /\ pc' = "front"
        BY <2>10 DEF ShiftHeader, Base, Pending
      <3>2. UNCHANGED <<chunks, samples, buffer, mdatSize>>
        BY <2>10 DEF ShiftHeader
      <3> QED
        BY <1>5, <2>2, <3>1, <3>2, KeptChunks DEF ChunkInv
    <2>11. CASE WriteMoovFront
      <3>1. Base' = Base /\ ~Pending /\ pc' = "done"
        BY <2>11 DEF WriteMoovFront, Base, Pending
      <3>2. UNCHANGED <<chunks, samples, buffer, mdatSize>>
        BY <2>11 DEF WriteMoovFront
      <3> QED
        BY <1>5, <2>2, <3>1, <3>2, KeptChunks DEF ChunkInv
    <2>12. CASE Stopped
      BY <1>2, <2>12 DEF Stopped
    <2> QED
      BY <1>5, <2>4, <2>5, <2>6, <2>7, <2>8, <2>9, <2>10, <2>11, <2>12 DEF Next
  <1> QED
    BY <1>1, <1>2, <1>3, <1>4, <1>5

(* so it always holds. *)
LEMMA ChunkInvAlways == Spec => [](TypeInv /\ ChunkInv)
  <1>1. Init => ChunkInv
    BY DEF Init, ChunkInv
  <1>2. TypeInv /\ ChunkInv /\ [Next]_vars => ChunkInv'
    BY NextChunkInv
  <1> QED
    BY <1>1, <1>2, TypeInvAlways, PTL DEF Spec

(* It is stronger than ChunksTile. *)
LEMMA ChunkInvTiles == TypeInv /\ ChunkInv => ChunksTile
  <1> SUFFICES ASSUME TypeInv, ChunkInv, ~Failed, pc # "begin"
               PROVE  /\ SumTo(Counts, Len(chunks)) = Len(samples)
                      /\ \A j \in DOMAIN chunks :
                            SumTo(Sizes, j) = SumTo(samples, SumTo(Counts, j))
                      /\ SumTo(Sizes, Len(chunks)) = mdatSize + Len(buffer)
                      /\ \A j \in 2 .. Len(chunks) :
                            chunks[j].offset # 0 /\ chunks[j].size > 0 =>
                                chunks[j].offset = chunks[j - 1].offset + chunks[j - 1].size
    BY DEF ChunksTile
  <1>1. TableInv /\ PlaceInv
    BY DEF ChunkInv
  <1>2. Counts = CountsOf(chunks) /\ Sizes = SizesOf(chunks)
    BY DEF Counts, Sizes, CountsOf, SizesOf
  <1>3. /\ chunks \in Seq(Chunk) /\ mdatPos \in Nat /\ shiftBy \in Nat /\ Base \in Nat
    BY TypeFacts DEF TypeInv, Base
  <1> DEFINE z == SizesOf(chunks)
  <1>4. /\ Len(chunks) \in Nat /\ DOMAIN chunks = 1 .. Len(chunks)
        /\ z \in Seq(Nat) /\ Len(z) = Len(chunks)
        /\ \A j \in 1 .. Len(chunks) : /\ z[j] = chunks[j].size
                                       /\ chunks[j].size \in Nat /\ chunks[j].offset \in Nat
    BY <1>3, ColumnFacts
  <1>5. ASSUME NEW j \in 2 .. Len(chunks), chunks[j].offset # 0, chunks[j].size > 0
        PROVE  chunks[j].offset = chunks[j - 1].offset + chunks[j - 1].size
    <2>1. j \in 1 .. Len(chunks) /\ j - 1 \in 1 .. Len(chunks) /\ j - 1 < Len(chunks)
          /\ j - 1 # Len(chunks) /\ j - 1 - 1 \in 0 .. Len(chunks)
      BY <1>4
    <2>2. j < Len(chunks) \/ ~Pending
      <3>1. ASSUME Pending, ~(j < Len(chunks))
            PROVE  FALSE
        <4>1. j = Len(chunks)
          <5>1. \A m \in Nat : \A i \in 1 .. m : ~(i < m) => i = m
            OBVIOUS
          <5> QED
            BY <1>4, <2>1, <3>1, <5>1
        <4>2. chunks # << >>
          BY <2>1
        <4>3. chunks[Len(chunks)].offset = 0
          BY <1>1, <3>1, <4>2 DEF PlaceInv
        <4> QED
          BY <1>5, <4>1, <4>3
      <3> QED
        BY <3>1
    <2>3. chunks[j - 1].size > 0 /\ chunks[j - 1].size \in Nat /\ z[j - 1] = chunks[j - 1].size
      <3> DEFINE i == j - 1
      <3>1. i \in 1 .. Len(chunks) /\ i # Len(chunks)
        BY <2>1
      <3> HIDE DEF i, z
      <3>2. chunks[i].size # 0 /\ chunks[i].size \in Nat /\ z[i] = chunks[i].size
        BY <1>1, <1>4, <3>1 DEF TableInv
      <3>3. chunks[i].size > 0
        BY <3>2
      <3> QED
        BY <3>2, <3>3 DEF i
    <2>4. /\ chunks[j].offset = Base + SumTo(z, j - 1)
          /\ chunks[j - 1].offset = Base + SumTo(z, j - 1 - 1)
      BY <1>1, <1>5, <2>1, <2>2, <2>3 DEF PlaceInv
    <2> HIDE DEF z
    <2>5. SumTo(z, j - 1) = SumTo(z, j - 1 - 1) + z[j - 1] /\ SumTo(z, j - 1 - 1) \in Nat
      BY <1>4, <2>1, SumOfOneMore, SumIsNat
    <2> QED
      BY <1>3, <2>3, <2>4, <2>5
  <1> QED
    BY <1>1, <1>2, <1>4, <1>5 DEF TableInv, Chain

(* The tables, the buffer and the file position agree. *)
THEOREM ChunksTileAlways == Spec => []ChunksTile
  BY ChunkInvAlways, ChunkInvTiles, PTL

=============================================================================
