-------------------------- MODULE ReaderChainProofs --------------------------
(***************************************************************************)
(* What the reader chain does for every ratio, kernel length, number of    *)
(* channels, input and split of the requests.                              *)
(***************************************************************************)
EXTENDS ReaderChain, SequenceTheorems, WellFoundedInduction, TLAPS

(* The input instant of the output with index k. *)
Instant(k) == (k * M) \div L

-----------------------------------------------------------------------------
(* The resampler's part of the invariant *)

RsType ==
    /\ input \in Nat /\ L \in Nat \ {0} /\ M \in Nat \ {0}
    /\ base \in Int
    /\ x \in Seq({Silence} \cup (0 .. input - 1))
    /\ inTotal \in 0 .. input
    /\ eof \in BOOLEAN
    /\ nfloor \in Nat /\ frac \in 0 .. L - 1
    /\ position \in Nat
    /\ rs \in [pc : {"idle", "refill", "loop", "emit"}, n : Nat, k : Nat,
               upto : Int, needLo : Int, after : {"idle", "loop", "emit"}]
    /\ rs.k <= rs.n

OnTimeline == (nfloor * L) + frac = Outputs * M

(* The frames held are consecutive; past the end they are silence. *)
Contents ==
    /\ \A i \in 1 .. Len(x) :
          x[i] = IF base + i - 1 \in 0 .. inTotal - 1 THEN base + i - 1 ELSE Silence
    /\ IF eof THEN inTotal = input /\ base + Fill >= inTotal ELSE base + Fill = inTotal
    /\ base <= nfloor - Back

(* What each step of a call may rely on. *)
CallInv ==
    /\ rs.pc = "idle" => rs.k = 0
    /\ rs.pc # "idle" => rs.n > 0
    /\ rs.pc = "refill" =>
          /\ rs.needLo = nfloor - Back
          /\ nfloor + Ahead <= rs.upto
          /\ rs.upto <= Instant(position + rs.n - 1) + Ahead
          /\ rs.after \in {"loop", "emit"}
          /\ rs.after = "emit" => rs.k < rs.n
    /\ rs.pc = "emit" => rs.k < rs.n /\ base + Fill > nfloor + Ahead

(* How far the source has been read. *)
Asked ==
    IF rs.pc = "idle" THEN inTotal <= nfloor \/ inTotal <= Instant(position - 1) + Ahead + 1
    ELSE inTotal <= Instant(position + rs.n - 1) + Ahead + 1

Centred ==
    Outputs > 0 /\ window # << >> =>
         LET at == ((Outputs - 1) * M) \div L
         IN  window = [i \in 1 .. Taps |->
                         LET j == at - Back + i - 1
                         IN  IF j \in 0 .. input - 1 THEN j ELSE Silence]

RsInv ==
    /\ RsType
    /\ <<L, M>> \in Ratios
    /\ OnTimeline
    /\ Contents
    /\ CallInv
    /\ Asked
    /\ Centred

-----------------------------------------------------------------------------
(* Arithmetic *)

(* Quotient and remainder. *)
LEMMA DivMod ==
    ASSUME NEW a \in Int, NEW b \in Nat \ {0}
    PROVE  a \div b \in Int /\ a % b \in 0 .. b - 1 /\ a = (b * (a \div b)) + (a % b)
  OBVIOUS

(* They are the only ones. *)
LEMMA DivUnique ==
    ASSUME NEW b \in Nat \ {0}, NEW q \in Int, NEW r \in 0 .. b - 1
    PROVE  ((q * b) + r) \div b = q
  OBVIOUS

(* Division keeps the order. *)
LEMMA DivMonotone ==
    ASSUME NEW b \in Nat \ {0}, NEW m \in Int, NEW n \in Int, m <= n
    PROVE  m \div b <= n \div b
  OBVIOUS

(* Multiples of the divisor pass through a division. *)
LEMMA DivShift ==
    ASSUME NEW b \in Nat \ {0}, NEW q \in Int, NEW a \in Int
    PROVE  ((q * b) + a) \div b = q + (a \div b)
  <1>1. /\ a \div b \in Int /\ a % b \in 0 .. b - 1
        /\ a = (b * (a \div b)) + (a % b)
    BY DivMod
  <1>2. (q * b) + a = ((q + (a \div b)) * b) + (a % b)
    BY <1>1
  <1>3. q + (a \div b) \in Int
    BY <1>1
  <1> QED
    BY <1>1, <1>2, <1>3, DivUnique

(* Products of instants, one rule at a time. *)
LEMMA Distribute ==
    ASSUME NEW a \in Int, NEW b \in Int, NEW m \in Int
    PROVE  (a + b) * m = (a * m) + (b * m)
  OBVIOUS

(* Multiplication keeps the order. *)
LEMMA Grows ==
    ASSUME NEW a \in Int, NEW b \in Int, NEW m \in Nat, a <= b
    PROVE  a * m <= b * m
  OBVIOUS

(* What one output adds to the timeline. *)
LEMMA Carry ==
    ASSUME NEW p \in Int, NEW q \in Int, NEW r \in Int, NEW f \in Int, NEW g \in Int, NEW m \in Int,
           p + f = q, f + m = r + g
    PROVE  p + r + g = q + m
  OBVIOUS

(* A bound moved by the same distance. *)
LEMMA NotPast ==
    ASSUME NEW a \in Int, NEW b \in Int, NEW c \in Int, NEW d \in Int, a <= b - d, b <= c
    PROVE  a <= c - d
  OBVIOUS

(* The kernel reaches as far ahead as Taps allows. *)
LEMMA KernelFacts ==
    /\ Ahead \in Nat /\ Ahead >= 2
    /\ Back = Ahead - 1
    /\ Taps = 2 * Ahead
    /\ Chunk \in Nat \ {0}
  BY ResamplerAssumption DEF Ahead, Back

(* Instants are integers and never go back. *)
LEMMA InstantFacts ==
    ASSUME RsType, NEW j \in Int, NEW k \in Int
    PROVE  /\ Instant(k) \in Int
           /\ j <= k => Instant(j) <= Instant(k)
  <1>1. L \in Nat \ {0} /\ M \in Nat /\ j * M \in Int /\ k * M \in Int
    BY DEF RsType
  <1>2. Instant(k) \in Int
    BY <1>1, DivMod DEF Instant
  <1>3. ASSUME j <= k PROVE Instant(j) <= Instant(k)
    <2>1. j * M <= k * M
      BY <1>1, <1>3, Grows
    <2> QED
      BY <1>1, <2>1, DivMonotone DEF Instant
  <1> QED
    BY <1>2, <1>3

(* nfloor and frac are the instant of the next output. *)
LEMMA NextInstant ==
    ASSUME RsType, OnTimeline
    PROVE  Outputs \in Nat /\ Instant(Outputs) = nfloor
  <1>1. Outputs \in Nat
    BY DEF RsType, Outputs
  <1>2. L \in Nat \ {0} /\ nfloor \in Int /\ frac \in 0 .. L - 1
    BY DEF RsType
  <1>3. ((nfloor * L) + frac) \div L = nfloor
    BY <1>2, DivUnique
  <1> QED
    BY <1>1, <1>3 DEF OnTimeline, Instant

(* The instant the code computes for the last output of n more. *)
LEMMA LastInstantFacts ==
    ASSUME RsType, OnTimeline, NEW n \in Int
    PROVE  LastInstant(n) = Instant(Outputs + n - 1)
  <1>1. /\ Outputs \in Int /\ M \in Int /\ L \in Nat \ {0} /\ nfloor \in Int
        /\ (n - 1) * M \in Int /\ frac \in Int
    BY DEF RsType, Outputs
  <1>2. (Outputs + (n - 1)) * M = (Outputs * M) + ((n - 1) * M)
    BY <1>1, Distribute
  <1>3. Outputs + n - 1 = Outputs + (n - 1)
    BY <1>1
  <1>4. ((nfloor * L) + (frac + ((n - 1) * M))) \div L = nfloor + ((frac + ((n - 1) * M)) \div L)
    BY <1>1, DivShift
  <1>5. (nfloor * L) + (frac + ((n - 1) * M)) = (Outputs + n - 1) * M
    <2>1. nfloor * L \in Int /\ Outputs * M \in Int
      BY <1>1
    <2>2. (nfloor * L) + frac = Outputs * M
      BY DEF OnTimeline
    <2>3. (Outputs + n - 1) * M = (Outputs * M) + ((n - 1) * M)
      BY <1>2, <1>3
    <2> DEFINE p == nfloor * L
               q == Outputs * M
               r == (n - 1) * M
    <2>4. p \in Int /\ q \in Int /\ r \in Int /\ p + frac = q
      BY <1>1, <2>1, <2>2
    <2> HIDE DEF p, q, r
    <2>5. p + (frac + r) = q + r
      BY <1>1, <2>4
    <2> QED
      BY <2>3, <2>5 DEF p, q, r
  <1> QED
    BY <1>4, <1>5 DEF LastInstant, Instant

-----------------------------------------------------------------------------
(* The steps of the resampler *)

(* resampler_open() establishes the invariant. *)
LEMMA InitRsInv == Init => RsInv
  <1> SUFFICES ASSUME Init PROVE RsInv
    OBVIOUS
  <1> USE DEF Init, ResamplerInit, Idle
  <1>1. /\ input \in Nat /\ L \in Nat \ {0} /\ M \in Nat \ {0} /\ <<L, M>> \in Ratios
    <2>1. PICK r \in Ratios : L = r[1] /\ M = r[2]
      OBVIOUS
    <2>2. r \in (Nat \ {0}) \X (Nat \ {0}) /\ r = <<r[1], r[2]>>
      BY <2>1, ResamplerAssumption
    <2> QED
      BY <2>1, <2>2, ChainAssumption
  <1>2. Taps \in Nat /\ x \in Seq({Silence} \cup (0 .. input - 1)) /\ Len(x) = Taps
    BY KernelFacts
  <1>3. RsType
    <2>1. rs \in [pc : {"idle", "refill", "loop", "emit"}, n : Nat, k : Nat,
                  upto : Int, needLo : Int, after : {"idle", "loop", "emit"}]
          /\ rs.k <= rs.n
      OBVIOUS
    <2>2. base \in Int
      BY <1>2
    <2>4. inTotal \in 0 .. input
      BY <1>1
    <2>5. eof \in BOOLEAN
      OBVIOUS
    <2>3. nfloor \in Nat /\ frac \in 0 .. L - 1 /\ position \in Nat
      BY <1>1
    <2> HIDE DEF Init, ResamplerInit, Idle
    <2> QED
      BY <1>1, <1>2, <2>1, <2>2, <2>3, <2>4, <2>5, Zenon DEF RsType
  <1>4. OnTimeline /\ CallInv /\ Asked /\ Centred
    BY <1>1 DEF OnTimeline, Outputs, CallInv, Asked, Centred
  <1>5. Contents
    <2>1. \A i \in 1 .. Len(x) : x[i] = Silence /\ base + i - 1 \notin 0 .. inTotal - 1
      BY <1>2
    <2>2. base + Fill = inTotal /\ base <= nfloor - Back /\ ~eof
      BY <1>2, KernelFacts DEF Fill
    <2> QED
      BY <2>1, <2>2 DEF Contents
  <1> QED
    BY <1>1, <1>3, <1>4, <1>5 DEF RsInv

(* A call establishes what its steps rely on. *)
LEMMA CallRsInv ==
    ASSUME RsInv, NEW n \in Nat \ {0}, ResamplerCall(n)
    PROVE  RsInv'
  <1> USE DEF RsInv, ResamplerCall
  <1>1. Outputs = position /\ Outputs' = position
    BY DEF Outputs, CallInv, RsType
  <1>2. LastInstant(n) = Instant(position + n - 1)
    BY <1>1, LastInstantFacts
  <1>3. /\ Instant(position) = nfloor
        /\ Instant(position + n - 1) \in Int
        /\ nfloor <= Instant(position + n - 1)
        /\ Instant(position - 1) <= Instant(position + n - 1)
        /\ Instant(position - 1) \in Int
    <2>1. position \in Int /\ position - 1 \in Int /\ position + n - 1 \in Int
          /\ position <= position + n - 1 /\ position - 1 <= position + n - 1
      BY DEF RsType
    <2> QED
      BY <1>1, <2>1, NextInstant, InstantFacts
  <1>4. RsType'
    BY <1>2, <1>3, KernelFacts DEF RsType
  <1>5. OnTimeline' /\ Contents' /\ Centred'
    BY <1>1 DEF OnTimeline, Contents, Centred, Fill
  <1>6. Instant(position + n - 1)' = Instant(position + n - 1)
    BY DEF Instant
  <1>7. CallInv'
    BY <1>2, <1>3, KernelFacts DEF CallInv, RsType, Instant
  <1>8. Asked'
    BY <1>2, <1>3, KernelFacts DEF Asked, CallInv, RsType, Instant
  <1> QED
    BY <1>4, <1>5, <1>7, <1>8

(* A sequence whose first d elements are dropped, and t behind it. *)
LEMMA KeptAndMore ==
    ASSUME NEW S, NEW s \in Seq(S), NEW d \in 0 .. Len(s), NEW t \in Seq(S),
           NEW u, u = SubSeq(s, d + 1, Len(s)) \o t
    PROVE  /\ u \in Seq(S)
           /\ Len(u) = Len(s) - d + Len(t)
           /\ \A i \in 1 .. Len(u) :
                 u[i] = IF i <= Len(s) - d THEN s[d + i] ELSE t[i - (Len(s) - d)]
  <1> DEFINE v == SubSeq(s, d + 1, Len(s))
  <1>1. v \in Seq(S) /\ Len(v) = Len(s) - d /\ \A i \in 1 .. Len(v) : v[i] = s[d + i]
    OBVIOUS
  <1> HIDE DEF v
  <1>2. u = v \o t
    BY DEF v
  <1>3. Len(s) \in Nat /\ Len(t) \in Nat /\ Len(v) \in Nat
    BY <1>1
  <1>4. u \in Seq(S) /\ Len(u) = Len(v) + Len(t)
    <2>1. v \o t \in Seq(S) /\ Len(v \o t) = Len(v) + Len(t)
      BY <1>1, ConcatProperties
    <2> QED
      BY <1>2, <2>1
  <1>5. ASSUME NEW i \in 1 .. Len(u)
        PROVE  u[i] = IF i <= Len(s) - d THEN s[d + i] ELSE t[i - (Len(s) - d)]
    BY <1>1, <1>2, <1>3, <1>4
  <1> QED
    BY <1>1, <1>3, <1>4, <1>5

(* What one turn of refill() reads, and what it keeps. *)
LEMMA RefillFacts ==
    ASSUME RsInv, rs.pc = "refill", base + Fill <= rs.upto
    PROVE  LET need == rs.upto - (base + Fill) + 1
               want == IF need < Chunk THEN need ELSE Chunk
               got  == IF eof THEN 0
                       ELSE IF want < input - inTotal THEN want ELSE input - inTotal
           IN  /\ got \in Nat
               /\ got <= input - inTotal
               /\ eof => got = 0
               /\ ~eof => got <= need
               /\ (got = 0 /\ ~eof) => inTotal = input
               /\ Dropped \in 0 .. Fill
               /\ base + Dropped <= nfloor - Back
  <1> USE DEF RsInv
  <1>1. /\ Fill \in Nat /\ base \in Int /\ rs.upto \in Int /\ rs.needLo \in Int
        /\ inTotal \in 0 .. input /\ input \in Nat /\ eof \in BOOLEAN /\ nfloor \in Nat
    BY DEF RsType, Fill
  <1>2. Chunk \in Nat \ {0} /\ Back \in Int
    BY KernelFacts
  <1>3. rs.needLo = nfloor - Back /\ base <= nfloor - Back
    BY DEF CallInv, Contents
  <1>4. Dropped \in 0 .. Fill /\ base + Dropped <= nfloor - Back
    BY <1>1, <1>2, <1>3 DEF Dropped
  <1> QED
    BY <1>1, <1>2, <1>4

(* One turn of refill() keeps the frames consecutive. *)
LEMMA RefillRsInv ==
    ASSUME RsInv, Refill
    PROVE  RsInv'
  <1> USE DEF RsInv
  <1>1. /\ Fill \in Nat /\ base \in Int /\ inTotal \in 0 .. input /\ input \in Nat
        /\ nfloor \in Nat /\ rs.upto \in Int /\ rs.pc = "refill" /\ eof \in BOOLEAN
        /\ position + rs.n - 1 \in Int
    BY DEF RsType, Fill, Refill
  <1>i. Instant(position + rs.n - 1) \in Int
    BY <1>1, InstantFacts
  <1>2. CASE base + Fill > rs.upto
    <2>1. /\ rs' = [rs EXCEPT !.pc = rs.after]
          /\ UNCHANGED <<input, L, M, base, x, inTotal, eof, nfloor, frac, position, window>>
      BY <1>2 DEF Refill
    <2>2. RsType'
      BY <2>1 DEF RsType, CallInv, Refill
    <2>3. Outputs' = Outputs
      BY <2>1 DEF RsType, Outputs
    <2>4. OnTimeline' /\ Contents' /\ Centred'
      BY <2>1, <2>3 DEF OnTimeline, Contents, Centred, Fill
    <2>5. CallInv' /\ Asked'
      <3>1. /\ Instant(position + rs.n - 1)' = Instant(position + rs.n - 1)
            /\ rs'.pc = rs.after /\ rs'.n = rs.n /\ rs'.k = rs.k
            /\ Fill' = Fill /\ base' = base /\ inTotal' = inTotal /\ nfloor' = nfloor
            /\ position' = position
        BY <2>1 DEF Instant, RsType, Fill
      <3>2. /\ nfloor + Ahead <= rs.upto /\ rs.after \in {"loop", "emit"}
            /\ rs.n > 0
            /\ rs.after = "emit" => rs.k < rs.n
        BY <1>1 DEF CallInv
      <3>3. base + Fill > nfloor + Ahead
        BY <1>1, <1>2, <3>2, KernelFacts
      <3>4. inTotal <= Instant(position + rs.n - 1) + Ahead + 1
        BY <1>1 DEF Asked
      <3>5. CallInv'
        <4>1. rs'.pc # "idle" /\ rs'.pc # "refill" /\ Ahead' = Ahead
          BY <3>1, <3>2 DEF Ahead
        <4>2. base' + Fill' > nfloor' + Ahead'
          BY <3>1, <3>3, <4>1
        <4> QED
          BY <3>1, <3>2, <4>1, <4>2 DEF CallInv
      <3>6. Asked'
        BY <3>1, <3>2, <3>4 DEF Asked, Ahead
      <3> QED
        BY <3>5, <3>6
    <2> QED
      BY <2>1, <2>2, <2>4, <2>5
  <1>3. CASE ~(base + Fill > rs.upto)
    <2> DEFINE need == rs.upto - (base + Fill) + 1
               want == IF need < Chunk THEN need ELSE Chunk
               got  == IF eof THEN 0
                       ELSE IF want < input - inTotal THEN want ELSE input - inTotal
               more == IF got = 0 THEN Zeros(Chunk) ELSE [i \in 1 .. got |-> inTotal + i - 1]
    <2>1. /\ base' = base + Dropped
          /\ inTotal' = inTotal + got
          /\ rs' = rs /\ input' = input /\ L' = L /\ M' = M /\ nfloor' = nfloor
          /\ frac' = frac /\ position' = position /\ window' = window
      BY <1>3 DEF Refill
    <2>x. x' = SubSeq(x, Dropped + 1, Fill) \o more
      BY <1>3 DEF Refill
    <2>e. eof' \in BOOLEAN /\ (eof' <=> got = 0)
      <3>1. eof' = (got = 0)
        BY <1>3 DEF Refill
      <3> HIDE DEF got
      <3> QED
        BY <3>1, Zenon
    <2>2. /\ got \in Nat
          /\ got <= input - inTotal
          /\ eof => got = 0
          /\ ~eof => got <= need
          /\ (got = 0 /\ ~eof) => inTotal = input
          /\ Dropped \in 0 .. Fill
          /\ base + Dropped <= nfloor - Back
      BY <1>1, <1>3, RefillFacts
    <2>3. /\ more \in Seq({Silence} \cup (0 .. input - 1))
          /\ Len(more) = IF got = 0 THEN Chunk ELSE got
          /\ \A i \in 1 .. Len(more) : more[i] = IF got = 0 THEN Silence ELSE inTotal + i - 1
      <3>1. CASE got = 0
        BY <3>1, KernelFacts DEF Zeros
      <3>2. CASE got # 0
        <4>1. more = [i \in 1 .. got |-> inTotal + i - 1] /\ got \in Nat
          BY <2>2, <3>2
        <4>2. \A i \in 1 .. got : inTotal + i - 1 \in 0 .. input - 1
          BY <1>1, <2>2
        <4> HIDE DEF more, got
        <4> QED
          BY <3>2, <4>1, <4>2
      <3> QED
        BY <3>1, <3>2
    <2> HIDE DEF got, more
    <2>4. /\ x' \in Seq({Silence} \cup (0 .. input - 1))
          /\ Len(x') = Len(x) - Dropped + Len(more)
          /\ \A i \in 1 .. Len(x') :
                x'[i] = IF i <= Len(x) - Dropped THEN x[Dropped + i]
                        ELSE more[i - (Len(x) - Dropped)]
      <3>1. x \in Seq({Silence} \cup (0 .. input - 1)) /\ Dropped \in 0 .. Len(x)
            /\ x' = SubSeq(x, Dropped + 1, Len(x)) \o more
        BY <2>x, <2>2 DEF RsType, Fill
      <3> QED
        BY <2>3, <3>1, KeptAndMore
    <2> DEFINE d == Dropped
               m == Len(more)
    <2>a. /\ d \in Nat /\ d <= Fill /\ got \in Nat /\ m \in Nat /\ m > 0
          /\ m = (IF got = 0 THEN Chunk ELSE got) /\ Len(x) = Fill /\ Fill' = Len(x')
          /\ Len(x') = Fill - d + m /\ base' = base + d /\ inTotal' = inTotal + got
      <3>1. /\ Dropped \in 0 .. Fill /\ got \in Nat /\ Chunk \in Nat \ {0} /\ Len(x) = Fill
            /\ Fill' = Len(x')
        BY <2>2, KernelFacts DEF Fill
      <3>2. Len(more) = (IF got = 0 THEN Chunk ELSE got)
        BY <2>3
      <3>3. Len(more) \in Nat /\ Len(more) > 0
        BY <3>1, <3>2
      <3>4. Len(x') = Fill - Dropped + Len(more)
        BY <2>4, <3>1
      <3> QED
        BY <1>1, <2>1, <3>1, <3>2, <3>3, <3>4
    <2> HIDE DEF d, m
    <2>5. RsType'
      <3>1. inTotal' \in 0 .. input /\ base' \in Int
        BY <1>1, <2>2, <2>a
      <3> QED
        BY <1>1, <2>1, <2>4, <2>e, <3>1 DEF RsType
    <2>6. Outputs' = Outputs
      BY <2>1 DEF Outputs
    <2>7. OnTimeline' /\ Centred'
      BY <2>1, <2>6 DEF OnTimeline, Centred
    <2>8. CallInv'
      BY <1>1, <2>1 DEF CallInv, Instant
    <2>9. IF eof THEN inTotal = input /\ base + Fill >= inTotal ELSE base + Fill = inTotal
      BY DEF Contents
    <2>10. Asked'
      <3>1. /\ Instant(position + rs.n - 1)' = Instant(position + rs.n - 1)
            /\ rs'.pc = "refill" /\ rs'.n = rs.n
        BY <1>1, <2>1 DEF Instant
      <3>2. /\ rs.upto <= Instant(position + rs.n - 1) + Ahead
            /\ inTotal <= Instant(position + rs.n - 1) + Ahead + 1
        BY <1>1 DEF CallInv, Asked
      <3>3. inTotal + got <= Instant(position + rs.n - 1) + Ahead + 1
        BY <1>1, <1>i, <2>2, <2>9, <3>2, KernelFacts
      <3> QED
        BY <2>1, <3>1, <3>3 DEF Asked, Instant
    <2>11. Contents'
      <3>1. ASSUME NEW i \in 1 .. Len(x')
            PROVE  x'[i] = IF base' + i - 1 \in 0 .. inTotal' - 1 THEN base' + i - 1 ELSE Silence
        <4>1. i \in Nat /\ i >= 1 /\ i <= Fill - d + m
          BY <1>1, <2>a
        <4>2. CASE i <= Fill - d
          <5>1. d + i \in 1 .. Len(x)
            BY <1>1, <2>a, <4>1, <4>2
          <5>2. x'[i] = x[d + i]
            BY <2>4, <2>a, <4>2 DEF d
          <5>3. x[d + i] = IF base + (d + i) - 1 \in 0 .. inTotal - 1
                           THEN base + (d + i) - 1 ELSE Silence
            BY <5>1 DEF Contents
          <5>4. base + (d + i) - 1 = base' + i - 1 /\ base' + i - 1 < base + Fill
            BY <1>1, <2>a, <4>1, <4>2
          <5>5. base' + i - 1 \in 0 .. inTotal - 1 <=> base' + i - 1 \in 0 .. inTotal' - 1
            BY <1>1, <2>2, <2>9, <2>a, <4>1, <5>4
          <5> QED
            BY <5>2, <5>3, <5>4, <5>5
        <4>3. CASE i > Fill - d
          <5> DEFINE j == i - (Fill - d)
          <5>1. j \in 1 .. m /\ base' + i - 1 = base + Fill + j - 1
            BY <1>1, <2>a, <4>1, <4>3
          <5>2. x'[i] = more[j]
            BY <1>1, <2>4, <2>a, <4>1, <4>3 DEF d
          <5> HIDE DEF j
          <5>3. more[j] = IF got = 0 THEN Silence ELSE inTotal + j - 1
            BY <2>3, <5>1 DEF m
          <5>4. CASE got = 0
            <6>1. base' + i - 1 \notin 0 .. inTotal' - 1
              BY <1>1, <2>9, <2>a, <5>1, <5>4
            <6> QED
              BY <5>2, <5>3, <5>4, <6>1
          <5>5. CASE got # 0
            <6>1. base + Fill = inTotal /\ j \in 1 .. got
              BY <1>1, <2>2, <2>9, <2>a, <5>1, <5>5
            <6>2. /\ base' + i - 1 = inTotal + j - 1
                  /\ inTotal + j - 1 \in 0 .. inTotal' - 1
              BY <1>1, <2>a, <5>1, <6>1
            <6> QED
              BY <5>2, <5>3, <5>5, <6>2
          <5> QED
            BY <5>4, <5>5
        <4> QED
          BY <1>1, <2>a, <4>1, <4>2, <4>3
      <3>2. base' + Fill' = base + Fill + m
        BY <1>1, <2>a
      <3>3. CASE got = 0
        <4>1. inTotal' = input' /\ base' + Fill' >= inTotal' /\ eof'
          BY <1>1, <2>1, <2>2, <2>9, <2>a, <2>e, <3>2, <3>3
        <4> QED
          BY <2>1, <2>2, <2>a, <3>1, <4>1 DEF Contents, d, Back, Ahead
      <3>4. CASE got # 0
        <4>1. base' + Fill' = inTotal' /\ ~eof'
          BY <1>1, <2>1, <2>2, <2>9, <2>a, <2>e, <3>2, <3>4
        <4> QED
          BY <2>1, <2>2, <2>a, <3>1, <4>1 DEF Contents, d, Back, Ahead
      <3> QED
        BY <3>3, <3>4
    <2> QED
      BY <2>1, <2>5, <2>7, <2>8, <2>10, <2>11
  <1> QED
    BY <1>1, <1>2, <1>3

(* The head of the output loop. *)
LEMMA LoopRsInv ==
    ASSUME RsInv, ResamplerLoop
    PROVE  RsInv'
  <1> USE DEF RsInv
  <1>1. /\ rs.pc = "loop" /\ rs.k # rs.n
        /\ rs' = [rs EXCEPT !.pc = "refill", !.after = "emit",
                            !.upto = nfloor + Ahead, !.needLo = nfloor - Back]
        /\ UNCHANGED <<input, L, M, base, x, inTotal, eof, nfloor, frac, position, window>>
    BY DEF ResamplerLoop, ResamplerDone
  <1>2. RsType' /\ Outputs' = Outputs
    <2>1. nfloor + Ahead \in Int /\ nfloor - Back \in Int
      BY KernelFacts DEF RsType
    <2>2. /\ rs' \in [pc : {"idle", "refill", "loop", "emit"}, n : Nat, k : Nat,
                      upto : Int, needLo : Int, after : {"idle", "loop", "emit"}]
          /\ rs'.k = rs.k /\ rs'.n = rs.n
      BY <1>1, <2>1 DEF RsType
    <2> QED
      BY <1>1, <2>2 DEF RsType, Outputs
  <1>3. OnTimeline' /\ Contents' /\ Centred'
    BY <1>1, <1>2 DEF OnTimeline, Contents, Centred, Fill
  <1>4. /\ Instant(position + rs.n - 1)' = Instant(position + rs.n - 1)
        /\ rs'.pc = "refill" /\ rs'.n = rs.n /\ rs'.k = rs.k /\ rs'.after = "emit"
        /\ rs'.upto = nfloor + Ahead /\ rs'.needLo = nfloor - Back
        /\ rs.n \in Nat /\ rs.k \in Nat /\ rs.k < rs.n
    BY <1>1 DEF Instant, RsType
  <1>5. nfloor <= Instant(position + rs.n - 1)
    <2>1. /\ Outputs \in Int /\ position + rs.n - 1 \in Int
          /\ Outputs <= position + rs.n - 1
      BY <1>4 DEF RsType, Outputs
    <2> QED
      BY <2>1, NextInstant, InstantFacts
  <1>6. /\ nfloor \in Int /\ Instant(position + rs.n - 1) \in Int
    BY <1>4, InstantFacts DEF RsType
  <1>7. CallInv'
    <2>1. /\ nfloor + Ahead <= nfloor + Ahead
          /\ nfloor + Ahead <= Instant(position + rs.n - 1) + Ahead
          /\ rs.n > 0
      BY <1>4, <1>5, <1>6, KernelFacts
    <2>2. nfloor' = nfloor /\ Ahead' = Ahead /\ Back' = Back
      BY <1>1 DEF Ahead, Back
    <2> QED
      BY <1>4, <2>1, <2>2 DEF CallInv
  <1>8. Asked'
    <2>1. inTotal <= Instant(position + rs.n - 1) + Ahead + 1
      BY <1>1 DEF Asked
    <2> QED
      BY <1>1, <1>4, <2>1 DEF Asked, Ahead
  <1> QED
    BY <1>1, <1>2, <1>3, <1>7, <1>8

(* The return of read_frames(). *)
LEMMA ReturnRsInv ==
    ASSUME RsInv, ResamplerReturn
    PROVE  RsInv'
  <1> USE DEF RsInv
  <1>1. /\ rs.pc \in {"loop", "emit"}
        /\ (eof /\ nfloor >= inTotal) \/ (rs.pc = "loop" /\ rs.k = rs.n)
        /\ position' = position + rs.k
        /\ rs' = Idle
        /\ UNCHANGED <<input, L, M, base, x, inTotal, eof, nfloor, frac, window>>
    BY DEF ResamplerReturn, ResamplerDone, Exhausted
  <1>2. /\ Idle \in [pc : {"idle", "refill", "loop", "emit"}, n : Nat, k : Nat,
                     upto : Int, needLo : Int, after : {"idle", "loop", "emit"}]
        /\ Idle.k = 0 /\ Idle.n = 0 /\ Idle.pc = "idle"
    BY DEF Idle
  <1>3. RsType'
    BY <1>1, <1>2 DEF RsType
  <1>4. Outputs' = Outputs
    BY <1>1, <1>2 DEF RsType, Outputs
  <1>5. OnTimeline' /\ Contents' /\ Centred'
    BY <1>1, <1>4 DEF OnTimeline, Contents, Centred, Fill
  <1>6. CallInv'
    BY <1>1, <1>2 DEF CallInv
  <1>7. Asked'
    <2>1. CASE nfloor >= inTotal
      BY <1>1, <1>2, <2>1 DEF Asked, RsType
    <2>2. CASE rs.pc = "loop" /\ rs.k = rs.n
      <3>1. inTotal <= Instant(position + rs.n - 1) + Ahead + 1
        BY <2>2 DEF Asked
      <3>2. Instant(position - 1)' = Instant(position + rs.n - 1) /\ Ahead' = Ahead
        <4>1. position' = position + rs.n /\ M' = M /\ L' = L
          BY <1>1, <2>2
        <4>2. (position' - 1) * M' = (position + rs.n - 1) * M
          <5> DEFINE next == position'
                     n == rs.n
          <5>1. next = position + n /\ position \in Int /\ n \in Int /\ next \in Int
            BY <4>1, <1>3 DEF RsType
          <5> HIDE DEF next, n
          <5>2. next - 1 = position + n - 1
            BY <5>1
          <5> QED
            BY <4>1, <5>2 DEF next, n
        <4> QED
          BY <4>1, <4>2 DEF Instant, Ahead
      <3> QED
        BY <1>1, <1>2, <3>1, <3>2 DEF Asked
    <2> QED
      BY <1>1, <2>1, <2>2
  <1> QED
    BY <1>1, <1>3, <1>5, <1>6, <1>7

(* An output is computed only from an instant inside the input.            *)
LEMMA EmitsInside ==
    ASSUME RsInv, rs.pc = "emit", ~Exhausted
    PROVE  nfloor < inTotal
  <1>1. /\ base + Fill > nfloor + Ahead
        /\ IF eof THEN inTotal = input /\ base + Fill >= inTotal ELSE base + Fill = inTotal
        /\ nfloor \in Nat /\ inTotal \in Nat
    BY DEF RsInv, CallInv, Contents, RsType
  <1>2. CASE eof
    BY <1>1, <1>2 DEF Exhausted
  <1>3. CASE ~eof
    BY <1>1, <1>3, KernelFacts
  <1> QED
    BY <1>2, <1>3

(* One output: the timeline advances by M/L, the window is complete. *)
LEMMA EmitRsInv ==
    ASSUME RsInv, ResamplerEmit
    PROVE  RsInv'
  <1> USE DEF RsInv
  <1>1. /\ rs.pc = "emit" /\ ~Exhausted
        /\ nfloor' = nfloor + ((frac + M) \div L)
        /\ frac' = (frac + M) % L
        /\ rs' = [rs EXCEPT !.pc = "loop", !.k = rs.k + 1]
        /\ UNCHANGED <<input, L, M, base, x, inTotal, eof, position>>
    BY DEF ResamplerEmit, ResamplerDone
  <1>2. /\ L \in Nat \ {0} /\ M \in Nat \ {0} /\ frac \in 0 .. L - 1 /\ nfloor \in Nat
        /\ rs.n \in Nat /\ rs.k \in Nat /\ rs.k < rs.n /\ position \in Nat /\ Outputs \in Nat
    <2>1. rs.k < rs.n
      BY <1>1 DEF CallInv
    <2>2. rs.n \in Nat /\ rs.k \in Nat /\ position \in Nat
      BY DEF RsType
    <2> QED
      BY <2>1, <2>2 DEF RsType, Outputs
  <1>r. /\ rs' \in [pc : {"idle", "refill", "loop", "emit"}, n : Nat, k : Nat,
                    upto : Int, needLo : Int, after : {"idle", "loop", "emit"}]
        /\ rs'.pc = "loop" /\ rs'.n = rs.n /\ rs'.k = rs.k + 1
    <2>1. rs.k + 1 \in Nat
      BY <1>2
    <2>2. rs \in [pc : {"idle", "refill", "loop", "emit"}, n : Nat, k : Nat,
                  upto : Int, needLo : Int, after : {"idle", "loop", "emit"}]
      BY DEF RsType
    <2>3. rs' = [rs EXCEPT !.pc = "loop", !.k = rs.k + 1]
      BY <1>1
    <2> QED
      BY <2>1, <2>2, <2>3
  <1>3. /\ (frac + M) \div L \in Int /\ frac' \in 0 .. L - 1
        /\ frac + M = (L * ((frac + M) \div L)) + frac'
    <2>1. frac + M \in Int
      BY <1>2
    <2> QED
      BY <1>1, <1>2, <2>1, DivMod
  <1>4. nfloor' \in Nat /\ nfloor <= nfloor'
    <2>1. (frac + M) \div L >= 0
      BY <1>2
    <2> QED
      BY <1>1, <1>2, <1>3, <2>1
  <1>5. RsType'
    <2>1. rs'.k <= rs'.n
      BY <1>2, <1>r
    <2> QED
      BY <1>1, <1>3, <1>4, <1>r, <2>1 DEF RsType
  <1>6. Outputs' = Outputs + 1
    BY <1>1, <1>2, <1>r DEF Outputs
  <1>7. OnTimeline'
    <2> DEFINE a == (frac + M) \div L
    <2>1. a \in Int /\ nfloor' = nfloor + a
      BY <1>1, <1>3
    <2>2. (nfloor + a) * L = (nfloor * L) + (a * L)
      BY <1>2, <2>1, Distribute
    <2>3. (Outputs + 1) * M = (Outputs * M) + (1 * M)
      BY <1>2, Distribute
    <2>4. frac + M = (a * L) + frac'
      BY <1>2, <1>3
    <2> DEFINE p == nfloor * L
               q == Outputs * M
               r == a * L
    <2>5. p + frac = q /\ p \in Int /\ q \in Int /\ r \in Int
      BY <1>2, <2>1 DEF OnTimeline
    <2>6. p + r + frac' = q + M
      <3>1. frac + M = r + frac' /\ frac \in Int /\ frac' \in Int /\ M \in Int
        BY <1>2, <1>3, <2>4
      <3>2. p + frac = q /\ p \in Int /\ q \in Int /\ r \in Int
        BY <2>5
      <3> DEFINE f == frac
                 g == frac'
      <3>3. f + M = r + g /\ f \in Int /\ g \in Int /\ p + f = q
        BY <3>1, <3>2
      <3> HIDE DEF p, q, r, a, f, g
      <3>4. p + r + g = q + M
        BY <3>1, <3>2, <3>3
      <3> QED
        BY <3>4 DEF g
    <2>7. nfloor' * L = p + r /\ (Outputs + 1) * M = q + M
      BY <1>2, <2>1, <2>2, <2>3
    <2> HIDE DEF p, q, r, a
    <2> QED
      BY <1>1, <1>6, <2>6, <2>7 DEF OnTimeline
  <1>8. Contents'
    <2>1. nfloor \in Int /\ nfloor' \in Int /\ Back \in Int /\ base \in Int
      BY <1>2, <1>4, KernelFacts DEF RsType
    <2>2. base <= nfloor' - Back
      <3>1. base <= nfloor - Back
        BY DEF Contents
      <3> QED
        BY <1>4, <2>1, <3>1, NotPast
    <2> QED
      BY <1>1, <2>2 DEF Contents, Fill, Back
  <1>9. rs'.pc = "loop" /\ rs'.n = rs.n
    BY <1>1 DEF RsType
  <1>10. CallInv'
    BY <1>2, <1>9 DEF CallInv
  <1>11. Asked'
    <2>1. inTotal <= Instant(position + rs.n - 1) + Ahead + 1
      BY <1>1 DEF Asked
    <2> QED
      BY <1>1, <1>9, <2>1 DEF Asked, Instant, Ahead
  <1>12. Centred'
    <2> DEFINE off == nfloor - Back - base
    <2>1. window' = [i \in 1 .. Taps |-> IF off + i \in 1 .. Fill THEN x[off + i] ELSE Outside]
      BY DEF ResamplerEmit
    <2>2. /\ off \in Nat /\ off + Taps <= Fill /\ Fill \in Nat /\ base \in Int /\ Back \in Int
          /\ Taps \in Nat
      <3>1. base <= nfloor - Back /\ base + Fill > nfloor + Ahead
        BY <1>1 DEF Contents, CallInv
      <3>2. Fill \in Nat /\ base \in Int
        BY DEF RsType, Fill
      <3> QED
        BY <1>2, <3>1, <3>2, KernelFacts
    <2>3. /\ inTotal \in 0 .. input /\ input \in Nat
          /\ IF eof THEN inTotal = input /\ base + Fill >= inTotal ELSE base + Fill = inTotal
      BY DEF RsType, Contents
    <2>4. ASSUME NEW i \in 1 .. Taps
          PROVE  (IF off + i \in 1 .. Fill THEN x[off + i] ELSE Outside)
                 = (IF nfloor - Back + i - 1 \in 0 .. input - 1 THEN nfloor - Back + i - 1 ELSE Silence)
      <3>1. off + i \in 1 .. Fill /\ base + (off + i) - 1 = nfloor - Back + i - 1
        BY <1>2, <2>2
      <3> DEFINE j == nfloor - Back + i - 1
      <3>2. j \in Int /\ j < base + Fill
        BY <1>2, <2>2, <3>1
      <3>3. j \in 0 .. inTotal - 1 <=> j \in 0 .. input - 1
        BY <2>2, <2>3, <3>2
      <3>4. x[off + i] = IF base + (off + i) - 1 \in 0 .. inTotal - 1
                         THEN base + (off + i) - 1 ELSE Silence
        BY <3>1 DEF Contents, Fill
      <3> QED
        BY <3>1, <3>3, <3>4
    <2>5. ((Outputs' - 1) * M') \div L' = nfloor
      BY <1>1, <1>2, <1>6, NextInstant DEF Instant
    <2> HIDE DEF off
    <2>6. window' = [i \in 1 .. Taps |-> IF nfloor - Back + i - 1 \in 0 .. input - 1
                                        THEN nfloor - Back + i - 1 ELSE Silence]
      BY <2>1, <2>4
    <2> QED
      BY <1>1, <2>5, <2>6 DEF Centred, Back
  <1> QED
    BY <1>1, <1>5, <1>7, <1>8, <1>10, <1>11, <1>12

(* The other stages leave the resampler alone. *)
LEMMA StutterRsInv ==
    ASSUME RsInv, UNCHANGED resamplerVars
    PROVE  RsInv'
  BY DEF RsInv, resamplerVars, RsType, OnTimeline, Outputs, Contents, CallInv, Asked, Centred,
         Instant, Fill, Ahead, Back

-----------------------------------------------------------------------------
(* The limiter *)

(* The least of a set of numbers. *)
LEMMA LeastOf == ASSUME NEW S \in SUBSET Nat, S # {}
  PROVE Min(S) \in S /\ \A y \in S : Min(S) <= y
  <1> DEFINE R == OpToRel(<, Nat)
  <1>1. IsWellFoundedOn(R, Nat)
    BY NatLessThanWellFounded
  <1>2. \A y, z \in Nat : <<y, z>> \in R <=> y < z
    BY DEF OpToRel
  <1> HIDE DEF R
  <1>3. PICK z \in S : \A y \in S : ~(<<y, z>> \in R)
    BY <1>1, WFMin, Zenon
  <1>4. \A y \in S : z =< y
    <2> TAKE y \in S
    <2>1. y \in Nat /\ z \in Nat
      OBVIOUS
    <2>2. ~(y < z)
      BY <1>2, <1>3, <2>1
    <2> QED
      BY <2>1, <2>2
  <1> QED
    BY <1>4, Zenon DEF Min

(* The greatest of a bounded set of numbers. *)
LEMMA GreatestOf == ASSUME NEW n \in Nat, NEW S \in SUBSET (0 .. n), S # {}
  PROVE Max(S) \in S /\ \A y \in S : y <= Max(S)
  <1> DEFINE T == {n - y : y \in S}
  <1>1. T \in SUBSET Nat /\ T # {}
    <2>1. ASSUME NEW y \in S PROVE y \in 0 .. n
      OBVIOUS
    <2>2. \A y \in S : n - y \in Nat
      BY <2>1
    <2> QED
      BY <2>2
  <1>2. Min(T) \in T /\ \A y \in T : Min(T) <= y
    BY <1>1, LeastOf
  <1>3. PICK m \in S : Min(T) = n - m
    BY <1>2
  <1>4. \A y \in S : m >= y
    <2> TAKE y \in S
    <2>1. n - m <= n - y
      BY <1>2, <1>3
    <2>2. y \in 0 .. n /\ m \in 0 .. n
      OBVIOUS
    <2> QED
      BY <2>1, <2>2
  <1>5. Max(S) \in S /\ \A y \in S : Max(S) >= y
    BY <1>4, Zenon DEF Max
  <1> QED
    BY <1>5

(* A sample that can be processed does not have the sign of the newest;    *)
(* all that come after it do.                                              *)
LEMMA LimitFacts ==
    ASSUME NEW s \in Seq(Sample), NEW res \in Nat
    PROVE  /\ Limit(s, res) \in 0 .. Len(s)
           /\ (Len(s) > 0 /\ res > 0) =>
                 /\ Limit(s, res) > 0 => s[Limit(s, res)].level * s[Len(s)].level <= 0
                 /\ \A i \in 1 .. Len(s) :
                       s[i].level * s[Len(s)].level <= 0 => i <= Limit(s, res)
           /\ ~(Len(s) > 0 /\ res > 0) => Limit(s, res) = Len(s)
  <1>1. Len(s) \in Nat
    OBVIOUS
  <1>2. CASE Len(s) > 0 /\ res > 0
    <2> DEFINE A == {l \in 0 .. Len(s) : l = 0 \/ s[l].level * s[Len(s)].level <= 0}
    <2>1. Limit(s, res) = Max(A)
      BY <1>2 DEF Limit
    <2>2. A \in SUBSET (0 .. Len(s)) /\ A # {}
      <3>1. 0 \in A
        BY <1>1
      <3> QED
        BY <3>1
    <2>3. Max(A) \in A /\ \A y \in A : y <= Max(A)
      BY <1>1, <2>2, GreatestOf
    <2>4. Max(A) \in 0 .. Len(s) /\ (Max(A) = 0 \/ s[Max(A)].level * s[Len(s)].level <= 0)
      BY <2>3
    <2>5. ASSUME NEW i \in 1 .. Len(s), s[i].level * s[Len(s)].level <= 0
          PROVE  i <= Max(A)
      <3>1. i \in A
        BY <1>1, <2>5
      <3> QED
        BY <2>3, <3>1
    <2> HIDE DEF A
    <2> QED
      BY <1>1, <1>2, <2>1, <2>4, <2>5
  <1>3. CASE ~(Len(s) > 0 /\ res > 0)
    BY <1>1, <1>3 DEF Limit
  <1> QED
    BY <1>2, <1>3

(* An attenuated half-wave lies between what is done and the limit. *)
LEMMA HalfWaveFacts ==
    ASSUME NEW s \in Seq(Sample), NEW done \in Nat, NEW limit \in Nat,
           NEW p \in done + 1 .. limit, NEW i \in HalfWave(s, p, done, limit)
    PROVE  i \in Int /\ done < i /\ i <= limit
  <1> DEFINE opposite(j) == s[j].level * s[p].level < 0
             A == {done + 1} \cup {j \in done + 1 .. p : opposite(j)}
             B == {limit} \cup {j - 1 : j \in {k \in p .. limit : opposite(k)}}
  <1>1. i \in (1 + Max(A)) .. Min(B)
    BY DEF HalfWave
  <1>2. A \in SUBSET (0 .. p) /\ A # {}
    <2>1. \A j \in A : j = done + 1 \/ j \in done + 1 .. p
      OBVIOUS
    <2>2. done + 1 \in A
      OBVIOUS
    <2> HIDE DEF A
    <2> QED
      BY <2>1, <2>2
  <1>3. Max(A) \in A /\ \A y \in A : y <= Max(A)
    <2>1. p \in Nat
      OBVIOUS
    <2> HIDE DEF A
    <2> QED
      BY <1>2, <2>1, GreatestOf
  <1>4. done + 1 <= Max(A) /\ Max(A) \in Int
    BY <1>2, <1>3
  <1>5. B \in SUBSET Nat /\ B # {}
    <2>1. \A k \in p .. limit : k - 1 \in Nat
      OBVIOUS
    <2> QED
      BY <2>1
  <1>6. Min(B) <= limit /\ Min(B) \in Nat
    <2>1. Min(B) \in B /\ \A y \in B : Min(B) <= y
      BY <1>5, LeastOf
    <2>2. limit \in B
      OBVIOUS
    <2> QED
      BY <1>5, <2>1, <2>2
  <1> HIDE DEF A, B
  <1> QED
    BY <1>1, <1>4, <1>6

(* The limiter changes levels only, keeps their signs, and nothing that is *)
(* done or not yet due.                                                    *)
LEMMA LimitedFacts ==
    ASSUME NEW s \in Seq(Sample), NEW done \in Nat, NEW limit \in Nat,
           NEW r, r = Limited(s, done, limit)
    PROVE  /\ r \in Seq(Sample)
           /\ Len(r) = Len(s)
           /\ \A i \in 1 .. Len(s) :
                 /\ r[i].id = s[i].id
                 /\ r[i].level # s[i].level =>
                       OverScale(s[i].level) /\ r[i].level = s[i].level \div 2
                 /\ (i <= done \/ i > limit) => r[i] = s[i]
  <1> DEFINE peaks == {p \in done + 1 .. limit : OverScale(s[p].level)}
             waves == UNION {HalfWave(s, p, done, limit) : p \in peaks}
             v(i) == IF i \in waves /\ OverScale(s[i].level)
                     THEN [s[i] EXCEPT !.level = s[i].level \div 2] ELSE s[i]
  <1>1. r = [i \in 1 .. Len(s) |-> v(i)]
    BY DEF Limited
  <1>2. \A i \in waves : i \in Int /\ done < i /\ i <= limit
    <2> TAKE i \in waves
    <2>1. PICK p \in peaks : i \in HalfWave(s, p, done, limit)
      OBVIOUS
    <2>2. p \in done + 1 .. limit
      OBVIOUS
    <2> QED
      BY <2>1, <2>2, HalfWaveFacts
  <1>3. ASSUME NEW i \in 1 .. Len(s)
        PROVE  /\ v(i) \in Sample
               /\ v(i).id = s[i].id
               /\ v(i).level # s[i].level =>
                     OverScale(s[i].level) /\ v(i).level = s[i].level \div 2
               /\ (i <= done \/ i > limit) => v(i) = s[i]
    <2>1. s[i] \in Sample
      BY ElementOfSeq
    <2>2. CASE i \in waves /\ OverScale(s[i].level)
      <3>1. s[i].level \div 2 \in -2 .. 2
        BY <2>2 DEF OverScale
      <3>2. v(i) = [s[i] EXCEPT !.level = s[i].level \div 2]
        BY <2>2
      <3>3. done < i /\ i <= limit /\ i \in Nat
        BY <1>2, <2>2
      <3> HIDE DEF v, waves
      <3>4. v(i) \in Sample /\ v(i).id = s[i].id /\ v(i).level = s[i].level \div 2
        BY <2>1, <3>1, <3>2 DEF Sample
      <3> QED
        BY <2>2, <3>3, <3>4
    <2>3. CASE ~(i \in waves /\ OverScale(s[i].level))
      <3>1. v(i) = s[i]
        BY <2>3
      <3> HIDE DEF v
      <3> QED
        BY <2>1, <3>1
    <2> QED
      BY <2>2, <2>3
  <1> HIDE DEF v
  <1>4. Len(s) \in Nat
    OBVIOUS
  <1>5. r \in Seq(Sample) /\ Len(r) = Len(s)
    BY <1>1, <1>3, <1>4
  <1>6. \A i \in 1 .. Len(s) : r[i] = v(i)
    BY <1>1
  <1> QED
    BY <1>3, <1>5, <1>6

-----------------------------------------------------------------------------
(* The limiter's part of the invariant *)

(* What a channel has got of what was read. *)
Column(c) == [i \in 1 .. Len(ibuf) |-> ibuf[i][c]]
Queue(c) == buf[c] \o Column(c)

LimType == LimiterTypeOK /\ lim \in [pc : {"idle", "read", "call", "limit"}, n : Nat]

(* The limiter and the resampler take turns. *)
Turns ==
    /\ lim.pc # "idle" => lim.n > 0
    /\ lim.pc = "idle" => ibuf = << >>
    /\ lim.pc = "read" => Len(ibuf) < lim.n
    /\ lim.pc = "call" <=> rs.pc # "idle"
    /\ rs.k <= Len(ibuf)
    /\ lim.pc = "limit" /\ ibuf = << >> => Exhausted
    /\ ended => lim.pc = "idle" /\ delivered = OutputLength
    /\ ended \in BOOLEAN
    /\ delivered = limPos

(* Frames are numbered without a gap from what was handed out to what was  *)
(* computed, in every channel.                                             *)
Numbered ==
    /\ Outputs = limPos + Len(buf[1]) + Len(ibuf)
    /\ \A c \in LimChannels : Len(buf[c]) = Len(buf[1])
    /\ \A c \in LimChannels : \A i \in 1 .. Len(buf[c]) : buf[c][i].id = limPos + i - 1
    /\ \A c \in LimChannels : \A i \in 1 .. Len(ibuf) :
          ibuf[i][c].id = limPos + Len(buf[1]) + i - 1
    /\ \A c \in LimChannels :
          /\ Len(block[c]) = Len(block[1])
          /\ \A i \in 1 .. Len(block[c]) : block[c][i].id = limPos - Len(block[c]) + i - 1

(* What is held back has the sign of the newest sample; the last sample    *)
(* processed has not.                                                      *)
HeldBack(c) ==
    /\ head[c] > 0 => buf[c][head[c]].level = edge[c]
    /\ head[c] < Len(buf[c]) =>
          /\ edge[c] * buf[c][head[c] + 1].level <= 0
          /\ \A i \in head[c] + 1 .. Len(buf[c]) :
                buf[c][i].level * buf[c][Len(buf[c])].level > 0
    /\ head[c] = Len(buf[c]) => edge[c] = 0 \/ (Exhausted /\ ibuf = << >>)

(* The outputs lie inside the input. *)
Inside == Outputs * M <= (input * L) + M - 1

ChainInv ==
    /\ RsInv
    /\ LimType
    /\ Turns
    /\ Numbered
    /\ \A c \in LimChannels : HeldBack(c)
    /\ Inside

-----------------------------------------------------------------------------

(* There is a first channel. *)
LEMMA ChannelFacts == 1 \in LimChannels
  BY LimiterAssumption DEF LimChannels

(* The chain at the start. *)
LEMMA InitChainInv == Init => ChainInv
  <1> SUFFICES ASSUME Init PROVE ChainInv
    OBVIOUS
  <1>1. RsInv
    BY InitRsInv
  <1>2. /\ buf = [c \in LimChannels |-> << >>]
        /\ head = [c \in LimChannels |-> 0]
        /\ lim = [pc |-> "idle", n |-> 0]
        /\ ibuf = << >>
        /\ limPos = 0
        /\ block = [c \in LimChannels |-> << >>]
        /\ edge = [c \in LimChannels |-> 0]
        /\ delivered = 0
    BY DEF Init, LimiterInit
  <1>3. rs = Idle /\ position = 0 /\ rs.pc = "idle" /\ rs.k = 0
    BY DEF Init, ResamplerInit, Idle
  <1>4. Outputs = 0
    BY <1>3 DEF Outputs
  <1>5. LimType
    <2>1. lim \in [pc : {"idle", "read", "call", "limit"}, n : Nat] /\ lim.pc = "idle" /\ lim.n = 0
      BY <1>2
    <2>2. << >> \in Seq(Sample) /\ << >> \in Seq([LimChannels -> Sample]) /\ Len(<< >>) = 0
      OBVIOUS
    <2>3. buf \in [LimChannels -> Seq(Sample)] /\ block \in [LimChannels -> Seq(Sample)]
      BY <1>2, <2>2
    <2>4. \A c \in LimChannels : head[c] \in 0 .. Len(buf[c])
      BY <1>2, <2>2
    <2>5. edge \in [LimChannels -> -2 .. 2]
      BY <1>2
    <2> QED
      BY <1>2, <2>1, <2>2, <2>3, <2>4, <2>5 DEF LimType, LimiterTypeOK
  <1>6. Turns
    <2>1. ~ended /\ ended \in BOOLEAN
      BY Zenon DEF Init
    <2>2. lim.pc = "idle" /\ Len(ibuf) = 0
      BY <1>2
    <2> QED
      BY <1>2, <1>3, <2>1, <2>2 DEF Turns
  <1>7. Numbered
    BY <1>2, <1>4, ChannelFacts DEF Numbered
  <1>8. \A c \in LimChannels : HeldBack(c)
    BY <1>2 DEF HeldBack
  <1>9. Inside
    <2>1. input \in Nat /\ L \in Nat \ {0} /\ M \in Nat \ {0} /\ input * L \in Nat
      BY <1>1 DEF RsInv, RsType
    <2> QED
      BY <1>4, <2>1 DEF Inside
  <1> QED
    BY <1>1, <1>5, <1>6, <1>7, <1>8, <1>9 DEF ChainInv

(* The caller asks for frames. *)
LEMMA CallChainInv ==
    ASSUME ChainInv, Call
    PROVE  ChainInv'
  <1>1. /\ lim.pc = "idle" /\ ~ended
        /\ \E n \in Requests : lim' = [pc |-> "read", n |-> n]
        /\ ibuf' = << >>
        /\ block' = [c \in LimChannels |-> << >>]
        /\ UNCHANGED <<buf, head, limPos, edge, resamplerVars, delivered, ended>>
    BY DEF Call, LimiterCall
  <1>2. PICK n \in Requests : lim' = [pc |-> "read", n |-> n]
    BY <1>1
  <1>3. n \in Nat /\ n > 0 /\ lim'.pc = "read" /\ lim'.n = n
    BY <1>2, ChainAssumption
  <1>4. RsInv'
    BY <1>1, StutterRsInv DEF ChainInv
  <1>5. ibuf = << >> /\ ibuf' = ibuf
    BY <1>1 DEF ChainInv, Turns
  <1>6. /\ rs' = rs /\ Outputs' = Outputs /\ Exhausted' = Exhausted
        /\ input' = input /\ L' = L /\ M' = M
    BY <1>1 DEF resamplerVars, Outputs, Exhausted
  <1>7. LimType'
    <2>1. << >> \in Seq(Sample)
      OBVIOUS
    <2>2. block' \in [LimChannels -> Seq(Sample)]
      BY <1>1, <2>1
    <2>3. lim' \in [pc : {"idle", "read", "call", "limit"}, n : Nat]
      BY <1>2, <1>3
    <2> QED
      BY <1>1, <1>3, <1>5, <2>2, <2>3 DEF ChainInv, LimType, LimiterTypeOK
  <1>8. Turns'
    BY <1>1, <1>3, <1>5, <1>6 DEF ChainInv, Turns
  <1>9. Numbered'
    BY <1>1, <1>5, <1>6, ChannelFacts DEF ChainInv, Numbered
  <1>10. \A c \in LimChannels : HeldBack(c)'
    BY <1>1, <1>5, <1>6 DEF ChainInv, HeldBack
  <1>11. Inside'
    BY <1>6 DEF ChainInv, Inside
  <1> QED
    BY <1>4, <1>7, <1>8, <1>9, <1>10, <1>11 DEF ChainInv

(* The limiter asks the resampler. *)
LEMMA ReadOnChainInv ==
    ASSUME ChainInv, ReadOn
    PROVE  ChainInv'
  <1>1. /\ lim.pc = "read"
        /\ ResamplerCall(lim.n - Len(ibuf))
        /\ lim' = [lim EXCEPT !.pc = "call"]
        /\ UNCHANGED <<buf, head, ibuf, limPos, block, edge, delivered, ended>>
    BY DEF ReadOn
  <1>2. /\ lim \in [pc : {"idle", "read", "call", "limit"}, n : Nat]
        /\ Len(ibuf) \in Nat /\ Len(ibuf) < lim.n
    BY <1>1 DEF ChainInv, LimType, LimiterTypeOK, Turns
  <1>3. lim.n - Len(ibuf) \in Nat \ {0}
    BY <1>2
  <1>4. RsInv'
    BY <1>1, <1>3, CallRsInv DEF ChainInv
  <1>5. lim' \in [pc : {"idle", "read", "call", "limit"}, n : Nat] /\ lim'.pc = "call" /\ lim'.n = lim.n
    BY <1>1, <1>2
  <1>6. /\ rs.pc = "idle" /\ rs'.pc # "idle" /\ rs'.k = 0 /\ rs.k = 0
        /\ UNCHANGED <<input, L, M, eof, nfloor, inTotal, position>>
    BY <1>1 DEF ResamplerCall, ChainInv, RsInv, CallInv
  <1>7. Outputs' = Outputs /\ Exhausted' = Exhausted
    BY <1>6 DEF Outputs, Exhausted
  <1>8. LimType'
    BY <1>1, <1>5 DEF ChainInv, LimType, LimiterTypeOK
  <1>9. Turns'
    BY <1>1, <1>2, <1>5, <1>6 DEF ChainInv, Turns
  <1>10. Numbered' /\ Inside'
    BY <1>1, <1>6, <1>7 DEF ChainInv, Numbered, Inside
  <1>11. \A c \in LimChannels : HeldBack(c)'
    BY <1>1, <1>7 DEF ChainInv, HeldBack
  <1> QED
    BY <1>4, <1>8, <1>9, <1>10, <1>11 DEF ChainInv

(* Steps inside the resampler. *)
LEMMA ResampleChainInv ==
    ASSUME ChainInv, Resample
    PROVE  ChainInv'
  <1>1. /\ Refill \/ ResamplerLoop
        /\ UNCHANGED <<buf, head, lim, ibuf, limPos, block, edge, delivered, ended>>
    BY DEF Resample, limiterVars
  <1>2. RsInv'
    BY <1>1, RefillRsInv, LoopRsInv DEF ChainInv
  <1>3. /\ rs.pc # "idle" /\ rs'.pc # "idle" /\ rs'.k = rs.k
        /\ UNCHANGED <<input, L, M, position>>
    <2>1. CASE Refill
      <3>1. /\ rs.pc = "refill" /\ (rs' = rs \/ rs' = [rs EXCEPT !.pc = rs.after])
            /\ UNCHANGED <<input, L, M, position>>
        BY <2>1 DEF Refill
      <3> QED
        BY <3>1 DEF ChainInv, RsInv, RsType, CallInv
    <2>2. CASE ResamplerLoop
      BY <2>2 DEF ResamplerLoop, ChainInv, RsInv, RsType
    <2> QED
      BY <1>1, <2>1, <2>2
  <1>4. Exhausted => Exhausted'
    <2>1. CASE Refill
      <3>1. ASSUME Exhausted PROVE eof' /\ inTotal' = inTotal /\ nfloor' = nfloor
        <4>1. eof /\ nfloor' = nfloor
          BY <2>1, <3>1 DEF Refill, Exhausted
        <4>2. CASE base + Fill > rs.upto
          BY <2>1, <4>1, <4>2 DEF Refill
        <4>3. CASE ~(base + Fill > rs.upto)
          <5>1. eof' = (0 = 0) /\ inTotal' = inTotal + 0
            BY <2>1, <4>1, <4>3 DEF Refill
          <5>2. inTotal \in Int
            BY DEF ChainInv, RsInv, RsType
          <5>3. eof'
            BY <5>1, Zenon
          <5>4. inTotal' = inTotal
            BY <5>1, <5>2
          <5> QED
            BY <4>1, <5>3, <5>4
        <4> QED
          BY <4>2, <4>3
      <3> QED
        BY <3>1 DEF Exhausted
    <2>2. CASE ResamplerLoop
      BY <2>2 DEF ResamplerLoop, Exhausted
    <2> QED
      BY <1>1, <2>1, <2>2
  <1>5. Outputs' = Outputs
    BY <1>3 DEF Outputs
  <1>6. LimType'
    BY <1>1 DEF ChainInv, LimType, LimiterTypeOK
  <1>7. OutputLength' = OutputLength
    BY <1>3 DEF OutputLength
  <1>8. Turns'
    BY <1>1, <1>3, <1>4, <1>7 DEF ChainInv, Turns
  <1>9. Numbered' /\ Inside'
    BY <1>1, <1>3, <1>5 DEF ChainInv, Numbered, Inside
  <1>10. \A c \in LimChannels : HeldBack(c)'
    BY <1>1, <1>4 DEF ChainInv, HeldBack
  <1> QED
    BY <1>2, <1>6, <1>8, <1>9, <1>10 DEF ChainInv

(* With no frame of input left, the outputs are complete. *)
LEMMA ExhaustedComplete ==
    ASSUME RsInv, Inside, Exhausted
    PROVE  OutputLength = Outputs
  <1>1. /\ input \in Nat /\ L \in Nat \ {0} /\ M \in Nat \ {0} /\ nfloor \in Nat
        /\ frac \in 0 .. L - 1 /\ Outputs \in Nat
    BY DEF RsInv, RsType, Outputs
  <1>2. (nfloor * L) + frac = Outputs * M
    BY DEF RsInv, OnTimeline
  <1>3. input <= nfloor
    BY DEF Exhausted, RsInv, Contents
  <1>4. input * L <= nfloor * L
    BY <1>1, <1>3, Grows
  <1> DEFINE a == input * L
             b == Outputs * M
             r == a + M - 1 - b
  <1>5. a \in Int /\ b \in Int /\ nfloor * L \in Int
    BY <1>1
  <1>6. a <= b
    <2> DEFINE t == nfloor * L
    <2>1. a <= t /\ t + frac = b /\ t \in Int /\ frac \in Nat
      BY <1>1, <1>2, <1>4, <1>5
    <2> HIDE DEF a, b, t
    <2> QED
      BY <1>5, <2>1
  <1>7. b <= a + M - 1
    BY DEF Inside
  <1>8. r \in 0 .. M - 1 /\ a + M - 1 = (b + r)
    <2>1. M \in Int
      BY <1>1
    <2> HIDE DEF a, b
    <2> QED
      BY <1>5, <1>6, <1>7, <2>1
  <1>9. ((Outputs * M) + r) \div M = Outputs
    <2>1. r \in 0 .. M - 1 /\ Outputs \in Int /\ M \in Nat \ {0}
      BY <1>1, <1>8
    <2> HIDE DEF r
    <2> QED
      BY <2>1, DivUnique
  <1> HIDE DEF r
  <1> QED
    BY <1>8, <1>9 DEF OutputLength

(* No output lies past the length announced. *)
LEMMA InsideLength ==
    ASSUME RsInv, Inside
    PROVE  OutputLength \in Nat /\ Outputs <= OutputLength
  <1>1. /\ input \in Nat /\ L \in Nat \ {0} /\ M \in Nat \ {0} /\ Outputs \in Nat
    BY DEF RsInv, RsType, Outputs
  <1> DEFINE a == (input * L) + M - 1
  <1>2. a \in Nat /\ Outputs * M <= a /\ Outputs * M \in Int
    <2>1. input * L \in Nat
      BY <1>1
    <2> QED
      BY <1>1, <2>1 DEF Inside
  <1> HIDE DEF a
  <1>3. (Outputs * M) \div M <= a \div M
    BY <1>1, <1>2, DivMonotone
  <1>4. (Outputs * M) \div M = Outputs
    <2>1. ((Outputs * M) + 0) \div M = Outputs
      BY <1>1, DivUnique
    <2>2. (Outputs * M) + 0 = Outputs * M
      BY <1>2
    <2> QED
      BY <2>1, <2>2
  <1>5. a \div M \in Int
    BY <1>1, <1>2
  <1>6. OutputLength = a \div M
    BY DEF OutputLength, a
  <1> QED
    BY <1>1, <1>3, <1>4, <1>5, <1>6

(* An output goes into the read buffer. *)
LEMMA EmitChainInv ==
    ASSUME ChainInv, Emit
    PROVE  ChainInv'
  <1>1. ResamplerEmit /\ UNCHANGED <<buf, head, lim, limPos, block, edge, delivered, ended>>
    BY DEF Emit
  <1>2. PICK level \in Frames :
           ibuf' = Append(ibuf, [c \in LimChannels |-> [id |-> Outputs, level |-> level[c]]])
    BY DEF Emit
  <1>3. RsInv'
    BY <1>1, EmitRsInv DEF ChainInv
  <1>4. /\ rs.pc = "emit" /\ ~Exhausted
        /\ rs' = [rs EXCEPT !.pc = "loop", !.k = rs.k + 1]
        /\ UNCHANGED <<input, L, M, position>>
    BY <1>1 DEF ResamplerEmit, ResamplerDone
  <1>5. /\ rs'.pc = "loop" /\ rs'.k = rs.k + 1 /\ rs.k \in Nat /\ position \in Nat
        /\ Outputs \in Nat /\ Outputs' = Outputs + 1
    <2>1. rs.k \in Nat /\ position \in Nat /\ rs'.pc = "loop" /\ rs'.k = rs.k + 1
      BY <1>4 DEF ChainInv, RsInv, RsType
    <2> QED
      BY <1>4, <2>1 DEF Outputs
  <1> DEFINE new == [c \in LimChannels |-> [id |-> Outputs, level |-> level[c]]]
  <1>6. new \in [LimChannels -> Sample] /\ \A c \in LimChannels : new[c].id = Outputs
    <2>1. \A c \in LimChannels : level[c] \in -2 .. 2
      BY LimiterAssumption DEF LimChannels
    <2>2. \A c \in LimChannels : [id |-> Outputs, level |-> level[c]] \in Sample
      BY <1>5, <2>1 DEF Sample
    <2> QED
      BY <2>2
  <1> HIDE DEF new
  <1>7. ibuf' = Append(ibuf, new)
    BY <1>2 DEF new
  <1>8. ibuf \in Seq([LimChannels -> Sample]) /\ Len(ibuf) \in Nat
    BY DEF ChainInv, LimType, LimiterTypeOK
  <1>9. /\ ibuf' \in Seq([LimChannels -> Sample]) /\ Len(ibuf') = Len(ibuf) + 1
        /\ \A i \in 1 .. Len(ibuf') : ibuf'[i] = IF i = Len(ibuf) + 1 THEN new ELSE ibuf[i]
    BY <1>6, <1>7, <1>8, AppendProperties
  <1>10. lim.pc = "call" /\ lim' = lim
    BY <1>1, <1>4 DEF ChainInv, Turns
  <1>11. LimType'
    BY <1>1, <1>9 DEF ChainInv, LimType, LimiterTypeOK
  <1>12. OutputLength' = OutputLength
    BY <1>4 DEF OutputLength
  <1>13. Turns'
    <2>1. rs'.k <= Len(ibuf')
      BY <1>5, <1>8, <1>9 DEF ChainInv, Turns
    <2>2. ~ended
      BY <1>10 DEF ChainInv, Turns
    <2> QED
      BY <1>1, <1>5, <1>10, <2>1, <2>2 DEF ChainInv, Turns
  <1>14. Numbered'
    <2>1. limPos \in Nat /\ Len(buf[1]) \in Nat
      BY ChannelFacts DEF ChainInv, LimType, LimiterTypeOK
    <2>2. Outputs = limPos + Len(buf[1]) + Len(ibuf)
      BY DEF ChainInv, Numbered
    <2>3. Outputs' = limPos' + Len(buf'[1]) + Len(ibuf')
      <3> DEFINE B == Len(buf[1])
                 K == Len(ibuf)
      <3>1. Outputs = limPos + B + K /\ B \in Nat /\ K \in Nat /\ limPos \in Nat
        BY <1>8, <2>1, <2>2
      <3> HIDE DEF B, K
      <3>2. Outputs + 1 = limPos + B + (K + 1)
        BY <1>5, <3>1
      <3>3. Outputs' = Outputs + 1 /\ limPos' = limPos /\ Len(buf'[1]) = B /\ Len(ibuf') = K + 1
        BY <1>1, <1>5, <1>9 DEF B, K
      <3> QED
        BY <3>2, <3>3
    <2>4. ASSUME NEW c \in LimChannels, NEW i \in 1 .. Len(ibuf')
          PROVE  ibuf'[i][c].id = limPos' + Len(buf'[1]) + i - 1
      <3>1. CASE i = Len(ibuf) + 1
        BY <1>1, <1>6, <1>8, <1>9, <2>1, <2>2, <3>1
      <3>2. CASE i # Len(ibuf) + 1
        <4>1. i \in 1 .. Len(ibuf) /\ ibuf'[i] = ibuf[i]
          BY <1>8, <1>9, <3>2
        <4> QED
          BY <1>1, <4>1 DEF ChainInv, Numbered
      <3> QED
        BY <3>1, <3>2
    <2> QED
      BY <1>1, <2>3, <2>4 DEF ChainInv, Numbered
  <1>15. \A c \in LimChannels : HeldBack(c)'
    BY <1>1, <1>4 DEF ChainInv, HeldBack
  <1>16. Inside'
    <2>1. /\ input \in Nat /\ L \in Nat \ {0} /\ M \in Nat \ {0} /\ nfloor \in Nat
          /\ frac \in 0 .. L - 1 /\ inTotal <= input /\ inTotal \in Nat
      BY DEF ChainInv, RsInv, RsType
    <2>2. nfloor < inTotal
      BY <1>4, EmitsInside DEF ChainInv
    <2>3. nfloor + 1 <= input
      BY <2>1, <2>2
    <2>4. (nfloor + 1) * L <= input * L
      BY <2>1, <2>3, Grows
    <2>5. (nfloor + 1) * L = (nfloor * L) + (1 * L)
      BY <2>1, Distribute
    <2>6. (Outputs + 1) * M = (Outputs * M) + (1 * M)
      BY <1>5, <2>1, Distribute
    <2> DEFINE p == nfloor * L
               q == Outputs * M
               a == input * L
    <2>7. p \in Int /\ q \in Int /\ a \in Int /\ p + frac = q
      BY <1>5, <2>1 DEF ChainInv, RsInv, OnTimeline
    <2>8. p + L <= a /\ (Outputs + 1) * M = q + M
      <3>1. 1 * L = L /\ 1 * M = M
        BY <2>1
      <3> QED
        BY <2>4, <2>5, <2>6, <3>1
    <2> HIDE DEF p, q, a
    <2>9. q + M <= a + M - 1
      BY <2>1, <2>7, <2>8
    <2> QED
      BY <1>4, <1>5, <2>8, <2>9 DEF Inside, a
  <1> QED
    BY <1>3, <1>11, <1>13, <1>14, <1>15, <1>16 DEF ChainInv

(* The resampler returns. *)
LEMMA ReadReturnsChainInv ==
    ASSUME ChainInv, ReadReturns
    PROVE  ChainInv'
  <1>1. /\ ResamplerReturn
        /\ lim' = [lim EXCEPT !.pc = IF rs.k > 0 /\ Len(ibuf) < lim.n THEN "read" ELSE "limit"]
        /\ UNCHANGED <<buf, head, ibuf, limPos, block, edge, delivered, ended>>
    BY DEF ReadReturns
  <1>2. RsInv'
    BY <1>1, ReturnRsInv DEF ChainInv
  <1>3. /\ rs.pc # "idle" /\ rs' = Idle /\ rs'.pc = "idle" /\ rs'.k = 0
        /\ position' = position + rs.k
        /\ UNCHANGED <<input, L, M, eof, inTotal, nfloor>>
    BY <1>1 DEF ResamplerReturn, ResamplerDone, Idle
  <1>4. rs.k \in Nat /\ rs.n \in Nat /\ position \in Nat /\ rs.n > 0
    BY <1>3 DEF ChainInv, RsInv, RsType, CallInv
  <1>5. Outputs' = Outputs /\ Exhausted' = Exhausted /\ OutputLength' = OutputLength
    BY <1>3, <1>4 DEF Outputs, Exhausted, OutputLength
  <1>6. lim \in [pc : {"idle", "read", "call", "limit"}, n : Nat]
    BY DEF ChainInv, LimType
  <1>7. /\ lim' \in [pc : {"idle", "read", "call", "limit"}, n : Nat]
        /\ lim'.n = lim.n /\ lim'.pc \in {"read", "limit"}
        /\ lim'.pc = "read" => rs.k > 0 /\ Len(ibuf) < lim.n
        /\ lim'.pc = "limit" => ~(rs.k > 0 /\ Len(ibuf) < lim.n)
    BY <1>1, <1>6
  <1>8. LimType'
    BY <1>1, <1>7 DEF ChainInv, LimType, LimiterTypeOK
  <1>9. lim.pc = "call" /\ lim.n > 0 /\ rs.k <= Len(ibuf) /\ ~ended
    BY <1>3 DEF ChainInv, Turns
  <1>10. lim'.pc = "limit" /\ ibuf = << >> => Exhausted
    <2> SUFFICES ASSUME lim'.pc = "limit", ibuf = << >> PROVE Exhausted
      OBVIOUS
    <2>1. Len(ibuf) = 0
      OBVIOUS
    <2>2. rs.k = 0
      BY <1>4, <1>9, <2>1
    <2> QED
      BY <1>1, <1>4, <2>2 DEF ResamplerReturn, ResamplerDone
  <1>11. Turns'
    <2>1. rs'.k <= Len(ibuf')
      <3>1. ibuf \in Seq([LimChannels -> Sample])
        BY DEF ChainInv, LimType, LimiterTypeOK
      <3> QED
        BY <1>1, <1>3, <3>1
    <2> QED
      BY <1>1, <1>3, <1>5, <1>7, <1>9, <1>10, <2>1 DEF ChainInv, Turns
  <1>12. Numbered' /\ Inside'
    BY <1>1, <1>3, <1>5 DEF ChainInv, Numbered, Inside
  <1>13. \A c \in LimChannels : HeldBack(c)'
    BY <1>1, <1>5 DEF ChainInv, HeldBack
  <1> QED
    BY <1>2, <1>8, <1>11, <1>12, <1>13 DEF ChainInv

(* The products of levels tell signs. *)
LEMMA SignFacts ==
    ASSUME NEW a \in -2 .. 2, NEW b \in -2 .. 2, NEW c \in -2 .. 2
    PROVE  /\ a * b \in Int /\ a * b = b * a
           /\ a * a <= 0 => a = 0
           /\ a * b <= 0 /\ b * c > 0 => a * c <= 0
           /\ a = 0 => a * b = 0
  <1>1. a \in {-2, -1, 0, 1, 2} /\ b \in {-2, -1, 0, 1, 2} /\ c \in {-2, -1, 0, 1, 2}
    OBVIOUS
  <1> QED
    BY <1>1

(* Attenuation keeps the sign. *)
LEMMA HalvedSign ==
    ASSUME NEW a \in {-2, 2}, NEW b \in -2 .. 2
    PROVE  /\ a * b <= 0 <=> (a \div 2) * b <= 0
           /\ a \div 2 \in -2 .. 2
  <1>1. b \in {-2, -1, 0, 1, 2}
    OBVIOUS
  <1> QED
    BY <1>1

(* One channel in a turn of the limiter: b is its queue, of which h are    *)
(* What the first h samples of b, the ones processed, leave for a pass that *)
(* takes n more.                                                           *)
HeldPart(b, h, e, n) ==
    /\ h > 0 => b[h].level = e
    /\ h < Len(b) =>
          /\ e * b[h + 1].level <= 0
          /\ \A i \in h + 1 .. Len(b) : b[i].level * b[Len(b)].level > 0
    /\ h = Len(b) => e = 0 \/ n = 0

(* What a pass makes of the queue: limit samples of r are processed.       *)
PassedOn(b, col, h, e, all, limit, r, e2) ==
    /\ all \in Seq(Sample) /\ Len(all) = Len(b) + Len(col)
    /\ limit \in h .. Len(all)
    /\ r \in Seq(Sample) /\ Len(r) = Len(all)
    /\ \A i \in 1 .. Len(all) : r[i].id = all[i].id
    /\ e2 \in -2 .. 2
    /\ limit > 0 => r[limit].level = e2
    /\ limit < Len(r) =>
          /\ e2 * r[limit + 1].level <= 0
          /\ \A i \in limit + 1 .. Len(r) : r[i].level * r[Len(r)].level > 0
    /\ limit = Len(r) => e2 = 0 \/ Len(col) = 0
    /\ h < Len(all) => e * all[h + 1].level <= 0
    /\ Len(all) = 0 \/ Len(col) = 0 => limit = Len(all)

(* done, e the level of the last one done, col what it has been given.     *)
LEMMA PassChannel ==
    ASSUME NEW b \in Seq(Sample), NEW col \in Seq(Sample), NEW h \in 0 .. Len(b), NEW e \in -2 .. 2,
           HeldPart(b, h, e, Len(col)),
           NEW all, all = b \o col,
           NEW limit, limit = Limit(all, Len(col)),
           NEW r, r = Limited(all, h, limit),
           NEW e2, e2 = IF limit > h THEN r[limit].level ELSE e
    PROVE  PassedOn(b, col, h, e, all, limit, r, e2)
  <1> USE DEF HeldPart
  <1>1. Len(b) \in Nat /\ Len(col) \in Nat /\ h \in Nat /\ h <= Len(b)
    OBVIOUS
  <1>2. /\ all \in Seq(Sample) /\ Len(all) = Len(b) + Len(col)
        /\ \A i \in 1 .. Len(all) : all[i] = IF i <= Len(b) THEN b[i] ELSE col[i - Len(b)]
    BY ConcatProperties
  <1>3. Len(all) \in Nat /\ h <= Len(all)
    BY <1>1, <1>2
  <1>4. /\ limit \in 0 .. Len(all)
        /\ (Len(all) > 0 /\ Len(col) > 0) =>
              /\ limit > 0 => all[limit].level * all[Len(all)].level <= 0
              /\ \A i \in 1 .. Len(all) : all[i].level * all[Len(all)].level <= 0 => i <= limit
        /\ ~(Len(all) > 0 /\ Len(col) > 0) => limit = Len(all)
    BY <1>1, <1>2, LimitFacts
  <1>5. limit \in Nat
    BY <1>4
  <1>6. /\ r \in Seq(Sample) /\ Len(r) = Len(all)
        /\ \A i \in 1 .. Len(all) :
              /\ r[i].id = all[i].id
              /\ r[i].level # all[i].level =>
                    OverScale(all[i].level) /\ r[i].level = all[i].level \div 2
              /\ (i <= h \/ i > limit) => r[i] = all[i]
    <2>1. h \in Nat /\ all \in Seq(Sample)
      BY <1>1, <1>2
    <2>2. r = Limited(all, h, limit)
      OBVIOUS
    <2>3. \A t \in Seq(Sample), d, l \in Nat :
             LET u == Limited(t, d, l)
             IN  /\ u \in Seq(Sample) /\ Len(u) = Len(t)
                 /\ \A i \in 1 .. Len(t) :
                       /\ u[i].id = t[i].id
                       /\ u[i].level # t[i].level =>
                             OverScale(t[i].level) /\ u[i].level = t[i].level \div 2
                       /\ (i <= d \/ i > l) => u[i] = t[i]
      BY LimitedFacts
    <2> DEFINE P(t, d, l, u) ==
                 /\ u \in Seq(Sample) /\ Len(u) = Len(t)
                 /\ \A i \in 1 .. Len(t) :
                       /\ u[i].id = t[i].id
                       /\ u[i].level # t[i].level =>
                             OverScale(t[i].level) /\ u[i].level = t[i].level \div 2
                       /\ (i <= d \/ i > l) => u[i] = t[i]
    <2>4. \A t \in Seq(Sample), d, l \in Nat : P(t, d, l, Limited(t, d, l))
      BY <2>3
    <2>5. P(all, h, limit, r)
      <3> HIDE DEF P
      <3> QED
        BY <1>5, <2>1, <2>2, <2>4
    <2> QED
      BY <2>5
  <1>7. \A i \in 1 .. Len(all) : all[i].level \in -2 .. 2 /\ r[i].level \in -2 .. 2
    <2> TAKE i \in 1 .. Len(all)
    <2>1. all[i] \in Sample
      BY <1>2, ElementOfSeq
    <2>2. r[i] \in Sample
      BY <1>6, ElementOfSeq
    <2> QED
      BY <2>1, <2>2 DEF Sample
  <1> DEFINE last == all[Len(all)].level
  <1>8. Len(all) > 0 => last \in -2 .. 2
    <2>1. Len(all) > 0 => Len(all) \in 1 .. Len(all)
      BY <1>3
    <2> QED
      BY <1>7, <2>1
  <1>9. \A i \in 1 .. Len(all), v \in -2 .. 2 :
           all[i].level * v <= 0 => r[i].level * v <= 0
    <2> TAKE i \in 1 .. Len(all), v \in -2 .. 2
    <2>1. CASE r[i].level = all[i].level
      BY <2>1
    <2>2. CASE r[i].level # all[i].level
      <3>1. all[i].level \in {-2, 2} /\ r[i].level = all[i].level \div 2
        BY <1>6, <2>2 DEF OverScale
      <3> QED
        BY <3>1, HalvedSign
    <2> QED
      BY <2>1, <2>2
  <1>10. h < Len(all) => e * all[h + 1].level <= 0
    <2>1. CASE h < Len(b)
      <3>1. all[h + 1] = b[h + 1]
        BY <1>1, <1>2, <2>1
      <3> QED
        BY <2>1, <3>1
    <2>2. CASE h = Len(b) /\ h < Len(all)
      <3>1. e = 0 /\ all[h + 1].level \in -2 .. 2
        BY <1>1, <1>2, <1>7, <2>2
      <3> QED
        BY <3>1, SignFacts
    <2> QED
      BY <1>1, <2>1, <2>2
  <1>11. h > 0 => all[h].level = e
    BY <1>1, <1>2
  <1>12. limit >= h
    <2>1. CASE ~(Len(all) > 0 /\ Len(col) > 0)
      BY <1>3, <1>4, <2>1
    <2>2. CASE h = 0
      BY <1>5, <2>2
    <2>3. CASE Len(all) > 0 /\ Len(col) > 0 /\ h > 0
      <3>1. h < Len(all) /\ h \in 1 .. Len(all) /\ h + 1 \in 1 .. Len(all)
        BY <1>1, <1>2, <2>3
      <3>2. all[h + 1].level \in -2 .. 2 /\ last \in -2 .. 2 /\ e * all[h + 1].level <= 0
        BY <1>7, <1>8, <1>10, <2>3, <3>1
      <3>3. CASE all[h + 1].level * last <= 0
        <4>1. h + 1 <= limit
          BY <1>4, <2>3, <3>1, <3>3
        <4> QED
          BY <1>1, <1>5, <4>1
      <3>4. CASE ~(all[h + 1].level * last <= 0)
        <4> DEFINE next == all[h + 1].level
        <4>1. next * last > 0 /\ next \in -2 .. 2 /\ e * next <= 0
          <5> DEFINE prod == next * last
          <5>1. prod \in Int
            BY <3>2, SignFacts
          <5>2. ~(prod <= 0)
            BY <3>4
          <5>3. prod > 0
            <6> HIDE DEF prod
            <6> QED
              BY <5>1, <5>2
          <5> QED
            BY <3>2, <5>3
        <4> HIDE DEF next, last
        <4>2. e * last <= 0
          BY <3>2, <4>1, SignFacts
        <4>3. all[h].level * all[Len(all)].level <= 0
          BY <1>11, <2>3, <4>2 DEF last
        <4> QED
          BY <1>4, <2>3, <3>1, <4>3
      <3> QED
        BY <3>3, <3>4
    <2> QED
      BY <1>1, <2>1, <2>2, <2>3
  <1>13. e2 \in -2 .. 2 /\ (limit > 0 => r[limit].level = e2)
    <2>1. CASE limit > h
      <3>1. limit \in 1 .. Len(all) /\ e2 = r[limit].level
        BY <1>1, <1>4, <2>1
      <3> QED
        BY <1>7, <3>1
    <2>2. CASE limit = h
      <3>1. e2 = e
        BY <1>1, <2>2
      <3>2. h > 0 => r[h] = all[h]
        BY <1>1, <1>3, <1>6
      <3> QED
        BY <1>11, <2>2, <3>1, <3>2
    <2> QED
      BY <1>1, <1>5, <1>12, <2>1, <2>2
  <1>14. ASSUME limit < Len(r)
         PROVE  /\ e2 * r[limit + 1].level <= 0
                /\ \A i \in limit + 1 .. Len(r) : r[i].level * r[Len(r)].level > 0
    <2>1. Len(all) > 0 /\ Len(col) > 0 /\ limit < Len(all)
      BY <1>3, <1>4, <1>6, <1>14
    <2>2. last \in -2 .. 2 /\ Len(all) \in 1 .. Len(all) /\ r[Len(all)] = all[Len(all)]
      BY <1>3, <1>6, <1>8, <2>1
    <2>3. ASSUME NEW i \in limit + 1 .. Len(all)
          PROVE  r[i] = all[i] /\ all[i].level * last > 0 /\ all[i].level \in -2 .. 2
      <3>1. i \in 1 .. Len(all) /\ i > limit /\ ~(i <= limit)
        BY <1>3, <1>5
      <3>2. all[i].level \in -2 .. 2 /\ r[i] = all[i]
        BY <1>6, <1>7, <3>1
      <3> DEFINE prod == all[i].level * last
      <3>3. ~(prod <= 0)
        BY <1>4, <2>1, <3>1
      <3>4. prod \in Int
        BY <2>2, <3>2, SignFacts
      <3>5. prod > 0
        <4> HIDE DEF prod
        <4> QED
          BY <3>3, <3>4
      <3> QED
        BY <3>2, <3>5
    <2>4. limit + 1 \in limit + 1 .. Len(all)
      BY <1>3, <1>5, <2>1
    <2> DEFINE next == all[limit + 1].level
    <2>5. r[limit + 1] = all[limit + 1] /\ next * last > 0 /\ next \in -2 .. 2
      BY <2>3, <2>4
    <2>6. e2 * next <= 0
      <3>1. CASE limit > h
        <4>1. limit \in 1 .. Len(all) /\ e2 = r[limit].level /\ limit > 0
          BY <1>1, <1>4, <3>1
        <4> DEFINE a == all[limit].level
        <4>2. a \in -2 .. 2 /\ a * last <= 0
          BY <1>4, <1>7, <2>1, <4>1
        <4>3. a * next <= 0
          <5>1. last * next > 0
            <6>1. next * last = last * next
              BY <2>2, <2>5, SignFacts
            <6> QED
              BY <2>5, <6>1
          <5> HIDE DEF a, last, next
          <5> QED
            BY <2>2, <2>5, <4>2, <5>1, SignFacts
        <4> HIDE DEF next
        <4> QED
          BY <1>9, <2>5, <4>1, <4>3
      <3>2. CASE limit = h
        BY <1>1, <1>10, <2>1, <3>2
      <3>3. limit > h \/ limit = h
        BY <1>1, <1>5, <1>12
      <3> QED
        BY <3>1, <3>2, <3>3
    <2> QED
      BY <1>6, <2>2, <2>3, <2>5, <2>6
  <1>15. ASSUME limit = Len(r) PROVE e2 = 0 \/ Len(col) = 0
    <2> SUFFICES ASSUME Len(col) # 0 PROVE e2 = 0
      OBVIOUS
    <2>1. Len(col) > 0 /\ Len(all) > 0 /\ limit = Len(all) /\ limit > h /\ limit > 0
      BY <1>1, <1>2, <1>6, <1>15
    <2>2. last \in -2 .. 2 /\ last * last <= 0
      BY <1>4, <1>8, <2>1
    <2>3. last = 0
      <3> HIDE DEF last
      <3> QED
        BY <2>2, SignFacts
    <2>4. limit \in 1 .. Len(all) /\ all[limit].level = 0
      BY <1>4, <2>1, <2>3
    <2>5. ~OverScale(all[limit].level)
      BY <2>4 DEF OverScale
    <2>6. r[limit].level = all[limit].level
      BY <1>6, <2>4, <2>5
    <2> QED
      BY <2>1, <2>4, <2>6
  <1>16. limit \in h .. Len(all)
    BY <1>1, <1>4, <1>12
  <1>17. Len(all) = 0 \/ Len(col) = 0 => limit = Len(all)
    BY <1>3, <1>4
  <1> HIDE DEF last
  <1>18. \A i \in 1 .. Len(all) : r[i].id = all[i].id
    BY <1>6
  <1>19. r \in Seq(Sample) /\ Len(r) = Len(all)
    BY <1>6
  <1> QED
    BY <1>2, <1>10, <1>13, <1>14, <1>15, <1>16, <1>17, <1>18, <1>19 DEF PassedOn

(* The conclusions of PassChannel for the channels of a state. *)
LEMMA QueueFacts ==
    ASSUME ChainInv, NEW c \in LimChannels
    PROVE  /\ buf[c] \in Seq(Sample) /\ Len(buf[c]) \in Nat /\ Len(buf[c]) = Len(buf[1])
           /\ Column(c) \in Seq(Sample) /\ Len(Column(c)) = Len(ibuf) /\ Len(ibuf) \in Nat
           /\ \A i \in 1 .. Len(ibuf) : Column(c)[i] = ibuf[i][c]
           /\ head[c] \in 0 .. Len(buf[c]) /\ edge[c] \in -2 .. 2
           /\ limPos \in Nat /\ HeldBack(c)
  <1>1. ibuf \in Seq([LimChannels -> Sample]) /\ Len(ibuf) \in Nat
    BY DEF ChainInv, LimType, LimiterTypeOK
  <1>2. \A i \in 1 .. Len(ibuf) : ibuf[i][c] \in Sample
    <2> TAKE i \in 1 .. Len(ibuf)
    <2>1. ibuf[i] \in [LimChannels -> Sample]
      BY <1>1, ElementOfSeq
    <2> QED
      BY <2>1
  <1>3. /\ Column(c) \in Seq(Sample) /\ Len(Column(c)) = Len(ibuf)
        /\ \A i \in 1 .. Len(ibuf) : Column(c)[i] = ibuf[i][c]
    BY <1>1, <1>2 DEF Column
  <1>4. buf[c] \in Seq(Sample) /\ head[c] \in 0 .. Len(buf[c]) /\ edge[c] \in -2 .. 2 /\ limPos \in Nat
    BY DEF ChainInv, LimType, LimiterTypeOK
  <1>5. Len(buf[c]) = Len(buf[1]) /\ HeldBack(c)
    BY DEF ChainInv, Numbered
  <1>6. Len(buf[c]) \in Nat
    BY <1>4
  <1> QED
    BY <1>1, <1>3, <1>4, <1>5, <1>6

(* Numbering runs on from a sequence to the one appended to it. *)
LEMMA NumberedOn ==
    ASSUME NEW b \in Seq(Sample), NEW col \in Seq(Sample), NEW p \in Nat,
           \A i \in 1 .. Len(b) : b[i].id = p + i - 1,
           \A i \in 1 .. Len(col) : col[i].id = p + Len(b) + i - 1
    PROVE  /\ b \o col \in Seq(Sample) /\ Len(b \o col) = Len(b) + Len(col)
           /\ \A i \in 1 .. Len(b \o col) : (b \o col)[i].id = p + i - 1
  <1>1. Len(b) \in Nat /\ Len(col) \in Nat
    OBVIOUS
  <1>2. /\ b \o col \in Seq(Sample) /\ Len(b \o col) = Len(b) + Len(col)
        /\ \A i \in 1 .. Len(b) + Len(col) :
              (b \o col)[i] = IF i <= Len(b) THEN b[i] ELSE col[i - Len(b)]
    BY ConcatProperties
  <1>3. ASSUME NEW i \in 1 .. Len(b) + Len(col)
        PROVE  (b \o col)[i].id = p + i - 1
    <2> DEFINE m == Len(b)
               n == Len(col)
    <2>1. m \in Nat /\ n \in Nat /\ i \in 1 .. m + n
      BY <1>1
    <2>2. CASE i <= m
      <3>1. (b \o col)[i] = b[i]
        BY <1>2, <2>2
      <3>2. i \in 1 .. m
        <4> HIDE DEF m, n
        <4> QED
          BY <2>1, <2>2
      <3> QED
        BY <3>1, <3>2
    <2>3. CASE ~(i <= m)
      <3>1. (b \o col)[i] = col[i - m]
        BY <1>2, <2>3
      <3> DEFINE j == i - m
      <3>2. j \in 1 .. n /\ p + m + j - 1 = p + i - 1
        <4> HIDE DEF m, n
        <4> QED
          BY <2>1, <2>3
      <3>3. col[j].id = p + m + j - 1
        <4> HIDE DEF j
        <4> QED
          BY <3>2
      <3> QED
        BY <3>1, <3>2, <3>3
    <2> QED
      BY <2>2, <2>3
  <1> QED
    BY <1>2, <1>3

(* The frame of every sample in a queue. *)
LEMMA QueueNumbered ==
    ASSUME ChainInv, NEW c \in LimChannels
    PROVE  /\ Queue(c) \in Seq(Sample) /\ Len(Queue(c)) = Len(buf[1]) + Len(ibuf)
           /\ \A i \in 1 .. Len(Queue(c)) : Queue(c)[i].id = limPos + i - 1
  <1> DEFINE b == buf[c]
             col == Column(c)
  <1>1. /\ b \in Seq(Sample) /\ Len(b) \in Nat /\ Len(b) = Len(buf[1])
        /\ col \in Seq(Sample) /\ Len(col) = Len(ibuf) /\ Len(ibuf) \in Nat
        /\ \A i \in 1 .. Len(ibuf) : col[i] = ibuf[i][c]
        /\ limPos \in Nat
    BY QueueFacts
  <1>2. /\ \A i \in 1 .. Len(b) : b[i].id = limPos + i - 1
        /\ \A i \in 1 .. Len(ibuf) : ibuf[i][c].id = limPos + Len(b) + i - 1
    BY <1>1 DEF ChainInv, Numbered
  <1>3. \A i \in 1 .. Len(col) : col[i].id = limPos + Len(b) + i - 1
    BY <1>1, <1>2
  <1> HIDE DEF b, col
  <1>4. /\ b \o col \in Seq(Sample) /\ Len(b \o col) = Len(b) + Len(col)
        /\ \A i \in 1 .. Len(b \o col) : (b \o col)[i].id = limPos + i - 1
    BY <1>1, <1>2, <1>3, NumberedOn
  <1>5. Queue(c) = b \o col
    BY DEF Queue, b, col
  <1> QED
    BY <1>1, <1>4, <1>5

(* A pass of the limiter. *)
LEMMA LimitingChainInv ==
    ASSUME ChainInv, Limiting
    PROVE  ChainInv'
  <1> DEFINE res   == Len(ibuf)
             limit == [c \in LimChannels |-> Limit(Queue(c), res)]
             done  == [c \in LimChannels |-> Limited(Queue(c), head[c], limit[c])]
             out   == Min({lim.n} \cup {limit[c] : c \in LimChannels})
  <1>1. /\ lim.pc = "limit"
        /\ buf' = [c \in LimChannels |-> SubSeq(done[c], out + 1, Len(done[c]))]
        /\ head' = [c \in LimChannels |-> limit[c] - out]
        /\ block' = [c \in LimChannels |-> SubSeq(done[c], 1, out)]
        /\ limPos' = limPos + out
        /\ ibuf' = << >>
        /\ edge' = [c \in LimChannels |-> IF limit[c] > head[c]
                                          THEN done[c][limit[c]].level ELSE edge[c]]
        /\ lim' = [lim EXCEPT !.pc = IF out = 0 /\ Len(Queue(1)) > 0 THEN "read" ELSE "idle"]
    <2> DEFINE all == [c \in LimChannels |-> Queue(c)]
    <2>1. all = [c \in LimChannels |-> buf[c] \o [i \in 1 .. res |-> ibuf[i][c]]]
      BY DEF Queue, Column
    <2>2. /\ limit = [c \in LimChannels |-> Limit(all[c], res)]
          /\ done = [c \in LimChannels |-> Limited(all[c], head[c], limit[c])]
          /\ Len(Queue(1)) = Len(all[1])
      BY ChannelFacts
    <2> HIDE DEF all, limit, done
    <2> QED
      BY <2>1, <2>2 DEF Limiting, LimiterPass
  <1>2. /\ UNCHANGED resamplerVars
        /\ delivered' = delivered + Len(block'[1])
        /\ ended' = (lim'.pc = "idle" /\ Len(block'[1]) = 0)
    BY DEF Limiting
  <1>3. lim \in [pc : {"idle", "read", "call", "limit"}, n : Nat] /\ lim.n > 0 /\ ~ended
    BY <1>1 DEF ChainInv, LimType, Turns
  <1>4. RsInv'
    BY <1>2, StutterRsInv DEF ChainInv
  <1>5. /\ UNCHANGED <<input, L, M, rs>>
        /\ Outputs' = Outputs /\ Exhausted' = Exhausted /\ OutputLength' = OutputLength
    BY <1>2 DEF resamplerVars, Outputs, Exhausted, OutputLength
  <1>6. \A c \in LimChannels : limit[c] = Limit(Queue(c), res) /\ done[c] = Limited(Queue(c), head[c], limit[c])
    OBVIOUS
  <1> HIDE DEF limit, done
  (* Every channel by itself. *)
  <1>7. ASSUME NEW c \in LimChannels
        PROVE  /\ Len(Queue(c)) = Len(buf[1]) + res
               /\ limit[c] \in 0 .. Len(Queue(c))
               /\ done[c] \in Seq(Sample) /\ Len(done[c]) = Len(Queue(c))
               /\ \A i \in 1 .. Len(done[c]) : done[c][i].id = limPos + i - 1
               /\ edge'[c] \in -2 .. 2
               /\ limit[c] > 0 => done[c][limit[c]].level = edge'[c]
               /\ limit[c] < Len(done[c]) =>
                     /\ edge'[c] * done[c][limit[c] + 1].level <= 0
                     /\ \A i \in limit[c] + 1 .. Len(done[c]) :
                           done[c][i].level * done[c][Len(done[c])].level > 0
               /\ limit[c] = Len(done[c]) => edge'[c] = 0 \/ res = 0
    <2> DEFINE b == buf[c]
               col == Column(c)
               all == Queue(c)
               h == head[c]
               e == edge[c]
               l == limit[c]
               r == done[c]
               e2 == edge'[c]
    <2>1. /\ b \in Seq(Sample) /\ Len(b) \in Nat /\ Len(b) = Len(buf[1])
          /\ col \in Seq(Sample) /\ Len(col) = res /\ res \in Nat
          /\ h \in 0 .. Len(b) /\ e \in -2 .. 2
      BY QueueFacts
    <2>2. HeldBack(c)
      BY DEF ChainInv
    <2>3. HeldPart(b, h, e, Len(col))
      BY <2>1, <2>2 DEF HeldBack, HeldPart
    <2>6. all = b \o col
      BY DEF Queue
    <2>7. l = Limit(all, Len(col)) /\ r = Limited(all, h, l)
      BY <1>6, <2>1
    <2>8. e2 = IF l > h THEN r[l].level ELSE e
      BY <1>1
    <2> HIDE DEF b, col, all, h, e, l, r, e2
    <2>9. /\ all \in Seq(Sample) /\ Len(all) = Len(b) + Len(col)
          /\ l \in h .. Len(all)
          /\ r \in Seq(Sample) /\ Len(r) = Len(all)
          /\ \A i \in 1 .. Len(all) : r[i].id = all[i].id
          /\ e2 \in -2 .. 2
          /\ l > 0 => r[l].level = e2
          /\ l < Len(r) =>
                /\ e2 * r[l + 1].level <= 0
                /\ \A i \in l + 1 .. Len(r) : r[i].level * r[Len(r)].level > 0
          /\ l = Len(r) => e2 = 0 \/ Len(col) = 0
      <3>1. PassedOn(b, col, h, e, all, l, r, e2)
        BY <2>1, <2>3, <2>6, <2>7, <2>8, PassChannel
      <3> QED
        BY <3>1 DEF PassedOn
    <2>10. l \in 0 .. Len(all)
      BY <2>1, <2>9
    <2>11. \A i \in 1 .. Len(r) : r[i].id = limPos + i - 1
      <3>1. \A i \in 1 .. Len(all) : all[i].id = limPos + i - 1
        BY QueueNumbered DEF all
      <3> QED
        BY <2>9, <3>1
    <2>12. Len(all) = Len(buf[1]) + res
      BY <2>1, <2>9
    <2> QED
      BY <2>1, <2>9, <2>10, <2>11, <2>12 DEF all, l, r, e2
  <1>8. out \in Nat /\ out <= lim.n /\ \A c \in LimChannels : out <= limit[c]
    <2> DEFINE S == {lim.n} \cup {limit[c] : c \in LimChannels}
    <2>1. S \in SUBSET Nat /\ S # {}
      <3>1. \A c \in LimChannels : limit[c] \in Nat
        BY <1>7
      <3> QED
        BY <1>3, <3>1
    <2>2. Min(S) \in S /\ \A y \in S : Min(S) <= y
      <3> HIDE DEF S
      <3> QED
        BY <2>1, LeastOf
    <2> QED
      BY <2>1, <2>2
  <1> HIDE DEF out
  <1>9. ASSUME NEW c \in LimChannels
        PROVE  /\ limit[c] \in Nat /\ out <= limit[c] /\ limit[c] <= Len(done[c]) /\ Len(done[c]) \in Nat
               /\ buf'[c] \in Seq(Sample) /\ Len(buf'[c]) = Len(done[c]) - out
               /\ \A i \in 1 .. Len(buf'[c]) : buf'[c][i] = done[c][out + i]
               /\ block'[c] \in Seq(Sample) /\ Len(block'[c]) = out
               /\ \A i \in 1 .. Len(block'[c]) : block'[c][i] = done[c][i]
               /\ head'[c] = limit[c] - out
    <2> DEFINE d == done[c]
               l == limit[c]
    <2>1. d \in Seq(Sample) /\ Len(d) \in Nat /\ l \in 0 .. Len(d) /\ out \in Nat /\ out <= l
      BY <1>7, <1>8
    <2>2. buf'[c] = SubSeq(d, out + 1, Len(d)) /\ block'[c] = SubSeq(d, 1, out) /\ head'[c] = l - out
      BY <1>1
    <2> HIDE DEF d, l
    <2>3. /\ SubSeq(d, out + 1, Len(d)) \in Seq(Sample)
          /\ Len(SubSeq(d, out + 1, Len(d))) = Len(d) - out
          /\ \A i \in 1 .. Len(d) - out : SubSeq(d, out + 1, Len(d))[i] = d[out + i]
      BY <2>1
    <2>4. /\ SubSeq(d, 1, out) \in Seq(Sample)
          /\ Len(SubSeq(d, 1, out)) = out
          /\ \A i \in 1 .. out : SubSeq(d, 1, out)[i] = d[i]
      BY <2>1
    <2>5. l \in Nat /\ l <= Len(d)
      BY <2>1
    <2> QED
      BY <2>1, <2>2, <2>3, <2>4, <2>5 DEF d, l
  <1>10. limPos \in Nat /\ Len(buf[1]) \in Nat /\ res \in Nat /\ delivered = limPos
    BY QueueFacts, ChannelFacts DEF ChainInv, Turns
  <1>11. \A c \in LimChannels : Len(done[c]) = Len(buf[1]) + res
    BY <1>7
  <1>12. Len(block'[1]) = out /\ Len(buf'[1]) = Len(buf[1]) + res - out
    BY <1>9, <1>11, ChannelFacts
  <1>13. /\ lim' \in [pc : {"idle", "read", "call", "limit"}, n : Nat]
         /\ lim'.n = lim.n /\ lim'.pc \in {"read", "idle"}
         /\ lim'.pc = "idle" => ~(out = 0 /\ Len(Queue(1)) > 0)
    BY <1>1, <1>3
  <1>14. LimType'
    <2>1. buf' \in [LimChannels -> Seq(Sample)]
      <3>1. buf' = [c \in LimChannels |-> buf'[c]]
        BY <1>1
      <3> QED
        BY <1>9, <3>1
    <2>2. block' \in [LimChannels -> Seq(Sample)]
      <3>1. block' = [c \in LimChannels |-> block'[c]]
        BY <1>1
      <3> QED
        BY <1>9, <3>1
    <2>3. \A c \in LimChannels : head'[c] \in 0 .. Len(buf'[c])
      BY <1>8, <1>9
    <2>4. edge' \in [LimChannels -> -2 .. 2]
      <3>1. edge' = [c \in LimChannels |-> edge'[c]]
        BY <1>1
      <3> QED
        BY <1>7, <3>1
    <2>5. ibuf' \in Seq([LimChannels -> Sample])
      <3>1. << >> \in Seq([LimChannels -> Sample])
        OBVIOUS
      <3> QED
        BY <1>1, <3>1
    <2>6. limPos' \in Nat
      BY <1>1, <1>8, <1>10
    <2> QED
      BY <1>13, <2>1, <2>2, <2>3, <2>4, <2>5, <2>6 DEF LimType, LimiterTypeOK, LimChannels
  <1>15. Numbered'
    <2>1. Outputs = limPos + Len(buf[1]) + res
      BY DEF ChainInv, Numbered
    <2>2. Len(ibuf') = 0
      BY <1>1
    <2>3. Outputs' = limPos' + Len(buf'[1]) + Len(ibuf')
      <3> DEFINE B == Len(buf[1])
      <3>1. limPos + B + res = (limPos + out) + (B + res - out) + 0
        <4>1. limPos \in Nat /\ B \in Nat /\ res \in Nat /\ out \in Nat
          BY <1>8, <1>10
        <4> HIDE DEF B, res
        <4> QED
          BY <4>1
      <3> QED
        BY <1>1, <1>5, <1>12, <2>1, <2>2, <3>1
    <2>4. ASSUME NEW c \in LimChannels
          PROVE  /\ Len(buf'[c]) = Len(buf'[1])
                 /\ Len(block'[c]) = Len(block'[1])
      BY <1>9, <1>11, <1>12
    <2>5. ASSUME NEW c \in LimChannels, NEW i \in 1 .. Len(buf'[c])
          PROVE  buf'[c][i].id = limPos' + i - 1
      <3> DEFINE K == Len(done[c])
                 next == limPos'
      <3>1. i \in 1 .. K - out /\ K \in Nat /\ next = limPos + out
        BY <1>1, <1>9
      <3> HIDE DEF K, next
      <3>2. out + i \in 1 .. K /\ limPos + (out + i) - 1 = next + i - 1
        BY <1>8, <1>10, <3>1
      <3>3. buf'[c][i] = done[c][out + i]
        BY <1>9
      <3> QED
        BY <1>7, <3>2, <3>3 DEF K, next
    <2>6. ASSUME NEW c \in LimChannels, NEW i \in 1 .. Len(block'[c])
          PROVE  block'[c][i].id = limPos' - Len(block'[c]) + i - 1
      <3> DEFINE K == Len(done[c])
                 next == limPos'
      <3>1. Len(block'[c]) = out /\ i \in 1 .. out /\ K \in Nat /\ next = limPos + out /\ out <= K
        <4>1. out <= limit[c] /\ limit[c] <= K /\ limit[c] \in Nat /\ K \in Nat
          BY <1>9
        <4> QED
          BY <1>1, <1>8, <1>9, <4>1
      <3> HIDE DEF K, next
      <3>2. i \in 1 .. K /\ limPos + i - 1 = next - out + i - 1
        BY <1>8, <1>10, <3>1
      <3>3. block'[c][i] = done[c][i]
        BY <1>9
      <3> QED
        BY <1>7, <3>1, <3>2, <3>3 DEF K, next
    <2>7. \A c \in LimChannels : \A i \in 1 .. Len(ibuf') :
             ibuf'[i][c].id = limPos' + Len(buf'[1]) + i - 1
      BY <2>2
    <2> QED
      BY <2>3, <2>4, <2>5, <2>6, <2>7 DEF Numbered, LimChannels
  <1>16. ASSUME NEW c \in LimChannels
         PROVE  HeldBack(c)'
    <2> DEFINE K == Len(done[c])
               l == limit[c]
    <2>1. /\ l \in Nat /\ out <= l /\ l <= K /\ K \in Nat /\ out \in Nat
          /\ Len(buf'[c]) = K - out /\ head'[c] = l - out
      BY <1>8, <1>9
    <2> HIDE DEF K, l
    <2>2. head'[c] > 0 => buf'[c][head'[c]].level = edge'[c]
      <3> SUFFICES ASSUME head'[c] > 0 PROVE buf'[c][head'[c]].level = edge'[c]
        OBVIOUS
      <3>1. l - out \in 1 .. K - out /\ out + (l - out) = l /\ l > 0
        BY <2>1
      <3>2. buf'[c][l - out] = done[c][out + (l - out)]
        BY <1>9, <2>1, <3>1
      <3> QED
        BY <1>7, <2>1, <3>1, <3>2 DEF l
    <2>3. ASSUME head'[c] < Len(buf'[c])
          PROVE  /\ edge'[c] * buf'[c][head'[c] + 1].level <= 0
                 /\ \A i \in head'[c] + 1 .. Len(buf'[c]) :
                       buf'[c][i].level * buf'[c][Len(buf'[c])].level > 0
      <3>1. l < K
        BY <2>1, <2>3
      <3>2. \A i \in 1 .. K - out : buf'[c][i] = done[c][out + i]
        BY <1>9, <2>1
      <3>3. /\ (l - out) + 1 \in 1 .. K - out /\ out + ((l - out) + 1) = l + 1
            /\ K - out \in 1 .. K - out /\ out + (K - out) = K
        BY <2>1, <3>1
      <3>4. /\ edge'[c] * done[c][l + 1].level <= 0
            /\ \A i \in l + 1 .. K : done[c][i].level * done[c][K].level > 0
        BY <1>7, <3>1 DEF K, l
      <3>5. buf'[c][(l - out) + 1] = done[c][l + 1] /\ buf'[c][K - out] = done[c][K]
        BY <3>2, <3>3
      <3>6. ASSUME NEW i \in (l - out) + 1 .. K - out
            PROVE  buf'[c][i].level * buf'[c][K - out].level > 0
        <4>1. i \in 1 .. K - out /\ out + i \in l + 1 .. K
          BY <2>1
        <4> QED
          BY <3>2, <3>4, <3>5, <4>1
      <3> QED
        BY <2>1, <3>4, <3>5, <3>6
    <2>4. ASSUME head'[c] = Len(buf'[c])
          PROVE  edge'[c] = 0 \/ (Exhausted' /\ ibuf' = << >>)
      <3>1. l = K
        BY <2>1, <2>4
      <3>2. CASE edge'[c] = 0
        BY <3>2
      <3>3. CASE res = 0
        <4>1. ibuf = << >>
          BY <3>3 DEF ChainInv, LimType, LimiterTypeOK
        <4> QED
          BY <1>1, <1>5, <4>1 DEF ChainInv, Turns
      <3> QED
        BY <1>7, <3>1, <3>2, <3>3 DEF K, l
    <2> QED
      BY <2>2, <2>3, <2>4 DEF HeldBack
  <1>17. Turns'
    <2>1. rs.pc = "idle" /\ rs.k = 0
      BY <1>1 DEF ChainInv, Turns, RsInv, CallInv
    <2>2. ended' \in BOOLEAN /\ (ended' => lim'.pc = "idle" /\ Len(block'[1]) = 0)
      BY <1>2, Zenon
    <2>3. delivered' = limPos'
      BY <1>1, <1>2, <1>10, <1>12
    <2>4. ended' => lim'.pc = "idle" /\ delivered' = OutputLength
      <3> SUFFICES ASSUME ended' PROVE lim'.pc = "idle" /\ delivered' = OutputLength
        OBVIOUS
      <3>1. lim'.pc = "idle" /\ out = 0
        BY <1>12, <2>2
      <3>2. Len(Queue(1)) = Len(buf[1]) + res
        BY <1>7, ChannelFacts
      <3>3. Len(buf[1]) = 0 /\ res = 0
        BY <1>10, <1>13, <3>1, <3>2
      <3>4. ibuf = << >>
        BY <3>3 DEF ChainInv, LimType, LimiterTypeOK
      <3>5. Exhausted
        BY <1>1, <3>4 DEF ChainInv, Turns
      <3>6. OutputLength = Outputs
        BY <3>5, ExhaustedComplete DEF ChainInv
      <3>7. Outputs = limPos
        BY <1>10, <3>3 DEF ChainInv, Numbered
      <3> QED
        BY <1>1, <1>10, <2>3, <3>1, <3>6, <3>7
    <2>5. Len(ibuf') = 0 /\ ibuf' = << >>
      BY <1>1
    <2> QED
      BY <1>3, <1>5, <1>13, <2>1, <2>2, <2>3, <2>4, <2>5 DEF Turns
  <1>18. Inside'
    BY <1>5 DEF ChainInv, Inside
  <1> QED
    BY <1>4, <1>14, <1>15, <1>16, <1>17, <1>18 DEF ChainInv, LimChannels

(* Nothing happens. *)
LEMMA StutterChainInv ==
    ASSUME ChainInv, UNCHANGED vars
    PROVE  ChainInv'
  <1>1. UNCHANGED <<resamplerVars, buf, head, lim, ibuf, limPos, block, edge, delivered, ended>>
    BY DEF vars, limiterVars
  <1>2. RsInv'
    BY <1>1, StutterRsInv DEF ChainInv
  <1>3. UNCHANGED <<input, L, M, inTotal, eof, nfloor, position, rs>>
    BY <1>1 DEF resamplerVars
  <1>4. Outputs' = Outputs /\ Exhausted' = Exhausted /\ OutputLength' = OutputLength
    BY <1>3 DEF Outputs, Exhausted, OutputLength
  <1>5. LimType'
    BY <1>1 DEF ChainInv, LimType, LimiterTypeOK
  <1>6. Turns'
    BY <1>1, <1>3, <1>4 DEF ChainInv, Turns
  <1>7. Numbered'
    BY <1>1, <1>4 DEF ChainInv, Numbered
  <1>8. \A c \in LimChannels : HeldBack(c)'
    BY <1>1, <1>4 DEF ChainInv, HeldBack
  <1>9. Inside'
    BY <1>3, <1>4 DEF ChainInv, Inside
  <1> QED
    BY <1>2, <1>5, <1>6, <1>7, <1>8, <1>9 DEF ChainInv, LimChannels

(* Every step keeps the invariant. *)
LEMMA NextChainInv ==
    ASSUME ChainInv, [Next]_vars
    PROVE  ChainInv'
  <1>1. CASE Call
    BY <1>1, CallChainInv
  <1>2. CASE ReadOn
    BY <1>2, ReadOnChainInv
  <1>3. CASE Resample
    BY <1>3, ResampleChainInv
  <1>4. CASE Emit
    BY <1>4, EmitChainInv
  <1>5. CASE ReadReturns
    BY <1>5, ReadReturnsChainInv
  <1>6. CASE Limiting
    BY <1>6, LimitingChainInv
  <1>7. CASE Finished \/ UNCHANGED vars
    BY <1>7, StutterChainInv DEF Finished
  <1> QED
    BY <1>1, <1>2, <1>3, <1>4, <1>5, <1>6, <1>7 DEF Next, Step

(* The invariant of the chain holds in every state of every run: the       *)
(* timeline of resample.c, the buffers of limiter.c and what they have to  *)
(* do with each other.                                                     *)
THEOREM ChainInvHolds == Spec => []ChainInv
  <1>1. Init => ChainInv
    BY InitChainInv
  <1>2. ChainInv /\ [Next]_vars => ChainInv'
    BY NextChainInv
  <1> QED
    BY <1>1, <1>2, PTL DEF Spec

-----------------------------------------------------------------------------
(* What follows from it *)

(* The state of open_input()'s chain has its type: the output timeline     *)
(* stays normalised (0 <= frac < L), and the buffers hold samples.         *)
THEOREM TypeCorrect == Spec => []TypeOK
  <1>1. ChainInv => TypeOK
    <2> SUFFICES ASSUME ChainInv PROVE TypeOK
      OBVIOUS
    <2>1. ResamplerTypeOK
      BY DEF ChainInv, RsInv, RsType, ResamplerTypeOK
    <2>2. LimiterTypeOK /\ limPos \in Nat
      BY DEF ChainInv, LimType, LimiterTypeOK
    <2>3. delivered \in Nat /\ ended \in BOOLEAN
      BY <2>2, Zenon DEF ChainInv, Turns
    <2> QED
      BY <2>1, <2>2, <2>3 DEF TypeOK
  <1> QED
    BY <1>1, ChainInvHolds, PTL

(* No drift, for any ratio, kernel length and sequence of requests: output *)
(* k is computed at the instant k*M/L from the input around it             *)
(* (read_frames() of resample.c).                                          *)
THEOREM WindowAroundInstantHolds == Spec => []WindowAroundInstant
  <1>1. ChainInv => WindowAroundInstant
    BY DEF ChainInv, RsInv, OnTimeline, Centred, WindowAroundInstant
  <1> QED
    BY <1>1, ChainInvHolds, PTL

(* The resampler never asks its source for more than the window of the     *)
(* last output of the request (refill() of resample.c).                    *)
THEOREM NoExtraBufferingHolds == Spec => []NoExtraBuffering
  <1>1. ChainInv => NoExtraBuffering
    <2> SUFFICES ASSUME ChainInv, rs.pc = "loop"
                 PROVE  inTotal <= LastInstant(rs.n - rs.k) + Ahead + 1
      BY DEF NoExtraBuffering
    <2>1. RsType /\ OnTimeline /\ inTotal <= Instant(position + rs.n - 1) + Ahead + 1
      BY DEF ChainInv, RsInv, Asked
    <2> DEFINE n == rs.n
               k == rs.k
    <2>2. n \in Nat /\ k \in Nat /\ position \in Nat
      BY <2>1 DEF RsType
    <2>3. (position + k) + (n - k) - 1 = position + n - 1 /\ n - k \in Int
      <3> HIDE DEF n, k
      <3> QED
        BY <2>2
    <2>4. LastInstant(n - k) = Instant(Outputs + (n - k) - 1)
      BY <2>1, <2>3, LastInstantFacts
    <2>5. Outputs + (n - k) - 1 = position + n - 1
      BY <2>3 DEF Outputs
    <2> QED
      BY <2>1, <2>4, <2>5
  <1> QED
    BY <1>1, ChainInvHolds, PTL

(* Whatever each channel has to wait for, the frames handed out are the    *)
(* same ones for all channels and in the order of the stream               *)
(* (read_frames() of limiter.c).                                           *)
THEOREM ChannelsInStepHolds == Spec => []ChannelsInStep
  <1>1. ChainInv => ChannelsInStep
    BY DEF ChainInv, Numbered, ChannelsInStep
  <1> QED
    BY <1>1, ChainInvHolds, PTL

(* No half-wave is cut in two by a request size or the end of a read, for  *)
(* any input and any number of channels (process_channel() of limiter.c).  *)
THEOREM HalfWavesWholeHolds == Spec => []HalfWavesWhole
  <1>1. ChainInv => HalfWavesWhole
    <2> SUFFICES ASSUME ChainInv, lim.pc = "limit", NEW c \in LimChannels
                 PROVE  head[c] < Len(Queue(c)) => edge[c] * Queue(c)[head[c] + 1].level <= 0
      BY DEF HalfWavesWhole, Queue, Column
    <2> DEFINE b == buf[c]
               col == Column(c)
               all == Queue(c)
               h == head[c]
               e == edge[c]
               l == Limit(all, Len(col))
               r == Limited(all, h, l)
               e2 == IF l > h THEN r[l].level ELSE e
    <2>1. b \in Seq(Sample) /\ col \in Seq(Sample) /\ h \in 0 .. Len(b) /\ e \in -2 .. 2
      BY QueueFacts
    <2>2. HeldPart(b, h, e, Len(col))
      <3>1. HeldBack(c) /\ Len(col) = Len(ibuf)
        BY QueueFacts
      <3> QED
        BY <3>1 DEF HeldBack, HeldPart
    <2>3. all = b \o col
      BY DEF Queue
    <2> HIDE DEF b, col, all, h, e
    <2>4. PassedOn(b, col, h, e, all, l, r, e2)
      <3>1. l = Limit(all, Len(col)) /\ r = Limited(all, h, l) /\ e2 = IF l > h THEN r[l].level ELSE e
        OBVIOUS
      <3> HIDE DEF l, r, e2
      <3> QED
        BY <2>1, <2>2, <2>3, <3>1, PassChannel
    <2>5. h < Len(all) => e * all[h + 1].level <= 0
      BY <2>4 DEF PassedOn
    <2> QED
      BY <2>5 DEF all, h, e
  <1> QED
    BY <1>1, ChainInvHolds, PTL

Within == delivered \in Nat /\ OutputLength \in Nat /\ delivered <= OutputLength

(* No more is delivered than the stream has. *)
LEMMA WithinLength == ChainInv => Within
  <1> SUFFICES ASSUME ChainInv PROVE Within
    OBVIOUS
  <1>1. /\ delivered = limPos /\ limPos \in Nat
        /\ Len(buf[1]) \in Nat /\ Len(ibuf) \in Nat
    <2>1. buf[1] \in Seq(Sample) /\ ibuf \in Seq([LimChannels -> Sample])
      BY ChannelFacts DEF ChainInv, LimType, LimiterTypeOK
    <2> QED
      BY <2>1 DEF ChainInv, Turns, LimType, LimiterTypeOK
  <1>2. Outputs = limPos + Len(buf[1]) + Len(ibuf)
    BY DEF ChainInv, Numbered
  <1>3. OutputLength \in Nat /\ Outputs <= OutputLength
    BY InsideLength DEF ChainInv
  <1> QED
    BY <1>1, <1>2, <1>3 DEF Within

(* A pass of the limiter is a delivery, the end, or neither.               *)
LEMMA LimitingRefines ==
    ASSUME ChainInv, ChainInv', Within, Within', Limiting
    PROVE  Promise!Next \/ UNCHANGED <<OutputLength, delivered, ended>>
  <1> DEFINE n == Len(block'[1])
  <1>1. lim.pc = "limit" /\ UNCHANGED <<input, L, M>> /\ delivered' = delivered + n
    BY DEF Limiting, LimiterPass, resamplerVars
  <1>2. OutputLength' = OutputLength
    BY <1>1 DEF OutputLength
  <1>3. ~ended
    BY <1>1 DEF ChainInv, Turns
  <1>4. n \in Nat
    <2>1. block'[1] \in Seq(Sample)
      BY ChannelFacts DEF ChainInv, LimType, LimiterTypeOK, LimChannels
    <2> QED
      BY <2>1
  <1>5. delivered \in Nat /\ delivered' \in Nat /\ delivered' <= OutputLength'
    BY DEF Within
  <1>6. CASE n > 0
    <2>1. ~ended'
      <3>1. ended' = (lim'.pc = "idle" /\ Len(block'[1]) = 0)
        BY DEF Limiting
      <3>2. ~(Len(block'[1]) = 0)
        BY <1>6
      <3> HIDE DEF n
      <3> QED
        BY <3>1, <3>2, Zenon
    <2>2. ended' = ended
      BY <1>3, <2>1, Zenon DEF ChainInv, Turns
    <2>3. delivered' \in delivered + 1 .. OutputLength
      <3> DEFINE d == delivered'
                 t == OutputLength
      <3>1. d = delivered + n /\ d <= t /\ d \in Nat /\ t \in Nat
        BY <1>1, <1>2, <1>5 DEF Within
      <3>2. n \in Nat /\ n > 0 /\ delivered \in Nat
        BY <1>4, <1>5, <1>6
      <3> HIDE DEF d, t, n
      <3>3. d \in delivered + 1 .. t
        BY <3>1, <3>2
      <3> QED
        BY <3>3 DEF d, t
    <2> QED
      BY <1>2, <1>3, <2>2, <2>3 DEF Promise!Next, Promise!Deliver
  <1>7. CASE n = 0
    <2>1. delivered' = delivered
      BY <1>1, <1>5, <1>7
    <2>2. CASE ended'
      <3>1. delivered' = OutputLength'
        BY <2>2 DEF ChainInv, Turns
      <3>2. ended' = TRUE
        BY <2>2, Zenon DEF ChainInv, Turns
      <3> QED
        BY <1>2, <2>1, <3>1, <3>2 DEF Promise!Next, Promise!End
    <2>3. CASE ~ended'
      <3>1. ended' = ended
        BY <1>3, <2>3, Zenon DEF ChainInv, Turns
      <3> QED
        BY <1>2, <2>1, <3>1
    <2> QED
      BY <2>2, <2>3
  <1> QED
    BY <1>4, <1>6, <1>7

(* The chain of resampler and limiter is a PCM source of ceil(input*L/M)   *)
(* frames: every read delivers frames of it in order or 0, and 0 only when *)
(* all have been delivered (pcm_reader.h, the comment at limiter.c:153).   *)
(* That the end is reached is left to the model checker.                   *)
THEOREM ChainRefines == Spec => Promise!Init /\ [][Promise!Next]_<<OutputLength, delivered, ended>>
  <1>1. Init => Promise!Init
    <2> SUFFICES ASSUME Init PROVE Promise!Init
      OBVIOUS
    <2>1. ChainInv
      BY InitChainInv
    <2>2. OutputLength \in Nat
      BY <2>1, InsideLength DEF ChainInv
    <2> QED
      BY <2>2 DEF Init, Promise!Init
  <1>2. ASSUME ChainInv, ChainInv', Within, Within', [Next]_vars
        PROVE  Promise!Next \/ UNCHANGED <<OutputLength, delivered, ended>>
    <2>1. CASE Limiting
      BY <1>2, <2>1, LimitingRefines
    <2>2. CASE Call \/ ReadOn \/ Resample \/ Emit \/ ReadReturns \/ Finished \/ UNCHANGED vars
      <3>1. UNCHANGED <<input, L, M, delivered, ended>>
        BY <2>2 DEF Call, ReadOn, Resample, Emit, ReadReturns, Finished, vars, resamplerVars,
                    ResamplerCall, Refill, ResamplerLoop, ResamplerEmit, ResamplerReturn
      <3> QED
        BY <3>1 DEF OutputLength
    <2> QED
      BY <1>2, <2>1, <2>2 DEF Next, Step
  <1>3. ChainInv /\ ChainInv' /\ Within /\ Within' /\ [Next]_vars
           => [Promise!Next]_<<OutputLength, delivered, ended>>
    BY <1>2
  <1> QED
    BY <1>1, <1>3, WithinLength, ChainInvHolds, PTL DEF Spec

=============================================================================
