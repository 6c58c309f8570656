-------------------------- MODULE SbrEnvelopeProofs --------------------------
(***************************************************************************)
(* The time/frequency grids of SBR for every configuration and every       *)
(* sequence of transients: they fit the arrays and the bitstream, the      *)
(* decoder accepts them, joins them and reads what was laid, and           *)
(* transients stay framed.                                                 *)
(***************************************************************************)
EXTENDS SbrEnvelope, SequenceTheorems, TLAPS

-----------------------------------------------------------------------------
(* The plan of a frame: where the borders after a transient are *)

(* The smaller and the larger of two numbers. *)
LEMMA MinOfTwo ==
    ASSUME NEW a \in Int, NEW b \in Int
    PROVE  Min({a, b}) = IF a <= b THEN a ELSE b
  BY DEF Min

LEMMA MaxOfTwo ==
    ASSUME NEW a \in Int, NEW b \in Int
    PROVE  Max({a, b}) = IF a >= b THEN a ELSE b
  BY DEF Max

(* The length of a part when a stretch is divided into n. *)
PartOf(rest, fmax, n) ==
    LET even == 2 * ((rest \div n - 2) \div 2) + 2
    IN  IF fmax <= even THEN fmax ELSE even

(* A stretch is divided into as few parts as leave at most DMax over. *)
LEMMA DivisionIs ==
    ASSUME NEW rest \in 1 .. 22, NEW fmax \in 3 .. 8, NEW n \in 1 .. 3, n <= rest,
           n = 1 => rest <= DMax,
           n > 1 => rest > DMax /\ rest - (n - 1) * PartOf(rest, fmax, n) <= DMax,
           n > 2 => rest - PartOf(rest, fmax, 2) > DMax
    PROVE  /\ Division(rest, fmax).parts = n
           /\ Division(rest, fmax).s = PartOf(rest, fmax, n)
  <1> DEFINE Segment(m) == Min({fmax, 2 * ((rest \div m - 2) \div 2) + 2})
             LeftOver(m) == IF m = 1 THEN rest ELSE rest - (m - 1) * Segment(m)
             P(m) == LeftOver(m) <= DMax /\ \A k \in 1 .. m - 1 : LeftOver(k) > DMax
             parts == CHOOSE m \in 1 .. rest : P(m)
  <1>1. Division(rest, fmax).parts = parts /\ Division(rest, fmax).s = Segment(parts)
    BY DEF Division
  <1>2. ASSUME NEW m \in 1 .. 3
        PROVE  Segment(m) = PartOf(rest, fmax, m) /\ PartOf(rest, fmax, m) \in Int
    <2>1. 2 * ((rest \div m - 2) \div 2) + 2 \in Int
      OBVIOUS
    <2> QED
      BY <2>1, MinOfTwo DEF PartOf
  <1> HIDE DEF Segment
  <1>3. \A m \in 1 .. 3 : /\ LeftOver(m) \in Int
                          /\ LeftOver(m) = IF m = 1 THEN rest
                                           ELSE rest - (m - 1) * PartOf(rest, fmax, m)
    BY <1>2
  <1> HIDE DEF LeftOver
  <1>4. LeftOver(n) <= DMax /\ \A k \in 1 .. n - 1 : LeftOver(k) > DMax
    <2>1. LeftOver(n) <= DMax
      BY <1>3
    <2>2. ASSUME NEW k \in 1 .. n - 1 PROVE LeftOver(k) > DMax
      <3>1. LeftOver(1) = rest /\ LeftOver(2) = rest - PartOf(rest, fmax, 2)
        BY <1>2, <1>3
      <3>2. (k = 1 /\ n > 1) \/ (k = 2 /\ n > 2)
        OBVIOUS
      <3> QED
        BY <3>1, <3>2
    <2> QED
      BY <2>1, <2>2
  <1>5. ASSUME NEW m \in 1 .. rest, P(m) PROVE m = n
    <2>1. CASE m < n
      BY <1>3, <1>4, <1>5, <2>1 DEF DMax
    <2>2. CASE m > n
      BY <1>3, <1>4, <1>5, <2>2 DEF DMax
    <2> QED
      BY <2>1, <2>2
  <1>6. P(n) /\ n \in 1 .. rest
    BY <1>4
  <1> HIDE DEF P
  <1>7. parts = n
    BY <1>5, <1>6
  <1> QED
    BY <1>1, <1>2, <1>7

(* The segments after the transient's own borders, in a frame of 2048 and   *)
(* of 1920 samples.                                                         *)
Segments(slots, q) ==
    IF slots = 16 THEN IF q < 6 THEN 3 ELSE IF q < 10 THEN 2 ELSE 1
    ELSE IF q \in {0, 1, 2, 4} THEN 3 ELSE IF q < 8 THEN 2 ELSE 1

SegmentLength(slots, q) ==
    IF slots = 16 THEN CASE q \in {4, 5} -> 4 [] q = 6 -> 8 [] OTHER -> 6
    ELSE CASE q < 4 -> 5 [] q \in {4, 5} -> 3 [] OTHER -> 6

(* The division of what lies behind them is that one, for every position of *)
(* the transient.                                                           *)
LEMMA PostIs ==
    ASSUME NEW slots \in SlotCounts, NEW q \in 0 .. slots - 1
    PROVE  LET post == Division(2 * slots - BMax(q + FrameMiddleSlot), CalcFillLengthMax(slots, q))
           IN  /\ post.parts = Segments(slots, q)
               /\ post.parts > 1 => post.s = SegmentLength(slots, q)
  <1> DEFINE rest == 2 * slots - BMax(q + FrameMiddleSlot)
             fmax == CalcFillLengthMax(slots, q)
             n == Segments(slots, q)
             v == SegmentLength(slots, q)
  <1>1. rest \in 1 .. 22 /\ rest = 2 * slots - 10 - q /\ n \in 1 .. 3 /\ n <= rest
    BY DEF SlotCounts, BMax, FrameMiddleSlot, Segments
  <1>2. fmax \in 3 .. 8
    BY DEF CalcFillLengthMax, SlotCounts
  <1>3. n > 1 => PartOf(rest, fmax, n) = v
    <2>1. CASE slots = 16
      BY <1>1, <2>1 DEF PartOf, CalcFillLengthMax, Segments, SegmentLength
    <2>2. CASE slots = 15
      BY <1>1, <2>2 DEF PartOf, CalcFillLengthMax, Segments, SegmentLength
    <2> QED
      BY <2>1, <2>2 DEF SlotCounts
  <1>4. n = 1 => rest <= DMax
    BY <1>1 DEF Segments, SlotCounts, DMax
  <1>5. n > 1 => rest > DMax /\ rest - (n - 1) * v <= DMax
    BY <1>1 DEF Segments, SegmentLength, SlotCounts, DMax
  <1>6. n > 2 => rest - PartOf(rest, fmax, 2) > DMax
    BY <1>1, <1>2 DEF Segments, SlotCounts, DMax, PartOf, CalcFillLengthMax
  <1> HIDE DEF rest, fmax, n, v
  <1>7. Division(rest, fmax).parts = n /\ Division(rest, fmax).s = PartOf(rest, fmax, n)
    BY <1>1, <1>2, <1>3, <1>4, <1>5, <1>6, DivisionIs
  <1> QED
    BY <1>3, <1>7 DEF rest, fmax, n, v

(* The borders from the transient on, the transient being number 0; how    *)
(* many there are after it, and the one that ends the frame.               *)
TailAt(slots, q, i) ==
    q + FrameMiddleSlot + (CASE i = 0 -> 0 [] i = 1 -> 2
                             [] OTHER -> 6 + (i - 2) * SegmentLength(slots, q))

TailLen(slots, q) == Segments(slots, q) + 1

FrameEnd(slots, q) ==
    IF slots = 16 THEN IF q < 6 THEN 3 ELSE IF q < 10 THEN 2 ELSE IF q < 12 THEN 1 ELSE 0
    ELSE IF q < 5 THEN 3 ELSE IF q < 9 THEN 2 ELSE IF q < 11 THEN 1 ELSE 0

(* These borders are two to eight slots apart, an even number in a frame of *)
(* 2048 samples; the frame ends at the first in the overlap, and at most    *)
(* two follow it.                                                           *)
LEMMA TailFacts ==
    ASSUME NEW slots \in SlotCounts, NEW q \in 0 .. slots - 1
    PROVE  LET e == FrameEnd(slots, q)
               last == TailLen(slots, q)
               at(i) == TailAt(slots, q, i)
           IN  /\ last \in 2 .. 4 /\ e \in 0 .. 3 /\ last - e \in 0 .. 2
               /\ \A i \in 0 .. last : at(i) \in 4 .. slots + 9
               /\ \A i \in 0 .. last - 1 : /\ at(i + 1) - at(i) \in 2 .. 8
                                           /\ slots = 16 => (at(i + 1) - at(i)) % 2 = 0
               /\ at(e) \in slots .. slots + 3
               /\ e > 0 => at(e - 1) < slots
               /\ last - e = 2 => at(last) >= slots + 6
               /\ slots = 15 => /\ last - e = 0 => at(e) = 18
                                /\ last - e = 1 => at(last) - at(e) < 8
  <1> DEFINE v == SegmentLength(slots, q)
             n == Segments(slots, q)
             e == FrameEnd(slots, q)
             at(i) == TailAt(slots, q, i)
  <1>1. /\ n \in 1 .. 3 /\ e \in 0 .. 3 /\ n + 1 - e \in 0 .. 2 /\ v \in 3 .. 8
        /\ slots = 16 => v % 2 = 0
    BY DEF SlotCounts, Segments, FrameEnd, SegmentLength
  <1>2. /\ at(0) = q + 4 /\ at(1) = q + 6 /\ at(2) = q + 10
        /\ at(3) = q + 10 + v /\ at(4) = q + 10 + 2 * v
    BY <1>1 DEF TailAt, FrameMiddleSlot
  <1>3. /\ n = 2 => q + 10 + v <= slots + 9
        /\ n = 3 => q + 10 + 2 * v <= slots + 9
        /\ n = 1 => q + 10 <= slots + 9
    BY DEF SlotCounts, Segments, SegmentLength
  <1>4. at(e) \in slots .. slots + 3
    BY <1>2 DEF SlotCounts, FrameEnd, SegmentLength
  <1>5. e > 0 => at(e - 1) < slots
    BY <1>2 DEF SlotCounts, FrameEnd
  <1>7. n + 1 - e = 2 => at(n + 1) >= slots + 6
    BY <1>2 DEF SlotCounts, Segments, FrameEnd, SegmentLength
  <1>8. slots = 15 => /\ n + 1 - e = 0 => at(e) = 18
                      /\ n + 1 - e = 1 => at(n + 1) - at(e) < 8
    BY <1>2 DEF Segments, FrameEnd, SegmentLength
  <1> HIDE DEF v, n, e, at
  <1>9. \A i \in 0 .. n + 1 : at(i) \in 4 .. slots + 9
    BY <1>1, <1>2, <1>3 DEF SlotCounts
  <1>10. \A i \in 0 .. n : /\ at(i + 1) - at(i) \in 2 .. 8
                           /\ slots = 16 => (at(i + 1) - at(i)) % 2 = 0
    BY <1>1, <1>2
  <1> QED
    BY <1>1, <1>4, <1>5, <1>7, <1>8, <1>9, <1>10 DEF TailLen, v, n, e, at

-----------------------------------------------------------------------------
(* Borders and their distances, laid and read back *)

(* Distances of a side of a grid, and borders with such distances. *)
IsRel(rel) ==
    /\ rel \in Seq(Int) /\ Len(rel) \in 0 .. MaxNumRel
    /\ \A k \in 1 .. Len(rel) : rel[k] \in 2 .. 8

EvenRel(rel) == \A k \in 1 .. Len(rel) : rel[k] % 2 = 0

(* After() goes from border to border. *)
LEMMA AfterSteps ==
    ASSUME NEW b \in Int, NEW rel \in Seq(Int), Len(rel) \in 0 .. MaxNumRel
    PROVE  /\ After(b, rel) \in Seq(Int) /\ Len(After(b, rel)) = Len(rel) + 1
           /\ After(b, rel)[1] = b
           /\ \A k \in 1 .. Len(rel) : After(b, rel)[k + 1] = After(b, rel)[k] + rel[k]
  <1> DEFINE n == Len(rel)
             step(f, k) == IF k = 1 THEN b ELSE f[k - 1] + rel[k - 1]
             at == CHOOSE f : f = [k \in 1 .. Len(rel) + 1 |-> step(f, k)]
  <1>1. After(b, rel) = at
    BY DEF After
  <1>2. n \in 0 .. 3 /\ \A k \in 1 .. n : rel[k] \in Int
    <2>1. \A k \in 1 .. Len(rel) : rel[k] \in Int
      BY ElementOfSeq
    <2> QED
      BY <2>1 DEF MaxNumRel
  <1>3. \E f : f = [k \in 1 .. Len(rel) + 1 |-> step(f, k)]
    <2> DEFINE b2 == b + rel[1]
               b3 == b2 + rel[2]
               b4 == b3 + rel[3]
               h == [k \in 1 .. n + 1 |->
                       CASE k = 1 -> b [] k = 2 -> b2 [] k = 3 -> b3 [] OTHER -> b4]
    <2>1. h[1] = b /\ (n >= 1 => h[2] = b2) /\ (n >= 2 => h[3] = b3) /\ (n >= 3 => h[4] = b4)
      BY <1>2
    <2>2. ASSUME NEW k \in 1 .. n + 1 PROVE h[k] = step(h, k)
      <3> HIDE DEF h
      <3>1. k = 1 \/ (k = 2 /\ n >= 1) \/ (k = 3 /\ n >= 2) \/ (k = 4 /\ n >= 3)
        BY <1>2
      <3>2. 2 - 1 = 1 /\ 3 - 1 = 2 /\ 4 - 1 = 3
        OBVIOUS
      <3> QED
        BY SMTT(30), <2>1, <3>1, <3>2
    <2>3. h = [k \in 1 .. n + 1 |-> step(h, k)]
      <3>1. h = [k \in 1 .. n + 1 |-> h[k]]
        OBVIOUS
      <3> HIDE DEF h, step
      <3> QED
        BY <2>2, <3>1
    <2> HIDE DEF h
    <2> QED
      BY <2>3
  <1>4. at = [k \in 1 .. n + 1 |-> step(at, k)]
    BY <1>3, Zenon
  <1> HIDE DEF at
  <1>5. at[1] = b /\ \A k \in 1 .. n : at[k + 1] = at[k] + rel[k]
    <2>1. \A k \in 1 .. n + 1 : at[k] = step(at, k)
      BY <1>4
    <2>2. at[1] = b
      BY <1>2, <2>1
    <2>3. ASSUME NEW k \in 1 .. n PROVE at[k + 1] = at[k] + rel[k]
      <3>1. k + 1 \in 1 .. n + 1 /\ k + 1 # 1 /\ (k + 1) - 1 = k
        BY <1>2
      <3> QED
        BY <2>1, <3>1
    <2> QED
      BY <2>2, <2>3
  <1>6. \A k \in 1 .. n + 1 : at[k] \in Int
    <2>1. /\ n >= 1 => at[1 + 1] = at[1] + rel[1]
          /\ n >= 2 => at[2 + 1] = at[2] + rel[2]
          /\ n >= 3 => at[3 + 1] = at[3] + rel[3]
      BY <1>2, <1>5
    <2>2. at[1] \in Int /\ (n >= 1 => at[2] \in Int)
      BY <1>2, <1>5, <2>1
    <2>3. (n >= 2 => at[3] \in Int)
      BY <1>2, <2>1, <2>2
    <2>4. (n >= 3 => at[4] \in Int)
      BY <1>2, <2>1, <2>3
    <2>5. \A k \in 1 .. n + 1 :
            k = 1 \/ (k = 2 /\ n >= 1) \/ (k = 3 /\ n >= 2) \/ (k = 4 /\ n >= 3)
      BY <1>2
    <2> QED
      BY <2>2, <2>3, <2>4, <2>5
  <1>7. at \in [1 .. n + 1 -> Int]
    <2>1. at = [k \in 1 .. n + 1 |-> at[k]]
      BY <1>4
    <2> QED
      BY <1>6, <2>1
  <1>8. at \in Seq(Int) /\ Len(at) = n + 1
    BY SMTT(30), <1>2, <1>7
  <1> QED
    BY <1>1, <1>5, <1>8

(* Before() goes from border to border, from the last. *)
LEMMA BeforeSteps ==
    ASSUME NEW b \in Int, NEW rel \in Seq(Int), Len(rel) \in 0 .. MaxNumRel
    PROVE  /\ Before(b, rel) \in Seq(Int) /\ Len(Before(b, rel)) = Len(rel) + 1
           /\ Before(b, rel)[Len(rel) + 1] = b
           /\ \A k \in 1 .. Len(rel) :
                 Before(b, rel)[k + 1] = Before(b, rel)[k] + rel[Len(rel) + 1 - k]
  <1> DEFINE n == Len(rel)
             neg == [k \in 1 .. n |-> -rel[k]]
             at == After(b, neg)
  <1>1. n \in Nat /\ \A k \in 1 .. n : rel[k] \in Int
    BY LenProperties, ElementOfSeq
  <1>2. neg \in Seq(Int) /\ Len(neg) = n /\ \A k \in 1 .. n : neg[k] = -rel[k]
    BY <1>1
  <1> HIDE DEF neg
  <1>3. /\ at \in Seq(Int) /\ Len(at) = n + 1 /\ at[1] = b
        /\ \A k \in 1 .. n : at[k + 1] = at[k] + neg[k]
    BY <1>2, AfterSteps
  <1> HIDE DEF at
  <1>4. Before(b, rel) = Reverse(at)
    BY DEF Before, at, neg
  <1>5. \A k \in 1 .. n + 1 : at[k] \in Int
    BY <1>3, ElementOfSeq
  <1>6. /\ Reverse(at) = [k \in 1 .. n + 1 |-> at[(n + 1 - k) + 1]]
    BY <1>3 DEF Reverse
  <1> DEFINE r == Reverse(at)
  <1> HIDE DEF r
  <1>7. r \in Seq(Int) /\ Len(r) = n + 1 /\ \A k \in 1 .. n + 1 : r[k] = at[n + 2 - k]
    <2>1. \A k \in 1 .. n + 1 : (n + 1 - k) + 1 = n + 2 - k /\ n + 2 - k \in 1 .. n + 1
      BY <1>1
    <2>2. r = [k \in 1 .. n + 1 |-> at[n + 2 - k]]
      BY <1>6, <2>1 DEF r
    <2> QED
      BY <1>1, <1>5, <2>1, <2>2
  <1>8. r[n + 1] = b
    <2>1. n + 1 \in 1 .. n + 1 /\ n + 2 - (n + 1) = 1
      BY <1>1
    <2>2. r[n + 1] = at[n + 2 - (n + 1)]
      BY <1>7, <2>1
    <2> QED
      BY <1>3, <2>1, <2>2
  <1>9. ASSUME NEW k \in 1 .. n PROVE r[k + 1] = r[k] + rel[n + 1 - k]
    <2>1. PICK j \in 1 .. n : j = n + 1 - k
      <3>1. n + 1 - k \in 1 .. n
        BY <1>1
      <3> QED
        BY <3>1
    <2>2. at[j + 1] = at[j] + neg[j] /\ neg[j] = -rel[j] /\ rel[j] \in Int /\ at[j] \in Int
      BY <1>1, <1>2, <1>3, <1>5
    <2>3. r[k + 1] = at[j] /\ r[k] = at[j + 1]
      <3>1. k + 1 \in 1 .. n + 1 /\ n + 2 - (k + 1) = j /\ n + 2 - k = j + 1
        BY <1>1, <2>1
      <3>2. k \in 1 .. n + 1
        BY <1>1
      <3>3. r[k + 1] = at[n + 2 - (k + 1)] /\ r[k] = at[n + 2 - k]
        BY <1>7, <3>1, <3>2
      <3> QED
        BY <3>1, <3>3
    <2> QED
      BY <2>1, <2>2, <2>3
  <1> QED
    BY <1>4, <1>7, <1>8, <1>9 DEF r

(* The distances the decoder reads. *)
Rounded(rel) == Distances(RelBits(rel))

(* Distances are read back as they are or one slot shorter, and the even    *)
(* ones as they are.                                                        *)
LEMMA RoundedFacts ==
    ASSUME NEW rel, IsRel(rel)
    PROVE  /\ IsRel(Rounded(rel)) /\ Len(Rounded(rel)) = Len(rel)
           /\ \A k \in 1 .. Len(rel) : Rounded(rel)[k] <= rel[k]
           /\ EvenRel(rel) => Rounded(rel) = rel
  <1> DEFINE n == Len(rel)
             round(x) == 2 * (((x - 2) \div 2) % 2 ^ 2) + 2
  <1>1. n \in 0 .. 3 /\ rel \in Seq(Int) /\ \A k \in 1 .. n : rel[k] \in 2 .. 8
    BY DEF IsRel, MaxNumRel
  <1>2. \A x \in 2 .. 8 : round(x) \in 2 .. 8 /\ round(x) <= x /\ (x % 2 = 0 => round(x) = x)
    <2>1. 2 ^ 2 = 4
      OBVIOUS
    <2> QED
      BY <2>1
  <1> HIDE DEF round
  <1>3. Rounded(rel) = [k \in 1 .. n |-> round(rel[k])]
    <2>1. /\ RelBits(rel) = [k \in 1 .. n |-> ((rel[k] - 2) \div 2) % 2 ^ 2]
          /\ Len(RelBits(rel)) = n
      BY <1>1 DEF RelBits, Bits
    <2> QED
      BY <2>1 DEF Rounded, Distances, round
  <1>4. Rounded(rel) \in Seq(Int) /\ Len(Rounded(rel)) = n
        /\ \A k \in 1 .. n : Rounded(rel)[k] = round(rel[k])
    BY SMTT(30), <1>1, <1>2, <1>3
  <1>5. EvenRel(rel) => Rounded(rel) = rel
    <2> SUFFICES ASSUME EvenRel(rel) PROVE Rounded(rel) = rel
      OBVIOUS
    <2>1. \A k \in 1 .. n : Rounded(rel)[k] = rel[k]
      BY <1>1, <1>2, <1>4 DEF EvenRel
    <2> QED
      BY <1>1, <1>4, <2>1, SeqEqual
  <1> QED
    BY <1>1, <1>2, <1>4, <1>5 DEF IsRel, MaxNumRel

(* Up to three steps from the same value: the smaller ones lead less far. *)
LEMMA ClimbApart ==
    ASSUME NEW n \in 0 .. 3, NEW f, NEW g, NEW r, NEW s,
           f[1] \in Int, g[1] \in Int,
           \A k \in 1 .. n : /\ f[k + 1] = f[k] + r[k] /\ g[k + 1] = g[k] + s[k]
                             /\ r[k] \in 2 .. 8 /\ s[k] \in 2 .. 8 /\ s[k] <= r[k]
    PROVE  /\ \A k \in 1 .. n : f[k] < f[k + 1] /\ g[k] < g[k + 1]
           /\ g[n + 1] - g[1] <= f[n + 1] - f[1]
           /\ \A k \in 1 .. n + 1 : f[k] \in Int /\ g[k] \in Int
  <1>1. /\ n >= 1 => /\ f[2] = f[1] + r[1] /\ g[2] = g[1] + s[1]
                     /\ r[1] \in 2 .. 8 /\ s[1] \in 2 .. 8 /\ s[1] <= r[1]
        /\ n >= 2 => /\ f[3] = f[2] + r[2] /\ g[3] = g[2] + s[2]
                     /\ r[2] \in 2 .. 8 /\ s[2] \in 2 .. 8 /\ s[2] <= r[2]
        /\ n >= 3 => /\ f[4] = f[3] + r[3] /\ g[4] = g[3] + s[3]
                     /\ r[3] \in 2 .. 8 /\ s[3] \in 2 .. 8 /\ s[3] <= r[3]
    <2>1. /\ n >= 1 => 1 \in 1 .. n
          /\ n >= 2 => 2 \in 1 .. n
          /\ n >= 3 => 3 \in 1 .. n
      OBVIOUS
    <2>2. 1 + 1 = 2 /\ 2 + 1 = 3 /\ 3 + 1 = 4
      OBVIOUS
    <2> QED
      BY <2>1, <2>2
  <1>2. n = 0 \/ n = 1 \/ n = 2 \/ n = 3
    OBVIOUS
  <1>3. /\ n >= 1 => f[2] \in Int /\ g[2] \in Int /\ f[1] < f[2] /\ g[1] < g[2] 
                     /\ g[2] - g[1] <= f[2] - f[1]
    BY <1>1
  <1>4. /\ n >= 2 => f[3] \in Int /\ g[3] \in Int /\ f[2] < f[3] /\ g[2] < g[3] 
                     /\ g[3] - g[1] <= f[3] - f[1]
    BY SMTT(30), <1>1, <1>3
  <1>5. /\ n >= 3 => f[4] \in Int /\ g[4] \in Int /\ f[3] < f[4] /\ g[3] < g[4] 
                     /\ g[4] - g[1] <= f[4] - f[1]
    BY <1>1, <1>4
  <1>6. CASE n = 0
    <2>1. 1 .. n = {} /\ 1 .. n + 1 = {1} /\ n + 1 = 1
      BY <1>6
    <2> QED
      BY <2>1
  <1>7. CASE n = 1
    <2>1. 1 .. n = {1} /\ 1 .. n + 1 = {1, 2} /\ n + 1 = 2 /\ 1 + 1 = 2 /\ n >= 1
      BY <1>7
    <2> QED
      BY <1>3, <2>1
  <1>8. CASE n = 2
    <2>1. 1 .. n = {1, 2} /\ 1 .. n + 1 = {1, 2, 3} /\ n + 1 = 3 /\ 1 + 1 = 2 /\ 2 + 1 = 3
          /\ n >= 1 /\ n >= 2
      BY <1>8
    <2> QED
      BY <1>3, <1>4, <2>1
  <1>9. CASE n = 3
    <2>1. 1 .. n = {1, 2, 3} /\ 1 .. n + 1 = {1, 2, 3, 4} /\ n + 1 = 4
          /\ 1 + 1 = 2 /\ 2 + 1 = 3 /\ 3 + 1 = 4 /\ n >= 1 /\ n >= 2 /\ n >= 3
      BY <1>9
    <2> QED
      BY <1>3, <1>4, <1>5, <2>1
  <1> QED
    BY <1>2, <1>6, <1>7, <1>8, <1>9

(* Numbers n steps apart from each other, the same steps in f and g. *)
SameSteps(n, f, g, r) ==
    /\ n \in 0 .. 3
    /\ \A k \in 1 .. n + 1 : f[k] \in Int /\ g[k] \in Int
    /\ \A k \in 1 .. n : r[k] \in Int /\ f[k + 1] = f[k] + r[k] /\ g[k + 1] = g[k] + r[k]

(* They lead to the same values from the same first or last one. *)
LEMMA ClimbTogether ==
    ASSUME NEW n, NEW f, NEW g, NEW r, SameSteps(n, f, g, r),
           f[1] = g[1] \/ f[n + 1] = g[n + 1]
    PROVE  \A k \in 1 .. n + 1 : f[k] = g[k]
  <1> USE DEF SameSteps
  <1>1. /\ n >= 1 => f[2] = f[1] + r[1] /\ g[2] = g[1] + r[1] /\ r[1] \in Int
        /\ n >= 2 => f[3] = f[2] + r[2] /\ g[3] = g[2] + r[2] /\ r[2] \in Int
        /\ n >= 3 => f[4] = f[3] + r[3] /\ g[4] = g[3] + r[3] /\ r[3] \in Int
    <2>1. /\ n >= 1 => 1 \in 1 .. n
          /\ n >= 2 => 2 \in 1 .. n
          /\ n >= 3 => 3 \in 1 .. n
      OBVIOUS
    <2>2. 1 + 1 = 2 /\ 2 + 1 = 3 /\ 3 + 1 = 4
      OBVIOUS
    <2> QED
      BY <2>1, <2>2
  <1>2. /\ f[1] \in Int /\ g[1] \in Int
        /\ n >= 1 => f[2] \in Int /\ g[2] \in Int
        /\ n >= 2 => f[3] \in Int /\ g[3] \in Int
        /\ n >= 3 => f[4] \in Int /\ g[4] \in Int
    <2>1. /\ 1 \in 1 .. n + 1
          /\ n >= 1 => 2 \in 1 .. n + 1
          /\ n >= 2 => 3 \in 1 .. n + 1
          /\ n >= 3 => 4 \in 1 .. n + 1
      OBVIOUS
    <2> QED
      BY <2>1
  <1>6. CASE n = 0
    <2>1. 1 .. n + 1 = {1} /\ n + 1 = 1
      BY <1>6
    <2> QED
      BY <2>1
  <1>7. CASE n = 1
    <2>1. 1 .. n + 1 = {1, 2} /\ n + 1 = 2 /\ n >= 1
      BY <1>7
    <2> QED
      BY <1>1, <1>2, <2>1
  <1>8. CASE n = 2
    <2>1. 1 .. n + 1 = {1, 2, 3} /\ n + 1 = 3 /\ n >= 1 /\ n >= 2
      BY <1>8
    <2> QED
      BY <1>1, <1>2, <2>1
  <1>9. CASE n = 3
    <2>1. 1 .. n + 1 = {1, 2, 3, 4} /\ n + 1 = 4 /\ n >= 1 /\ n >= 2 /\ n >= 3
      BY <1>9
    <2> QED
      BY <1>1, <1>2, <2>1
  <1> QED
    BY <1>6, <1>7, <1>8, <1>9

(* Borders counted from the left stay in order when they are read back, and *)
(* none moves to the right.                                                 *)
LEMMA LeftSide ==
    ASSUME NEW b \in Int, NEW rel, IsRel(rel)
    PROVE  LET laid == After(b, rel)
               read == After(b, Rounded(rel))
           IN  /\ laid \in Seq(Int) /\ Len(laid) = Len(rel) + 1 /\ laid[1] = b
               /\ read \in Seq(Int) /\ Len(read) = Len(rel) + 1 /\ read[1] = b
               /\ Ascending(laid) /\ Ascending(read)
               /\ read[Len(rel) + 1] <= laid[Len(rel) + 1]
               /\ EvenRel(rel) => read = laid
  <1> DEFINE n == Len(rel)
             rd == Rounded(rel)
             laid == After(b, rel)
             read == After(b, rd)
  <1>1. /\ n \in 0 .. 3 /\ rel \in Seq(Int) /\ n \in 0 .. MaxNumRel
        /\ \A k \in 1 .. n : rel[k] \in 2 .. 8
    BY DEF IsRel, MaxNumRel
  <1>2. /\ Len(rd) = n /\ rd \in Seq(Int) /\ (EvenRel(rel) => rd = rel)
        /\ \A k \in 1 .. n : rd[k] \in 2 .. 8 /\ rd[k] <= rel[k]
    BY RoundedFacts DEF IsRel
  <1> HIDE DEF rd
  <1>3. /\ laid \in Seq(Int) /\ Len(laid) = n + 1 /\ laid[1] = b
        /\ \A k \in 1 .. n : laid[k + 1] = laid[k] + rel[k]
    BY <1>1, AfterSteps
  <1>4. /\ read \in Seq(Int) /\ Len(read) = n + 1 /\ read[1] = b
        /\ \A k \in 1 .. n : read[k + 1] = read[k] + rd[k]
    BY <1>1, <1>2, AfterSteps
  <1> HIDE DEF laid, read, n
  <1>5. /\ \A k \in 1 .. n : laid[k] < laid[k + 1] /\ read[k] < read[k + 1]
        /\ read[n + 1] - read[1] <= laid[n + 1] - laid[1]
        /\ \A k \in 1 .. n + 1 : laid[k] \in Int /\ read[k] \in Int
    <2>1. laid[1] \in Int /\ read[1] \in Int
      BY <1>3, <1>4
    <2>2. \A k \in 1 .. n : /\ laid[k + 1] = laid[k] + rel[k] /\ read[k + 1] = read[k] + rd[k]
                            /\ rel[k] \in 2 .. 8 /\ rd[k] \in 2 .. 8 /\ rd[k] <= rel[k]
      BY <1>1, <1>2, <1>3, <1>4
    <2> QED
      BY ZenonT(30), <1>1, <2>1, <2>2, ClimbApart
  <1>6. Ascending(laid) /\ Ascending(read)
    <2>1. Len(laid) - 1 = n /\ Len(read) - 1 = n
      BY <1>1, <1>3, <1>4
    <2> QED
      BY <1>5, <2>1 DEF Ascending
  <1>7. read[n + 1] <= laid[n + 1]
    <2>1. n + 1 \in 1 .. n + 1
      BY <1>1
    <2>2. read[1] = laid[1] /\ read[1] \in Int
      BY <1>3, <1>4
    <2>3. read[n + 1] \in Int /\ laid[n + 1] \in Int
      BY <1>5, <2>1
    <2> QED
      BY <1>5, <2>2, <2>3
  <1>8. EvenRel(rel) => read = laid
    BY <1>2 DEF read, laid
  <1> QED
    BY <1>3, <1>4, <1>6, <1>7, <1>8 DEF read, laid, rd, n

(* Borders counted from the right stay in order, and none moves to the left. *)
LEMMA RightSide ==
    ASSUME NEW b \in Int, NEW rel, IsRel(rel)
    PROVE  LET laid == Before(b, rel)
               read == Before(b, Rounded(rel))
           IN  /\ laid \in Seq(Int) /\ Len(laid) = Len(rel) + 1 /\ laid[Len(rel) + 1] = b
               /\ read \in Seq(Int) /\ Len(read) = Len(rel) + 1 /\ read[Len(rel) + 1] = b
               /\ Ascending(laid) /\ Ascending(read)
               /\ laid[1] <= read[1]
               /\ EvenRel(rel) => read = laid
  <1> DEFINE n == Len(rel)
             rd == Rounded(rel)
             laid == Before(b, rel)
             read == Before(b, rd)
  <1>1. /\ n \in 0 .. 3 /\ rel \in Seq(Int) /\ n \in 0 .. MaxNumRel
        /\ \A k \in 1 .. n : rel[k] \in 2 .. 8
    BY DEF IsRel, MaxNumRel
  <1>2. /\ Len(rd) = n /\ rd \in Seq(Int) /\ (EvenRel(rel) => rd = rel)
        /\ \A k \in 1 .. n : rd[k] \in 2 .. 8 /\ rd[k] <= rel[k]
    BY RoundedFacts DEF IsRel
  <1> HIDE DEF rd
  <1>3. /\ laid \in Seq(Int) /\ Len(laid) = n + 1 /\ laid[n + 1] = b
        /\ \A k \in 1 .. n : laid[k + 1] = laid[k] + rel[n + 1 - k]
    BY <1>1, BeforeSteps
  <1>4. /\ read \in Seq(Int) /\ Len(read) = n + 1 /\ read[n + 1] = b
        /\ \A k \in 1 .. n : read[k + 1] = read[k] + rd[n + 1 - k]
    <2>1. /\ read \in Seq(Int) /\ Len(read) = Len(rd) + 1 /\ read[Len(rd) + 1] = b
          /\ \A k \in 1 .. Len(rd) : read[k + 1] = read[k] + rd[Len(rd) + 1 - k]
      BY <1>1, <1>2, BeforeSteps
    <2> QED
      BY <1>2, <2>1
  <1> HIDE DEF laid, read, n
  <1> DEFINE r == [k \in 1 .. n |-> rel[n + 1 - k]]
             s == [k \in 1 .. n |-> rd[n + 1 - k]]
  <1>5. \A k \in 1 .. n : /\ laid[k + 1] = laid[k] + r[k] /\ read[k + 1] = read[k] + s[k]
                          /\ r[k] \in 2 .. 8 /\ s[k] \in 2 .. 8 /\ s[k] <= r[k]
    <2>1. \A k \in 1 .. n : r[k] = rel[n + 1 - k] /\ s[k] = rd[n + 1 - k] /\ n + 1 - k \in 1 .. n
      BY <1>1
    <2> HIDE DEF r, s
    <2> TAKE k \in 1 .. n
    <2>2. PICK j \in 1 .. n : j = n + 1 - k
      BY <2>1
    <2>3. rel[j] \in 2 .. 8 /\ rd[j] \in 2 .. 8 /\ rd[j] <= rel[j]
      BY <1>1, <1>2
    <2>4. laid[k + 1] = laid[k] + rel[j] /\ read[k + 1] = read[k] + rd[j]
      BY <1>3, <1>4, <2>2
    <2>5. r[k] = rel[j] /\ s[k] = rd[j]
      BY <2>1, <2>2
    <2> QED
      BY <2>3, <2>4, <2>5
  <1> HIDE DEF r, s
  <1>6. laid[1] \in Int /\ read[1] \in Int
    <2>1. 1 \in 1 .. n + 1
      BY <1>1
    <2> QED
      BY <1>3, <1>4, <2>1, ElementOfSeq
  <1>7. /\ \A k \in 1 .. n : laid[k] < laid[k + 1] /\ read[k] < read[k + 1]
        /\ read[n + 1] - read[1] <= laid[n + 1] - laid[1]
    BY ZenonT(30), <1>1, <1>5, <1>6, ClimbApart
  <1>8. Ascending(laid) /\ Ascending(read)
    <2>1. Len(laid) - 1 = n /\ Len(read) - 1 = n
      BY <1>1, <1>3, <1>4
    <2> QED
      BY <1>7, <2>1 DEF Ascending
  <1>9. laid[1] <= read[1]
    BY <1>3, <1>4, <1>6, <1>7
  <1>10. EvenRel(rel) => read = laid
    BY <1>2 DEF read, laid
  <1> QED
    BY <1>3, <1>4, <1>8, <1>9, <1>10 DEF read, laid, rd, n

(* The distances of borders lead back to them. *)
LEMMA StepsAreRel ==
    ASSUME NEW bord \in Seq(Int), Len(bord) \in 1 .. MaxNumRel + 1,
           \A k \in 1 .. Len(bord) - 1 : bord[k + 1] - bord[k] \in 2 .. 8
    PROVE  /\ IsRel(Steps(bord)) /\ Len(Steps(bord)) = Len(bord) - 1
           /\ IsRel(Reverse(Steps(bord))) /\ Len(Reverse(Steps(bord))) = Len(bord) - 1
           /\ After(bord[1], Steps(bord)) = bord
           /\ Before(bord[Len(bord)], Reverse(Steps(bord))) = bord
           /\ (\A k \in 1 .. Len(bord) - 1 : (bord[k + 1] - bord[k]) % 2 = 0) =>
                 EvenRel(Steps(bord)) /\ EvenRel(Reverse(Steps(bord)))
  <1> DEFINE n == Len(bord) - 1
             st == Steps(bord)
             rv == Reverse(st)
  <1>1. n \in 0 .. 3 /\ Len(bord) = n + 1 /\ \A k \in 1 .. n + 1 : bord[k] \in Int
    <2>1. n \in 0 .. 3 /\ Len(bord) = n + 1
      BY DEF MaxNumRel
    <2> QED
      BY <2>1, ElementOfSeq
  <1>2. /\ st \in Seq(Int) /\ Len(st) = n
        /\ \A k \in 1 .. n : st[k] = bord[k + 1] - bord[k] /\ st[k] \in 2 .. 8
    <2>1. st = [k \in 1 .. n |-> bord[k + 1] - bord[k]]
      BY DEF Steps
    <2> QED
      BY <1>1, <2>1
  <1> HIDE DEF st, n
  <1>3. /\ rv \in Seq(Int) /\ Len(rv) = n
        /\ \A k \in 1 .. n : rv[k] = st[n + 1 - k] /\ rv[k] \in 2 .. 8
    <2>1. rv = [k \in 1 .. n |-> st[(n - k) + 1]]
      BY <1>2 DEF Reverse
    <2>2. \A k \in 1 .. n : (n - k) + 1 = n + 1 - k /\ n + 1 - k \in 1 .. n
      BY <1>1
    <2>3. rv = [k \in 1 .. n |-> st[n + 1 - k]]
      BY <2>1, <2>2
    <2>4. \A k \in 1 .. n : st[n + 1 - k] \in 2 .. 8
      BY <1>2, <2>2
    <2> HIDE DEF rv
    <2>5. \A k \in 1 .. n : rv[k] = st[n + 1 - k]
      BY <2>3
    <2>6. rv \in [1 .. n -> Int] /\ n \in Nat
      <3>1. \A k \in 1 .. n : st[n + 1 - k] \in Int
        BY <2>4
      <3> QED
        BY <1>1, <2>3, <3>1
    <2>7. rv \in Seq(Int) /\ Len(rv) = n
      BY <2>6
    <2> QED
      BY <2>4, <2>5, <2>7
  <1> HIDE DEF rv
  <1>4. IsRel(st) /\ IsRel(rv)
    BY <1>1, <1>2, <1>3 DEF IsRel, MaxNumRel
  <1>5. After(bord[1], st) = bord
    <2> DEFINE at == After(bord[1], st)
    <2>1. bord[1] \in Int /\ n \in 0 .. MaxNumRel
      BY <1>1 DEF MaxNumRel
    <2>2. /\ at \in Seq(Int) /\ Len(at) = n + 1 /\ at[1] = bord[1]
          /\ \A k \in 1 .. n : at[k + 1] = at[k] + st[k]
      <3>1. Len(st) \in 0 .. MaxNumRel
        BY <1>2, <2>1
      <3> QED
        BY <1>2, <2>1, <3>1, AfterSteps
    <2> HIDE DEF at
    <2>3. \A k \in 1 .. n + 1 : at[k] \in Int /\ bord[k] \in Int
      BY <1>1, <2>2, ElementOfSeq
    <2>4. \A k \in 1 .. n : /\ st[k] \in Int /\ at[k + 1] = at[k] + st[k]
                            /\ bord[k + 1] = bord[k] + st[k]
      <3> TAKE k \in 1 .. n
      <3>1. k \in 1 .. n + 1 /\ k + 1 \in 1 .. n + 1
        BY <1>1
      <3>2. bord[k] \in Int /\ bord[k + 1] \in Int /\ st[k] = bord[k + 1] - bord[k]
        BY <1>1, <1>2, <3>1
      <3> QED
        BY <2>2, <3>2
    <2>5. \A k \in 1 .. n + 1 : at[k] = bord[k]
      <3>1. SameSteps(n, at, bord, st)
        BY <1>1, <2>3, <2>4 DEF SameSteps
      <3> QED
        BY <2>2, <3>1, ClimbTogether
    <2>6. at = bord
      BY <1>1, <2>2, <2>5, SeqEqual
    <2> QED
      BY <2>6 DEF at
  <1>6. Before(bord[n + 1], rv) = bord
    <2> DEFINE at == Before(bord[n + 1], rv)
    <2>1. bord[n + 1] \in Int /\ n \in 0 .. MaxNumRel
      BY <1>1 DEF MaxNumRel
    <2>2. /\ at \in Seq(Int) /\ Len(at) = n + 1 /\ at[n + 1] = bord[n + 1]
          /\ \A k \in 1 .. n : at[k + 1] = at[k] + rv[n + 1 - k]
      <3>1. Len(rv) \in 0 .. MaxNumRel
        BY <1>3, <2>1
      <3>2. /\ at \in Seq(Int) /\ Len(at) = Len(rv) + 1 /\ at[Len(rv) + 1] = bord[n + 1]
            /\ \A k \in 1 .. Len(rv) : at[k + 1] = at[k] + rv[Len(rv) + 1 - k]
        BY <1>3, <2>1, <3>1, BeforeSteps
      <3> QED
        BY <1>3, <3>2
    <2> HIDE DEF at
    <2>3. \A k \in 1 .. n + 1 : at[k] \in Int /\ bord[k] \in Int
      BY <1>1, <2>2, ElementOfSeq
    <2>4. \A k \in 1 .. n : /\ st[k] \in Int /\ at[k + 1] = at[k] + st[k]
                            /\ bord[k + 1] = bord[k] + st[k]
      <3> TAKE k \in 1 .. n
      <3>1. k \in 1 .. n + 1 /\ k + 1 \in 1 .. n + 1
            /\ n + 1 - k \in 1 .. n /\ n + 1 - (n + 1 - k) = k
        BY <1>1
      <3>2. rv[n + 1 - k] = st[k]
        BY <1>3, <3>1
      <3>3. bord[k] \in Int /\ bord[k + 1] \in Int /\ st[k] = bord[k + 1] - bord[k]
        BY <1>1, <1>2, <3>1
      <3> QED
        BY SMTT(30), <2>2, <3>2, <3>3
    <2>5. \A k \in 1 .. n + 1 : at[k] = bord[k]
      <3>1. at[n + 1] = bord[n + 1]
        BY <2>2
      <3>2. SameSteps(n, at, bord, st)
        BY <1>1, <2>3, <2>4 DEF SameSteps
      <3> QED
        BY <3>1, <3>2, ClimbTogether
    <2>6. at = bord
      BY <1>1, <2>2, <2>5, SeqEqual
    <2> QED
      BY <2>6 DEF at
  <1>7. ASSUME \A k \in 1 .. n : (bord[k + 1] - bord[k]) % 2 = 0
        PROVE  EvenRel(st) /\ EvenRel(rv)
    <2>1. \A k \in 1 .. n : st[k] % 2 = 0
      BY <1>2, <1>7
    <2>2. \A k \in 1 .. n : rv[k] % 2 = 0
      <3> TAKE k \in 1 .. n
      <3>1. n + 1 - k \in 1 .. n
        BY <1>1
      <3>2. rv[k] = st[n + 1 - k]
        BY <1>3
      <3> QED
        BY <2>1, <3>1, <3>2
    <2> QED
      BY <1>2, <1>3, <2>1, <2>2 DEF EvenRel
  <1> QED
    BY <1>1, <1>2, <1>3, <1>4, <1>5, <1>6, <1>7 DEF st, rv, n

-----------------------------------------------------------------------------
(* Rising borders, and what the decoder makes of a grid of a variable class *)

(* Rising borders, n of them. *)
Rising(s, n) == s \in Seq(Int) /\ n \in Nat /\ n > 0 /\ Len(s) = n /\ Ascending(s)

(* u rises from where s starts to where t ends. *)
Spans(u, s, m, t, n) == Rising(u, m + n) /\ u[1] = s[1] /\ u[m + n] = t[n]

(* Two rising runs of borders, the second behind the first. *)
LEMMA JoinRising ==
    ASSUME NEW s, NEW t, NEW m, NEW n, Rising(s, m), Rising(t, n), s[m] < t[1]
    PROVE  Spans(s \o t, s, m, t, n)
  <1> DEFINE u == s \o t
  <1>1. m \in Nat /\ n \in Nat /\ m > 0 /\ n > 0
    BY DEF Rising
  <1>2. /\ u \in Seq(Int) /\ Len(u) = m + n
        /\ \A i \in 1 .. m + n : u[i] = IF i <= m THEN s[i] ELSE t[i - m]
    BY ConcatProperties DEF Rising
  <1>3. /\ \A k \in 1 .. m - 1 : s[k] < s[k + 1]
        /\ \A k \in 1 .. n - 1 : t[k] < t[k + 1]
        /\ s[m] < t[1]
    BY DEF Ascending, Rising
  <1> HIDE DEF u
  <1>5. u[1] = s[1] /\ u[m + n] = t[n]
    <2>1. 1 \in 1 .. m + n /\ 1 <= m /\ m + n \in 1 .. m + n /\ ~(m + n <= m) /\ m + n - m = n
      BY <1>1
    <2>2. u[1] = s[1]
      BY <1>2, <2>1
    <2>3. u[m + n] = t[m + n - m]
      BY <1>1, <1>2, <2>1
    <2> QED
      BY <2>1, <2>2, <2>3
  <1>6. ASSUME NEW k \in 1 .. m + n - 1 PROVE u[k] < u[k + 1]
    <2>1. k \in 1 .. m + n /\ k + 1 \in 1 .. m + n
      BY <1>1
    <2>2. CASE k < m
      <3>1. k <= m /\ k + 1 <= m /\ k \in 1 .. m - 1
        BY <1>1, <2>2
      <3> QED
        BY <1>2, <1>3, <2>1, <3>1
    <2>3. CASE k = m
      <3>1. k <= m /\ ~(k + 1 <= m) /\ (k + 1) - m = 1
        BY <1>1, <2>3
      <3>2. u[k] = s[m] /\ u[k + 1] = t[1]
        BY <1>2, <2>1, <2>3, <3>1
      <3> QED
        BY <1>3, <3>2
    <2>4. CASE k > m
      <3>1. PICK j \in 1 .. n - 1 : j = k - m
        <4>1. k - m \in 1 .. n - 1
          BY <1>1, <2>4
        <4> QED
          BY <4>1
      <3>2. ~(k <= m) /\ ~(k + 1 <= m) /\ (k + 1) - m = j + 1 /\ k - m = j
        BY <1>1, <2>4, <3>1
      <3>3. u[k] = t[j] /\ u[k + 1] = t[j + 1]
        BY <1>2, <2>1, <3>2
      <3> QED
        BY <1>3, <3>3
    <2> QED
      BY <1>1, <2>2, <2>3, <2>4
  <1>7. Ascending(u)
    <2>1. Len(u) = m + n
      BY <1>2
    <2> QED
      BY <1>1, <1>6, <2>1 DEF Ascending
  <1> QED
    BY <1>1, <1>2, <1>5, <1>7 DEF u, Rising, Spans

(* One border before rising ones, or behind them. *)
LEMMA RisingSingle ==
    ASSUME NEW x \in Int
    PROVE  Rising(<<x>>, 1) /\ <<x>>[1] = x
  BY DEF Rising, Ascending

LEMMA RisingFrom ==
    ASSUME NEW x \in Int, NEW t, NEW n, Rising(t, n), x < t[1]
    PROVE  Spans(<<x>> \o t, <<x>>, 1, t, n)
  <1> DEFINE s == <<x>>
  <1>2. Rising(s, 1) /\ s[1] = x
    BY RisingSingle
  <1> HIDE DEF s
  <1>3. s[1] < t[1]
    BY <1>2
  <1>4. Spans(s \o t, s, 1, t, n)
    BY <1>2, <1>3, JoinRising
  <1> QED
    BY <1>4 DEF s

LEMMA RisingTo ==
    ASSUME NEW x \in Int, NEW s, NEW n, Rising(s, n), s[n] < x
    PROVE  Spans(s \o <<x>>, s, n, <<x>>, 1)
  <1> DEFINE t == <<x>>
  <1>1. Rising(t, 1) /\ t[1] = x
    BY RisingSingle
  <1> HIDE DEF t
  <1>2. s[n] < t[1]
    BY <1>1
  <1>3. Spans(s \o t, s, n, t, 1)
    BY <1>1, <1>2, JoinRising
  <1> QED
    BY <1>3 DEF t

(* Later borders are later. *)
LEMMA RisingOrder ==
    ASSUME NEW n \in 1 .. 6, NEW s, \A k \in 1 .. n : s[k] \in Int,
           \A k \in 1 .. n - 1 : s[k] < s[k + 1],
           NEW i \in 1 .. n, NEW j \in 1 .. n, i < j
    PROVE  s[i] < s[j]
  <1>1. ASSUME NEW k \in 1 .. n - 1 PROVE s[k] \in Int /\ s[k + 1] \in Int /\ s[k] < s[k + 1]
    <2>1. k \in 1 .. n /\ k + 1 \in 1 .. n
      OBVIOUS
    <2> QED
      BY <2>1
  <1>2. /\ n >= 2 => s[1] \in Int /\ s[2] \in Int /\ s[1] < s[2]
        /\ n >= 3 => s[2] \in Int /\ s[3] \in Int /\ s[2] < s[3]
        /\ n >= 4 => s[3] \in Int /\ s[4] \in Int /\ s[3] < s[4]
        /\ n >= 5 => s[4] \in Int /\ s[5] \in Int /\ s[4] < s[5]
        /\ n >= 6 => s[5] \in Int /\ s[6] \in Int /\ s[5] < s[6]
    <2>1. /\ n >= 2 => 1 \in 1 .. n - 1
          /\ n >= 3 => 2 \in 1 .. n - 1
          /\ n >= 4 => 3 \in 1 .. n - 1
          /\ n >= 5 => 4 \in 1 .. n - 1
          /\ n >= 6 => 5 \in 1 .. n - 1
      OBVIOUS
    <2>2. 1 + 1 = 2 /\ 2 + 1 = 3 /\ 3 + 1 = 4 /\ 4 + 1 = 5 /\ 5 + 1 = 6
      OBVIOUS
    <2> QED
      BY <1>1, <2>1, <2>2
  <1>3. /\ n >= 3 => s[1] < s[3]
        /\ n >= 4 => s[1] < s[4] /\ s[2] < s[4]
        /\ n >= 5 => s[1] < s[5] /\ s[2] < s[5] /\ s[3] < s[5]
        /\ n >= 6 => s[1] < s[6] /\ s[2] < s[6] /\ s[3] < s[6] /\ s[4] < s[6]
    BY <1>2
  <1>4. j = 2 \/ j = 3 \/ j = 4 \/ j = 5 \/ j = 6
    OBVIOUS
  <1>5. CASE j = 2
    BY <1>2, <1>5
  <1>6. CASE j = 3
    BY <1>2, <1>3, <1>6
  <1>7. CASE j = 4
    BY <1>2, <1>3, <1>7
  <1>8. CASE j = 5
    <2>1. i = 1 \/ i = 2 \/ i = 3 \/ i = 4
      BY <1>8
    <2> QED
      BY <1>2, <1>3, <1>8, <2>1
  <1>9. CASE j = 6
    <2>1. i = 1 \/ i = 2 \/ i = 3 \/ i = 4 \/ i = 5
      BY <1>9
    <2> QED
      BY <1>2, <1>3, <1>9, <2>1
  <1> QED
    BY <1>4, <1>5, <1>6, <1>7, <1>8, <1>9

(* The borders of a grid of variable borders, with given distances. *)
BordersOf(slots, g, relLeft, relRight) ==
    CASE g.class = "FIXVAR" -> <<0>> \o Before(g.right, relRight)
      [] g.class = "VARFIX" -> After(g.left, relLeft) \o <<slots>>
      [] g.class = "VARVAR" -> After(g.left, relLeft) \o Before(g.right, relRight)

(* A grid of variable borders the generator may make: every field fits the  *)
(* bitstream, and the two sides do not meet.                                *)
VariableGrid(slots, g) ==
    LET n == Len(g.relLeft) + Len(g.relRight)
        From(rel) == After(g.left, rel)[Len(rel) + 1]
    IN  /\ g.class \in {"FIXVAR", "VARFIX", "VARVAR"}
        /\ IsRel(g.relLeft) /\ IsRel(g.relRight)
        /\ slots = 16 => EvenRel(g.relLeft) /\ EvenRel(g.relRight)
        /\ n \in 0 .. 4 /\ g.p \in 0 .. n + 1
        /\ g.freq \in Seq({FreqResLow, FreqResHigh}) /\ Len(g.freq) = n + 1
        /\ g.class # "FIXVAR" => g.left \in 0 .. 3
        /\ g.class # "VARFIX" => g.right \in slots .. slots + 3 /\ g.p >= 1
        /\ g.class = "FIXVAR" => g.relLeft = <<>> /\ Before(g.right, g.relRight)[1] > 0
        /\ g.class = "VARFIX" => g.relRight = <<>> /\ From(g.relLeft) < slots /\ g.p <= 1
        /\ g.class = "VARVAR" => From(g.relLeft) < Before(g.right, g.relRight)[1]

(* The borders laid and those read, with the distances as transmitted, rise *)
(* from the same slot to the same slot.                                     *)
LEMMA VariableBorders ==
    ASSUME NEW slots \in SlotCounts, NEW g, VariableGrid(slots, g)
    PROVE  LET n == Len(g.relLeft) + Len(g.relRight)
               laid == BordersOf(slots, g, g.relLeft, g.relRight)
               read == BordersOf(slots, g, Rounded(g.relLeft), Rounded(g.relRight))
           IN  /\ Rising(laid, n + 2) /\ Rising(read, n + 2)
               /\ read[1] = laid[1] /\ laid[1] \in 0 .. 3
               /\ g.class # "FIXVAR" => laid[1] = g.left
               /\ g.class = "FIXVAR" => laid[1] = 0
               /\ read[n + 2] = laid[n + 2] /\ laid[n + 2] \in slots .. slots + 3
               /\ g.class # "VARFIX" => laid[n + 2] = g.right
               /\ g.class = "VARFIX" => laid[n + 2] = slots
               /\ slots = 16 => read = laid
  <1> DEFINE nl == Len(g.relLeft)
             nr == Len(g.relRight)
             n == nl + nr
             laid == BordersOf(slots, g, g.relLeft, g.relRight)
             read == BordersOf(slots, g, Rounded(g.relLeft), Rounded(g.relRight))
  <1>0. slots \in Int /\ slots > 3
    BY DEF SlotCounts
  <1>1. /\ IsRel(g.relLeft) /\ IsRel(g.relRight)
        /\ nl \in 0 .. 3 /\ nr \in 0 .. 3
        /\ slots = 16 => EvenRel(g.relLeft) /\ EvenRel(g.relRight)
    BY DEF VariableGrid, IsRel, MaxNumRel
  <1> DEFINE a == After(g.left, g.relLeft)
             ra == After(g.left, Rounded(g.relLeft))
             b == Before(g.right, g.relRight)
             rb == Before(g.right, Rounded(g.relRight))
  <1>4. ASSUME g.class # "FIXVAR"
        PROVE  /\ g.left \in 0 .. 3 /\ a[1] = g.left /\ ra[1] = g.left
               /\ Rising(a, nl + 1) /\ Rising(ra, nl + 1)
               /\ ra[nl + 1] <= a[nl + 1] /\ ra[nl + 1] \in Int /\ a[nl + 1] \in Int
               /\ slots = 16 => ra = a
    <2>1. g.left \in 0 .. 3
      BY <1>4 DEF VariableGrid
    <2>2. g.left \in Int
      BY <2>1
    <2>3. /\ a \in Seq(Int) /\ Len(a) = nl + 1 /\ a[1] = g.left /\ Ascending(a)
          /\ ra \in Seq(Int) /\ Len(ra) = nl + 1 /\ ra[1] = g.left /\ Ascending(ra)
          /\ ra[nl + 1] <= a[nl + 1]
          /\ EvenRel(g.relLeft) => ra = a
      BY <1>1, <2>2, LeftSide
    <2>4. nl + 1 \in 1 .. nl + 1 /\ nl + 1 \in Nat /\ nl + 1 > 0
      BY <1>1
    <2> HIDE DEF a, ra, nl
    <2>5. ra[nl + 1] \in Int /\ a[nl + 1] \in Int
      BY <2>3, <2>4, ElementOfSeq
    <2> QED
      BY <1>1, <2>1, <2>3, <2>4, <2>5 DEF Rising
  <1>5. ASSUME g.class # "VARFIX"
        PROVE  /\ g.right \in slots .. slots + 3 /\ b[nr + 1] = g.right /\ rb[nr + 1] = g.right
               /\ Rising(b, nr + 1) /\ Rising(rb, nr + 1)
               /\ b[1] <= rb[1] /\ b[1] \in Int /\ rb[1] \in Int
               /\ slots = 16 => rb = b
    <2>1. g.right \in slots .. slots + 3
      BY <1>5 DEF VariableGrid
    <2>2. g.right \in Int
      BY <1>0, <2>1
    <2>3. /\ b \in Seq(Int) /\ Len(b) = nr + 1 /\ b[nr + 1] = g.right /\ Ascending(b)
          /\ rb \in Seq(Int) /\ Len(rb) = nr + 1 /\ rb[nr + 1] = g.right /\ Ascending(rb)
          /\ b[1] <= rb[1]
          /\ EvenRel(g.relRight) => rb = b
      BY <1>1, <2>2, RightSide
    <2>4. 1 \in 1 .. nr + 1 /\ nr + 1 \in Nat /\ nr + 1 > 0
      BY <1>1
    <2> HIDE DEF b, rb, nr
    <2>5. b[1] \in Int /\ rb[1] \in Int
      BY <2>3, <2>4, ElementOfSeq
    <2> QED
      BY <1>1, <2>1, <2>3, <2>4, <2>5 DEF Rising
  <1> DEFINE Done == /\ Rising(laid, n + 2) /\ Rising(read, n + 2)
                     /\ read[1] = laid[1] /\ laid[1] \in 0 .. 3
                     /\ g.class # "FIXVAR" => laid[1] = g.left
                     /\ g.class = "FIXVAR" => laid[1] = 0
                     /\ read[n + 2] = laid[n + 2] /\ laid[n + 2] \in slots .. slots + 3
                     /\ g.class # "VARFIX" => laid[n + 2] = g.right
                     /\ g.class = "VARFIX" => laid[n + 2] = slots
                     /\ slots = 16 => read = laid
  <1>6. ASSUME g.class = "FIXVAR" PROVE Done
    <2>1. laid = <<0>> \o b /\ read = <<0>> \o rb
      BY <1>6 DEF BordersOf
    <2>2. g.class # "VARFIX" /\ nl = 0 /\ b[1] > 0
      BY <1>6 DEF VariableGrid
    <2>3. n + 2 = 1 + (nr + 1)
      BY <1>1, <2>2
    <2> HIDE DEF laid, read, b, rb, nl, nr, n
    <2>4. 0 < b[1] /\ 0 < rb[1]
      BY <1>5, <2>2
    <2>5. Spans(laid, <<0>>, 1, b, nr + 1)
      BY <1>5, <2>1, <2>2, <2>4, RisingFrom
    <2>6. Spans(read, <<0>>, 1, rb, nr + 1)
      BY <1>5, <2>1, <2>2, <2>4, RisingFrom
    <2>7. slots = 16 => read = laid
      BY <1>5, <2>1, <2>2
    <2>8. /\ laid[n + 2] = g.right /\ read[n + 2] = g.right /\ laid[1] = 0 /\ read[1] = 0
          /\ Rising(laid, n + 2) /\ Rising(read, n + 2)
      BY <1>5, <2>2, <2>3, <2>5, <2>6, RisingSingle DEF Spans
    <2> QED
      BY <1>5, <1>6, <2>2, <2>5, <2>6, <2>7, <2>8
  <1>7. ASSUME g.class = "VARFIX" PROVE Done
    <2>1. laid = a \o <<slots>> /\ read = ra \o <<slots>>
      BY <1>7 DEF BordersOf
    <2>2. g.class # "FIXVAR" /\ nr = 0 /\ a[nl + 1] < slots
      BY <1>7 DEF VariableGrid
    <2>3. n + 2 = (nl + 1) + 1
      BY <1>1, <2>2
    <2> HIDE DEF laid, read, a, ra, nl, nr, n
    <2>4. a[nl + 1] < slots /\ ra[nl + 1] < slots
      BY <1>0, <1>4, <2>2
    <2>5. Spans(laid, a, nl + 1, <<slots>>, 1)
      BY <1>0, <1>4, <2>1, <2>2, <2>4, RisingTo
    <2>6. Spans(read, ra, nl + 1, <<slots>>, 1)
      BY <1>0, <1>4, <2>1, <2>2, <2>4, RisingTo
    <2>7. slots \in slots .. slots + 3
      BY <1>0
    <2>8. slots = 16 => read = laid
      BY <1>4, <2>1, <2>2
    <2>9. /\ laid[n + 2] = slots /\ read[n + 2] = slots /\ laid[1] = a[1] /\ read[1] = ra[1]
          /\ Rising(laid, n + 2) /\ Rising(read, n + 2)
      BY <1>0, <2>3, <2>5, <2>6, RisingSingle DEF Spans
    <2> QED
      BY <1>4, <1>7, <2>2, <2>5, <2>6, <2>7, <2>8, <2>9
  <1>8. ASSUME g.class = "VARVAR" PROVE Done
    <2>1. laid = a \o b /\ read = ra \o rb
      BY <1>8 DEF BordersOf
    <2>2. g.class # "FIXVAR" /\ g.class # "VARFIX" /\ a[nl + 1] < b[1]
      BY <1>8 DEF VariableGrid
    <2> HIDE DEF nl, nr
    <2>3. n + 2 = (nl + 1) + (nr + 1)
      BY <1>1
    <2> HIDE DEF laid, read, a, ra, b, rb, n
    <2>4. a[nl + 1] < b[1] /\ ra[nl + 1] < rb[1]
      BY <1>4, <1>5, <2>2
    <2>5. Spans(laid, a, nl + 1, b, nr + 1)
      BY <1>4, <1>5, <2>1, <2>2, <2>4, JoinRising
    <2>6. Spans(read, ra, nl + 1, rb, nr + 1)
      BY <1>4, <1>5, <2>1, <2>2, <2>4, JoinRising
    <2>7. slots = 16 => read = laid
      BY <1>4, <1>5, <2>1, <2>2
    <2>8. /\ laid[n + 2] = g.right /\ read[n + 2] = g.right /\ laid[1] = a[1] /\ read[1] = ra[1]
          /\ Rising(laid, n + 2) /\ Rising(read, n + 2)
      BY <1>5, <2>2, <2>3, <2>5, <2>6, RisingSingle DEF Spans
    <2> QED
      BY <1>4, <1>5, <1>8, <2>2, <2>5, <2>6, <2>7, <2>8
  <1>9. Done
    BY <1>6, <1>7, <1>8 DEF VariableGrid
  <1> QED
    BY <1>9

(* The noise floors of n + 1 envelopes: one, or two that meet at an inner    *)
(* border.                                                                  *)
NoiseOf(noise, s, n) ==
    \/ n = 0 /\ noise = <<s[1], s[n + 2]>>
    \/ \E m \in 1 .. n : noise = <<s[1], s[m + 1], s[n + 2]>>

(* The decoder accepts borders in order which start and end in the overlap. *)
LEMMA Accepted ==
    ASSUME NEW slots \in SlotCounts, NEW over \in 0 .. 3, NEW n \in 0 .. 4, NEW i,
           Rising(i.borders, n + 2),
           i.borders[1] \in 0 .. over, i.borders[n + 2] \in slots .. slots + over,
           Len(i.freqRes) = n + 1, i.tranEnv \in -1 .. n + 1,
           NoiseOf(i.noise, i.borders, n)
    PROVE  CheckFrameInfo(slots, over, i)
  <1> DEFINE s == i.borders
             f == i.freqRes
             w == i.noise
             t == i.tranEnv
  <1>0. /\ Rising(s, n + 2) /\ s[1] \in 0 .. over /\ s[n + 2] \in slots .. slots + over
        /\ Len(f) = n + 1 /\ t \in -1 .. n + 1 /\ NoiseOf(w, s, n)
    OBVIOUS
  <1>1. slots \in Int
    BY DEF SlotCounts
  <1>2. CheckFrameInfo(slots, over, i) =
          /\ Len(f) \in 1 .. MaxEnvelopesDecoder
          /\ s[1] \in 0 .. over /\ Last(s) \in slots .. slots + over
          /\ Ascending(s)
          /\ t <= Len(f)
          /\ <<s[1], Last(s)>> = <<w[1], Last(w)>>
          /\ Ascending(w)
          /\ \A k \in 1 .. Len(w) - 1 : w[k] \in {s[j] : j \in 1 .. Len(s) - 1}
    BY DEF CheckFrameInfo
  <1> HIDE DEF s, f, w, t
  <1>3. /\ s \in Seq(Int) /\ Len(s) = n + 2 /\ Last(s) = s[n + 2]
        /\ \A k \in 1 .. n + 1 : s[k] < s[k + 1]
        /\ \A k \in 1 .. n + 2 : s[k] \in Int
    <2>0. (n + 2) - 1 = n + 1
      OBVIOUS
    <2>1. s \in Seq(Int) /\ Len(s) = n + 2 /\ Ascending(s) /\ (n + 2) - 1 = n + 1
      BY <1>0, <2>0 DEF Rising
    <2>2. \A k \in 1 .. n + 1 : s[k] < s[k + 1]
      BY <2>1 DEF Ascending
    <2>3. Last(s) = s[n + 2]
      BY <2>1 DEF Last
    <2>4. \A k \in 1 .. n + 2 : s[k] \in Int
      BY <2>1, ElementOfSeq
    <2> QED
      BY <2>1, <2>2, <2>3, <2>4
  <1>4. Ascending(s)
    BY <1>0 DEF Rising
  <1>5. Len(f) \in 1 .. MaxEnvelopesDecoder /\ t <= Len(f)
    BY <1>0 DEF MaxEnvelopesDecoder
  <1>6. ASSUME NEW j \in 1 .. n + 2, NEW k \in 1 .. n + 2, j < k PROVE s[j] < s[k]
    <2>1. PICK m \in 1 .. 6 : m = n + 2
      OBVIOUS
    <2>2. /\ \A l \in 1 .. m : s[l] \in Int
          /\ \A l \in 1 .. m - 1 : s[l] < s[l + 1]
          /\ j \in 1 .. m /\ k \in 1 .. m
      <3>1. m - 1 = n + 1
        BY <2>1
      <3> QED
        BY <1>3, <2>1, <3>1
    <2> QED
      BY <1>6, <2>2, RisingOrder
  <1>7. /\ <<s[1], Last(s)>> = <<w[1], Last(w)>>
        /\ Ascending(w)
        /\ \A k \in 1 .. Len(w) - 1 : w[k] \in {s[j] : j \in 1 .. Len(s) - 1}
    <2>1. CASE n = 0 /\ w = <<s[1], s[n + 2]>>
      <3>1. Len(w) = 2 /\ w[1] = s[1] /\ w[2] = s[n + 2] /\ Last(w) = w[2]
        BY <2>1 DEF Last
      <3>2. s[1] < s[n + 2] /\ 1 \in 1 .. Len(s) - 1
        BY <1>3, <2>1
      <3> HIDE DEF w
      <3>3. \A k \in 1 .. Len(w) - 1 : k = 1
        BY <3>1
      <3>4. w[1] < w[1 + 1]
        BY <3>1, <3>2
      <3>5. Ascending(w)
        BY <3>3, <3>4 DEF Ascending
      <3>6. \A k \in 1 .. Len(w) - 1 : w[k] \in {s[j] : j \in 1 .. Len(s) - 1}
        BY <3>1, <3>2, <3>3
      <3> QED
        BY <1>3, <3>1, <3>5, <3>6
    <2>2. ASSUME NEW m \in 1 .. n, w = <<s[1], s[m + 1], s[n + 2]>>
          PROVE  /\ <<s[1], Last(s)>> = <<w[1], Last(w)>>
                 /\ Ascending(w)
                 /\ \A k \in 1 .. Len(w) - 1 : w[k] \in {s[j] : j \in 1 .. Len(s) - 1}
      <3>1. Len(w) = 3 /\ w[1] = s[1] /\ w[2] = s[m + 1] /\ w[3] = s[n + 2] /\ Last(w) = w[3]
        BY <2>2 DEF Last
      <3>2. /\ 1 \in 1 .. n + 2 /\ m + 1 \in 1 .. n + 2 /\ n + 2 \in 1 .. n + 2
            /\ 1 < m + 1 /\ m + 1 < n + 2
            /\ 1 \in 1 .. Len(s) - 1 /\ m + 1 \in 1 .. Len(s) - 1
        BY <1>3
      <3>3. s[1] < s[m + 1] /\ s[m + 1] < s[n + 2]
        BY <1>6, <3>2
      <3> HIDE DEF w
      <3>4. \A k \in 1 .. Len(w) - 1 : k = 1 \/ k = 2
        BY <3>1
      <3>5. w[1] < w[1 + 1] /\ w[2] < w[2 + 1]
        BY <3>1, <3>3
      <3>6. Ascending(w)
        BY <3>4, <3>5 DEF Ascending
      <3>7. \A k \in 1 .. Len(w) - 1 : w[k] \in {s[j] : j \in 1 .. Len(s) - 1}
        BY <3>1, <3>2, <3>4
      <3> QED
        BY <1>3, <3>1, <3>6, <3>7
    <2> QED
      BY <1>0, <2>1, <2>2 DEF NoiseOf
  <1> QED
    BY <1>0, <1>2, <1>3, <1>4, <1>5, <1>7

(* The pointer is wide enough for its value. *)
LEMMA PointerFits ==
    ASSUME NEW n \in 0 .. 4, NEW p \in 0 .. n + 1
    PROVE  Bits(p, PointerWidth(n)) = p
  <1> DEFINE P(k) == 2 ^ k >= n + 2 /\ (k = 0 \/ 2 ^ (k - 1) < n + 2)
             w == CHOOSE k \in 0 .. n + 2 : P(k)
  <1>1. PointerWidth(n) = w
    BY DEF PointerWidth, CeilLog2
  <1>2. /\ 2 ^ 0 = 1 /\ 2 ^ 1 = 2 /\ 2 ^ 2 = 4 /\ 2 ^ 3 = 8
    OBVIOUS
  <1>3. \E k \in 0 .. n + 2 : P(k)
    <2>1. n \in 0 .. 0 => P(1)
      BY <1>2
    <2>2. n \in 1 .. 2 => P(2)
      BY <1>2
    <2>3. n \in 3 .. 4 => P(3)
      BY <1>2
    <2> HIDE DEF P
    <2> QED
      BY <2>1, <2>2, <2>3
  <1> HIDE DEF P
  <1>4. w \in 0 .. n + 2 /\ P(w)
    BY <1>3
  <1> HIDE DEF w
  <1>5. 2 ^ w \in Int /\ 2 ^ w >= n + 2
    BY <1>4 DEF P
  <1> DEFINE e == 2 ^ w
  <1>6. e \in Int /\ e >= n + 2
    BY <1>5
  <1>7. Bits(p, PointerWidth(n)) = p % e
    BY <1>1 DEF Bits
  <1> HIDE DEF e
  <1> QED
    BY <1>6, <1>7

(* The decoder gets every field but the odd slots of the distances. *)
LEMMA FieldsKept ==
    ASSUME NEW slots \in SlotCounts, NEW g, VariableGrid(slots, g)
    PROVE  LET b == EncodeSbrGrid(slots, g)
           IN  /\ b.class = g.class /\ b.p = g.p /\ b.freq = g.freq
               /\ g.class # "FIXVAR" => b.left = g.left
               /\ g.class # "VARFIX" => b.right + slots = g.right
               /\ Distances(b.relLeft) = Rounded(g.relLeft)
               /\ Distances(b.relRight) = Rounded(g.relRight)
               /\ b.count = <<Len(b.relLeft), Len(b.relRight)>>
  <1> DEFINE b == EncodeSbrGrid(slots, g)
             nl == Len(g.relLeft)
             nr == Len(g.relRight)
  <1>1. nl \in 0 .. 3 /\ nr \in 0 .. 3 /\ nl + nr \in 0 .. 4 /\ g.p \in 0 .. (nl + nr) + 1
    BY DEF VariableGrid, IsRel, MaxNumRel
  <1>2. Len(RelBits(g.relLeft)) = nl /\ Len(RelBits(g.relRight)) = nr
    BY <1>1 DEF RelBits
  <1>3. \A x \in 0 .. 3 : Bits(x, 2) = x
    <2>1. 2 ^ 2 = 4
      OBVIOUS
    <2> QED
      BY <2>1 DEF Bits
  <1>4. g.class # "FIXFIX"
    BY DEF VariableGrid
  <1>5. /\ b.class = g.class /\ b.freq = g.freq
        /\ b.left = Bits(g.left, 2) /\ b.right = Bits(g.right - slots, 2)
        /\ b.count = <<Bits(nl, 2), Bits(nr, 2)>>
        /\ b.relLeft = RelBits(g.relLeft) /\ b.relRight = RelBits(g.relRight)
        /\ b.p = Bits(g.p, PointerWidth(nl + nr))
    BY <1>4 DEF EncodeSbrGrid
  <1> HIDE DEF b, nl, nr
  <1>6. b.p = g.p
    <2>1. PICK n \in 0 .. 4 : n = nl + nr
      BY <1>1
    <2> QED
      BY <1>1, <1>5, <2>1, PointerFits
  <1>7. g.class # "FIXVAR" => b.left = g.left
    BY <1>3, <1>5 DEF VariableGrid
  <1>8. g.class # "VARFIX" => b.right + slots = g.right
    <2>1. g.class # "VARFIX" => g.right - slots \in 0 .. 3 /\ g.right \in Int /\ slots \in Int
      BY DEF VariableGrid, SlotCounts
    <2> QED
      BY <1>3, <1>5, <2>1
  <1>9. b.count = <<Len(b.relLeft), Len(b.relRight)>>
    BY <1>1, <1>2, <1>3, <1>5
  <1> QED
    BY <1>5, <1>6, <1>7, <1>8, <1>9 DEF Rounded, b

(* What the decoder makes of a grid: accepted, from the slot to the slot it *)
(* was laid, with the envelopes and resolutions it was laid with; in frames *)
(* of 2048 samples the borders themselves.                                  *)
ReadAsLaid(slots, i, x) ==
    /\ x.valid /\ x.freqRes = i.freqRes
    /\ x.borders[1] = i.borders[1] /\ Last(x.borders) = Last(i.borders)
    /\ i.shortEnv = Max({x.tranEnv, 0})
    /\ slots = 16 => x.borders = i.borders /\ x.noise = i.noise

(* The frame info of n + 1 envelopes. *)
LaidInfo(slots, n, i) ==
    /\ Rising(i.borders, n + 2)
    /\ i.borders[1] \in 0 .. 3 /\ Last(i.borders) \in slots .. slots + 3
    /\ Len(i.freqRes) = n + 1 /\ i.shortEnv \in 0 .. n + 1
    /\ NoiseOf(i.noise, i.borders, n)

(* A grid of variable borders is laid out in order and read as it was laid. *)
LEMMA Transmitted ==
    ASSUME NEW slots \in SlotCounts, NEW g, VariableGrid(slots, g)
    PROVE  LET n == Len(g.relLeft) + Len(g.relRight)
               i == CtrlSignal2FrameInfo(slots, g)
           IN  /\ n \in 0 .. 4 /\ LaidInfo(slots, n, i)
               /\ i.borders = BordersOf(slots, g, g.relLeft, g.relRight)
               /\ i.borders[1] = (IF g.class = "FIXVAR" THEN 0 ELSE g.left)
               /\ Last(i.borders) = (IF g.class = "VARFIX" THEN slots ELSE g.right)
               /\ i.shortEnv = (IF g.class = "VARFIX" THEN 0 ELSE n + 2 - g.p)
               /\ ReadAsLaid(slots, i, ExtractFrameInfo(slots, FALSE, EncodeSbrGrid(slots, g)))
  <1> DEFINE n == Len(g.relLeft) + Len(g.relRight)
             i == CtrlSignal2FrameInfo(slots, g)
             b == EncodeSbrGrid(slots, g)
             x == ExtractVariable(slots, b)
             laid == BordersOf(slots, g, g.relLeft, g.relRight)
             read == BordersOf(slots, g, Rounded(g.relLeft), Rounded(g.relRight))
             f == IF g.class = "FIXVAR" THEN Reverse(g.freq) ELSE g.freq
             short == IF g.class = "VARFIX" THEN 0 ELSE n + 2 - g.p
             tranEnv == IF g.class = "VARFIX" THEN -1 ELSE n + 2 - g.p
             m == IF g.class = "VARFIX" /\ g.p = 0 THEN 1
                  ELSE IF g.p = 1 THEN n ELSE n + 2 - g.p
             Noise(s) == IF n = 0 THEN <<s[1], s[n + 2]>> ELSE <<s[1], s[m + 1], s[n + 2]>>
  <1>1. /\ n \in 0 .. 4 /\ g.p \in 0 .. n + 1 /\ slots \in Int
        /\ g.class \in {"FIXVAR", "VARFIX", "VARVAR"}
        /\ g.class # "VARFIX" => g.p >= 1
        /\ g.class = "VARFIX" => g.p <= 1
        /\ Len(g.freq) = n + 1 /\ g.freq \in Seq({FreqResLow, FreqResHigh})
    <2>1. /\ n \in 0 .. 4 /\ g.p \in 0 .. n + 1
          /\ g.class \in {"FIXVAR", "VARFIX", "VARVAR"}
          /\ g.class # "VARFIX" => g.p >= 1
          /\ g.class = "VARFIX" => g.p <= 1
      BY DEF VariableGrid
    <2>2. Len(g.freq) = n + 1 /\ g.freq \in Seq({FreqResLow, FreqResHigh})
      BY DEF VariableGrid
    <2>3. slots \in Int
      BY DEF SlotCounts
    <2> QED
      BY <2>1, <2>2, <2>3
  <1>2. /\ Rising(laid, n + 2) /\ Rising(read, n + 2)
        /\ read[1] = laid[1] /\ laid[1] \in 0 .. 3
        /\ laid[1] = (IF g.class = "FIXVAR" THEN 0 ELSE g.left)
        /\ read[n + 2] = laid[n + 2] /\ laid[n + 2] \in slots .. slots + 3
        /\ laid[n + 2] = (IF g.class = "VARFIX" THEN slots ELSE g.right)
        /\ slots = 16 => read = laid
    BY VariableBorders
  <1>3. /\ b.class = g.class /\ b.p = g.p /\ b.freq = g.freq
        /\ g.class # "FIXVAR" => b.left = g.left
        /\ g.class # "VARFIX" => b.right + slots = g.right
        /\ Distances(b.relLeft) = Rounded(g.relLeft)
        /\ Distances(b.relRight) = Rounded(g.relRight)
        /\ b.count = <<Len(b.relLeft), Len(b.relRight)>>
    BY FieldsKept
  <1> HIDE DEF b, laid, read, n
  <1>4. Len(laid) = n + 2 /\ Len(read) = n + 2
    BY <1>2 DEF Rising
  <1>5. Len(f) = n + 1
    <2>1. Len(Reverse(g.freq)) = n + 1
      BY <1>1 DEF Reverse
    <2> QED
      BY <1>1, <2>1
  <1>6. /\ i.borders = laid /\ i.freqRes = f /\ i.shortEnv = short
        /\ i.noise = Noise(laid)
    <2> DEFINE nEnv == Len(laid) - 1
               sh == IF g.class = "VARFIX"
                     THEN IF g.p <= 1 THEN 0 ELSE g.p - 1
                     ELSE IF g.p = 0 THEN 0 ELSE nEnv + 1 - g.p
               ends == <<laid[1], laid[nEnv + 1]>>
    <2>1. /\ i.borders = laid /\ i.freqRes = f /\ i.shortEnv = sh
          /\ i.noise = (IF nEnv = 1 THEN ends
                      ELSE <<ends[1], laid[NoiseBorder(g.class, g.p, nEnv, sh) + 1],
                             ends[2]>>)
      BY DEF CtrlSignal2FrameInfo, laid, BordersOf
    <2>2. nEnv = n + 1 /\ nEnv + 1 = n + 2
      BY <1>1, <1>4
    <2> HIDE DEF nEnv
    <2>3. sh = short
      BY <1>1, <2>2
    <2>4. n # 0 => NoiseBorder(g.class, g.p, nEnv, sh) = m
      BY <1>1, <2>2, <2>3 DEF NoiseBorder
    <2> HIDE DEF sh, m, i, f
    <2>5. ends[1] = laid[1] /\ ends[2] = laid[n + 2]
      BY <2>2
    <2> HIDE DEF ends
    <2>6. ends = <<laid[1], laid[n + 2]>>
      BY <2>2 DEF ends
    <2>7. (nEnv = 1) = (n = 0)
      BY <1>1, <2>2
    <2> QED
      BY <2>1, <2>3, <2>4, <2>5, <2>6, <2>7
  <1>7. /\ x.valid /\ x.borders = read /\ x.freqRes = f /\ x.tranEnv = tranEnv
        /\ x.noise = Noise(read)
    <2> DEFINE left == IF b.class = "FIXVAR" THEN <<0>> ELSE After(b.left, Distances(b.relLeft))
               right == IF b.class = "VARFIX" THEN <<slots>>
                        ELSE Before(b.right + slots, Distances(b.relRight))
               borders == left \o right
               k == Len(borders) - 2
               te == CASE b.p = 0 \/ (b.class = "VARFIX" /\ b.p = 1) -> -1
                       [] b.class = "VARFIX" /\ b.p > 1 -> b.p - 1
                       [] OTHER              -> k + 2 - b.p
               middle == CASE b.class = "VARFIX" /\ b.p = 0 -> 1
                           [] b.p = 1 \/ (b.p = 0 /\ b.class # "VARFIX") -> k
                           [] OTHER                         -> te
               ends == <<borders[1], borders[k + 2]>>
    <2>1. /\ x.valid = (/\ b.p <= k + 1 /\ k + 1 <= MaxEnvelopesDecoder
                        /\ b.count = <<Len(b.relLeft), Len(b.relRight)>>)
          /\ x.borders = borders
          /\ x.freqRes = (IF b.class = "FIXVAR" THEN Reverse(b.freq) ELSE b.freq)
          /\ x.tranEnv = te
          /\ x.noise = (IF k = 0 THEN ends ELSE <<ends[1], borders[middle + 1], ends[2]>>)
      BY DEF ExtractVariable
    <2>2. borders = read
      BY <1>1, <1>3 DEF read, BordersOf
    <2> HIDE DEF borders
    <2>3. k = n /\ k \in Int
      BY <1>1, <1>4, <2>2
    <2> HIDE DEF k
    <2>4. te = tranEnv
      BY <1>1, <1>3, <2>3
    <2>5. n # 0 => middle = m
      BY <1>1, <1>3, <2>3, <2>4
    <2>6. x.valid
      BY <1>1, <1>3, <2>1, <2>3 DEF MaxEnvelopesDecoder
    <2>7. x.freqRes = f
      BY <1>3, <2>1
    <2> HIDE DEF te, middle, x, f, m
    <2>8. ends[1] = read[1] /\ ends[2] = read[n + 2] /\ ends = <<read[1], read[n + 2]>>
      BY <2>2, <2>3
    <2> HIDE DEF ends
    <2>9. x.noise = Noise(read)
      BY <2>1, <2>2, <2>3, <2>5, <2>8
    <2> QED
      BY <2>1, <2>2, <2>4, <2>6, <2>7, <2>9
  <1>8. n # 0 => m \in 1 .. n
    BY <1>1
  <1>9. NoiseOf(Noise(laid), laid, n) /\ NoiseOf(Noise(read), read, n)
    <2> HIDE DEF m
    <2>1. CASE n = 0
      BY <2>1 DEF NoiseOf
    <2>2. CASE n # 0
      BY <1>8, <2>2 DEF NoiseOf
    <2> QED
      BY <2>1, <2>2
  <1>10. short \in 0 .. n + 1 /\ tranEnv \in -1 .. n + 1 /\ short = Max({tranEnv, 0})
    <2>1. tranEnv \in Int
      BY <1>1
    <2>2. Max({tranEnv, 0}) = IF tranEnv >= 0 THEN tranEnv ELSE 0
      BY <2>1, MaxOfTwo
    <2> QED
      BY <1>1, <2>2
  <1>11. LaidInfo(slots, n, i)
    <2> HIDE DEF i, f, short, Noise
    <2>1. Last(i.borders) = laid[n + 2]
      BY <1>4, <1>6 DEF Last
    <2> QED
      BY <1>2, <1>5, <1>6, <1>9, <1>10, <2>1 DEF LaidInfo
  <1>12. ExtractFrameInfo(slots, FALSE, b) = x
    <2>1. Extract(slots, b) = x
      BY <1>1, <1>3 DEF Extract
    <2>2. Overlap(FALSE) = 3
      BY DEF Overlap
    <2> HIDE DEF x, f, tranEnv, Noise
    <2> DEFINE over == 3
    <2>3. over \in 0 .. 3 /\ over = 3
      OBVIOUS
    <2> HIDE DEF over, read, laid
    <2>4. /\ Rising(x.borders, n + 2)
          /\ x.borders[1] \in 0 .. over /\ x.borders[n + 2] \in slots .. slots + over
          /\ Len(x.freqRes) = n + 1 /\ x.tranEnv \in -1 .. n + 1
          /\ NoiseOf(x.noise, x.borders, n)
      BY <1>2, <1>5, <1>7, <1>9, <1>10, <2>3
    <2>5. CheckFrameInfo(slots, over, x)
      BY <1>1, <2>3, <2>4, Accepted
    <2> QED
      BY <1>7, <2>1, <2>2, <2>3, <2>5 DEF ExtractFrameInfo
  <1>13. ReadAsLaid(slots, i, x)
    <2> HIDE DEF i, x, f, short, tranEnv
    <2>1. Last(i.borders) = laid[n + 2] /\ Last(x.borders) = read[n + 2]
      BY <1>4, <1>6, <1>7 DEF Last
    <2>2. slots = 16 => Noise(read) = Noise(laid)
      BY <1>2
    <2> HIDE DEF Noise
    <2> QED
      BY <1>2, <1>6, <1>7, <1>10, <2>1, <2>2 DEF ReadAsLaid
  <1>14. Last(i.borders) = laid[n + 2]
    BY <1>4, <1>6 DEF Last
  <1>15. i.borders = laid /\ i.shortEnv = short
    BY <1>6
  <1> HIDE DEF i, x
  <1>16. ReadAsLaid(slots, i, ExtractFrameInfo(slots, FALSE, b))
    BY <1>12, <1>13
  <1>17. /\ i.borders[1] = (IF g.class = "FIXVAR" THEN 0 ELSE g.left)
         /\ Last(i.borders) = (IF g.class = "VARFIX" THEN slots ELSE g.right)
    BY <1>2, <1>14, <1>15
  <1> QED
    BY <1>1, <1>11, <1>15, <1>16, <1>17 DEF b, laid, n, i

-----------------------------------------------------------------------------
(* The design: a head, the borders of the transient, the fill borders *)

(* The two resolutions of frequency. *)
Res == {FreqResLow, FreqResHigh}

(* The first border at a slot or later. *)
LEMMA FirstFromIs ==
    ASSUME NEW s \in Seq(Int), NEW m \in 1 .. Len(s), NEW slot \in Int, s[m] >= slot,
           \A j \in 1 .. m - 1 : s[j] < slot
    PROVE  FirstFrom(s, slot) = m
  <1> DEFINE I == {i \in 1 .. Len(s) : s[i] >= slot}
  <1>1. FirstFrom(s, slot) = IF I # {} THEN Min(I) ELSE 0
    BY DEF FirstFrom, SelectInSeq
  <1>2. m \in I
    OBVIOUS
  <1>3. ASSUME NEW i \in I PROVE m <= i
    <2>1. i \in 1 .. Len(s) /\ s[i] \in Int /\ s[i] >= slot /\ Len(s) \in Nat
      BY ElementOfSeq, LenProperties
    <2>2. i \in 1 .. m - 1 => s[i] < slot
      OBVIOUS
    <2> QED
      BY <2>1, <2>2
  <1>4. \A i \in I : i \in Int
    OBVIOUS
  <1> HIDE DEF I
  <1>5. Min(I) = m
    <2> DEFINE P(x) == \A y \in I : x <= y
    <2>1. P(m)
      BY <1>3
    <2>2. ASSUME NEW x \in I, P(x) PROVE x = m
      <3>1. x <= m
        BY <1>2, <2>2
      <3> QED
        BY <1>3, <1>4, <3>1
    <2>3. Min(I) = CHOOSE x \in I : P(x)
      BY DEF Min
    <2> HIDE DEF P
    <2> QED
      BY <1>2, <2>1, <2>2, <2>3
  <1> QED
    BY <1>1, <1>2, <1>5

(* A sequence of n elements of S, and one made of two others. *)
Elements(S, s, n) == n \in Nat /\ s \in Seq(S) /\ Len(s) = n

MadeOf(u, s, m, t, n) ==
    (\A i \in 1 .. m : u[i] = s[i]) /\ (\A i \in 1 .. n : u[m + i] = t[i])

(* The elements of two sequences in a row. *)
LEMMA JoinSeqs ==
    ASSUME NEW S, NEW s, NEW t, NEW m, NEW n, Elements(S, s, m), Elements(S, t, n)
    PROVE  Elements(S, s \o t, m + n) /\ MadeOf(s \o t, s, m, t, n)
  <1> DEFINE u == s \o t
  <1>1. m \in Nat /\ n \in Nat /\ s \in Seq(S) /\ t \in Seq(S) /\ Len(s) = m /\ Len(t) = n
    BY DEF Elements
  <1>0. m \in Nat /\ n \in Nat
    BY <1>1
  <1>2. /\ u \in Seq(S) /\ Len(u) = m + n
        /\ \A i \in 1 .. m + n : u[i] = IF i <= m THEN s[i] ELSE t[i - m]
    BY <1>1, ConcatProperties
  <1> HIDE DEF u
  <1>3. /\ \A i \in 1 .. m : i \in 1 .. m + n /\ i <= m
        /\ \A i \in 1 .. n : m + i \in 1 .. m + n /\ ~(m + i <= m) /\ m + i - m = i
    BY <1>1
  <1>4. \A i \in 1 .. n : u[m + i] = t[i]
    <2> TAKE i \in 1 .. n
    <2>1. PICK j \in 1 .. m + n : j = m + i
      BY <1>3
    <2>2. ~(j <= m) /\ j - m = i
      BY <1>0, <2>1
    <2>3. u[j] = t[j - m]
      BY <1>2, <2>2
    <2> QED
      BY <2>1, <2>2, <2>3
  <1> QED
    BY <1>1, <1>2, <1>3, <1>4 DEF u, Elements, MadeOf

(* A stretch of like elements. *)
LEMMA HighIs ==
    ASSUME NEW n \in Nat
    PROVE  Elements(Res, High(n), n)
  BY DEF High, Res, Elements

(* What stands before the tail of a design: h borders. *)
IsHead(head, h) ==
    h \in 1 .. 5 /\ Elements(Int, head.bord, h) /\ Elements(Res, head.freq, h)

(* The design is the head and then the tail of the transient's borders. *)
LEMMA DesignIs ==
    ASSUME NEW slots \in SlotCounts, NEW q \in 0 .. slots - 1, NEW head, NEW h, IsHead(head, h)
    PROVE  LET d == Design(slots, q, head)
               last == TailLen(slots, q)
           IN  /\ Elements(Int, d.bord, h + last) /\ Elements(Res, d.freq, h + last)
               /\ \A i \in 1 .. h : d.bord[i] = head.bord[i]
               /\ \A i \in 1 .. last : d.bord[h + i] = TailAt(slots, q, i)
               /\ d.nL = head.nL /\ d.fills = last - 2
               /\ d.cmon = FirstFrom(d.bord, slots)
               /\ d.tran = FirstFrom(d.bord, q + FrameMiddleSlot)
  <1> DEFINE d == Design(slots, q, head)
             last == TailLen(slots, q)
             t == q + FrameMiddleSlot
             bmax == BMax(t)
             post == Division(2 * slots - bmax, CalcFillLengthMax(slots, q))
             more == [j \in 1 .. post.parts - 1 |-> bmax + j * post.s]
             two == <<t + 2, bmax>>
             v == SegmentLength(slots, q)
  <1>1. post.parts = last - 1 /\ (last > 2 => post.s = v) /\ last \in 2 .. 4 /\ v \in 3 .. 8
    <2>1. /\ post.parts = Segments(slots, q)
          /\ post.parts > 1 => post.s = SegmentLength(slots, q)
      BY PostIs
    <2>2. Segments(slots, q) \in 1 .. 3
      BY DEF Segments
    <2>3. v \in 3 .. 8
      BY DEF SegmentLength
    <2> HIDE DEF post, v
    <2> QED
      BY <2>1, <2>2, <2>3 DEF TailLen, v
  <1>2. h \in 1 .. 5 /\ Elements(Int, head.bord, h) /\ Elements(Res, head.freq, h)
    BY DEF IsHead
  <1>3. q \in Int /\ t = q + 4 /\ bmax = q + 10
    BY DEF SlotCounts, FrameMiddleSlot, BMax
  <1>4. Elements(Int, two, 2) /\ two[1] = q + 6 /\ two[2] = q + 10
    BY <1>3 DEF Elements
  <1>5. /\ d.bord = head.bord \o two \o more
        /\ d.freq = head.freq \o <<FreqResLow, FreqResHigh>> \o High(post.parts - 1)
        /\ d.nL = head.nL /\ d.fills = post.parts - 1
        /\ d.cmon = FirstFrom(d.bord, slots) /\ d.tran = FirstFrom(d.bord, t)
    BY DEF Design
  <1> HIDE DEF d, post, bmax, v, last, two, t
  <1>6. /\ Elements(Int, more, last - 2)
        /\ \A j \in 1 .. last - 2 : more[j] = q + 10 + j * v
    <2>1. more = [j \in 1 .. last - 2 |-> q + 10 + j * v]
      <3>1. (last - 1) - 1 = last - 2
        BY <1>1
      <3>2. CASE last = 2
        <4>1. 1 .. last - 2 = {}
          BY <3>2
        <4> QED
          BY <1>1, <3>1, <4>1
      <3>3. CASE last > 2
        BY <1>1, <1>3, <3>1, <3>3
      <3> QED
        BY <1>1, <3>2, <3>3
    <2> HIDE DEF more
    <2>2. \A j \in 1 .. last - 2 : q + 10 + j * v \in Int
      <3>1. \A j \in 1 .. last - 2 : j = 1 \/ j = 2
        BY <1>1
      <3>2. 1 * v = v /\ 2 * v = v + v
        BY <1>1
      <3> QED
        BY <1>1, <1>3, <3>1, <3>2
    <2>3. last - 2 \in Nat
      BY <1>1
    <2> QED
      BY <2>1, <2>2, <2>3 DEF Elements
  <1> HIDE DEF more
  <1> DEFINE a == head.bord \o two
  <1>7. /\ Elements(Int, a, h + 2)
        /\ \A i \in 1 .. h : a[i] = head.bord[i]
        /\ a[h + 1] = q + 6 /\ a[h + 2] = q + 10
    <2>1. Elements(Int, a, h + 2) /\ MadeOf(a, head.bord, h, two, 2)
      BY <1>2, <1>4, JoinSeqs
    <2>2. 1 \in 1 .. 2 /\ 2 \in 1 .. 2
      OBVIOUS
    <2> HIDE DEF a
    <2> QED
      BY <1>4, <2>1, <2>2 DEF MadeOf
  <1>8. d.bord = a \o more
    BY <1>5
  <1> HIDE DEF a
  <1>9. /\ Elements(Int, d.bord, h + last)
        /\ \A i \in 1 .. h + 2 : d.bord[i] = a[i]
        /\ \A j \in 1 .. last - 2 : d.bord[h + 2 + j] = more[j]
    <2>1. Elements(Int, a \o more, (h + 2) + (last - 2)) /\ MadeOf(a \o more, a, h + 2, more, last - 2)
      BY <1>6, <1>7, JoinSeqs
    <2>2. (h + 2) + (last - 2) = h + last
      BY <1>1, <1>2
    <2> QED
      BY <1>8, <2>1, <2>2 DEF MadeOf
  <1>10. \A i \in 1 .. h : d.bord[i] = head.bord[i]
    <2>1. \A i \in 1 .. h : i \in 1 .. h + 2
      BY <1>2
    <2> QED
      BY <1>7, <1>9, <2>1
  <1>11. \A i \in 1 .. last : d.bord[h + i] = TailAt(slots, q, i)
    <2>1. /\ d.bord[h + 1] = q + 6 /\ d.bord[h + 2] = q + 10
      <3>1. h + 1 \in 1 .. h + 2 /\ h + 2 \in 1 .. h + 2
        BY <1>2
      <3> QED
        BY <1>7, <1>9, <3>1
    <2>2. /\ last >= 3 => d.bord[h + 3] = q + 10 + v
          /\ last >= 4 => d.bord[h + 4] = q + 10 + 2 * v
      <3>1. /\ last >= 3 => 1 \in 1 .. last - 2
            /\ last >= 4 => 2 \in 1 .. last - 2
            /\ h + 2 + 1 = h + 3 /\ h + 2 + 2 = h + 4 /\ 1 * v = v
        BY <1>1, <1>2
      <3>2. /\ last >= 3 => d.bord[h + 2 + 1] = more[1] /\ more[1] = q + 10 + 1 * v
            /\ last >= 4 => d.bord[h + 2 + 2] = more[2] /\ more[2] = q + 10 + 2 * v
        BY <1>6, <1>9, <3>1
      <3> QED
        BY <3>1, <3>2
    <2>3. /\ TailAt(slots, q, 1) = q + 6 /\ TailAt(slots, q, 2) = q + 10
          /\ TailAt(slots, q, 3) = q + 10 + v /\ TailAt(slots, q, 4) = q + 10 + 2 * v
      BY <1>1, <1>3 DEF TailAt, FrameMiddleSlot, v
    <2>4. \A i \in 1 .. last : i = 1 \/ i = 2 \/ (i = 3 /\ last >= 3) \/ (i = 4 /\ last >= 4)
      BY <1>1
    <2> QED
      BY <2>1, <2>2, <2>3, <2>4
  <1>12. Elements(Res, d.freq, h + last)
    <2> DEFINE lh == <<FreqResLow, FreqResHigh>>
               k == post.parts - 1
               w == head.freq \o lh
    <2>1. Elements(Res, lh, 2)
      BY DEF Res, Elements
    <2>2. k \in Nat /\ k = last - 2
      BY <1>1
    <2> HIDE DEF lh, k
    <2>3. Elements(Res, High(k), k)
      BY <2>2, HighIs
    <2>4. Elements(Res, w, h + 2)
      BY <1>2, <2>1, JoinSeqs
    <2>5. d.freq = w \o High(k)
      BY <1>5 DEF lh, k
    <2> HIDE DEF w
    <2>6. Elements(Res, w \o High(k), (h + 2) + k)
      BY <2>3, <2>4, JoinSeqs
    <2>7. (h + 2) + k = h + last
      BY <1>1, <1>2, <2>2
    <2> QED
      BY <2>5, <2>6, <2>7
  <1>13. d.fills = last - 2
    BY <1>1, <1>5
  <1> QED
    BY <1>5, <1>9, <1>10, <1>11, <1>12, <1>13 DEF d, last, t

(* A head of h borders of which those from number r on belong to the new     *)
(* transient: its own, perhaps a fill border before it, or none when it gave *)
(* way to a border of the follow-up.                                         *)
GoodHead(slots, q, head, h, r) ==
    /\ IsHead(head, h) /\ r \in 1 .. h + 1 /\ r >= h - 1
    /\ r <= h => head.bord[h] = q + FrameMiddleSlot
    /\ r = h - 1 => q >= 9 /\ head.bord[h] - head.bord[r] \in {6, 8}
    /\ r = h + 1 => h = 1 /\ q <= 2 /\ head.bord[1] < 4
    /\ \A i \in 1 .. h - 1 : head.bord[i] < slots /\ head.bord[i] < q + FrameMiddleSlot

(* Distances that fit the bitstream: 2 to 8 slots, even in frames of 2048    *)
(* samples.                                                                 *)
Fits(slots, s, a, z) ==
    \A k \in a .. z - 1 : /\ s[k + 1] - s[k] \in 2 .. 8
                          /\ slots = 16 => (s[k + 1] - s[k]) % 2 = 0

(* The borders of a design on that head: from r on its distances fit the    *)
(* bitstream, from h on they are the tail, and the frame ends in the tail.  *)
Designed(slots, q, head, d, h, r) ==
    LET e == FrameEnd(slots, q)
        last == TailLen(slots, q)
    IN  /\ Elements(Int, d.bord, h + last) /\ Elements(Res, d.freq, h + last)
        /\ d.nL = head.nL /\ d.fills = last - 2
        /\ d.cmon = h + e /\ d.tran = (IF r = h + 1 THEN 2 ELSE h)
        /\ r = h + 1 => e = 3
        /\ \A i \in 1 .. h : d.bord[i] = head.bord[i]
        /\ \A i \in 0 .. last : r <= h \/ i > 0 => d.bord[h + i] = TailAt(slots, q, i)
        /\ Fits(slots, d.bord, r, h + last)

(* Every good head gets such a design. *)
LEMMA DesignOnHead ==
    ASSUME NEW slots \in SlotCounts, NEW q \in 0 .. slots - 1, NEW head, NEW h, NEW r,
           GoodHead(slots, q, head, h, r)
    PROVE  Designed(slots, q, head, Design(slots, q, head), h, r)
  <1> DEFINE d == Design(slots, q, head)
             e == FrameEnd(slots, q)
             last == TailLen(slots, q)
             at(i) == TailAt(slots, q, i)
             t == q + FrameMiddleSlot
             b == d.bord
  <1>0. slots \in 15 .. 16 /\ q \in 0 .. 15 /\ t = q + 4 /\ t \in 4 .. 19
    BY DEF SlotCounts, FrameMiddleSlot
  <1>1. /\ IsHead(head, h) /\ h \in 1 .. 5 /\ r \in 1 .. h + 1 /\ r >= h - 1
        /\ r <= h => head.bord[h] = t
        /\ r = h - 1 => q >= 9 /\ head.bord[h] - head.bord[r] \in {6, 8}
        /\ r = h + 1 => h = 1 /\ q <= 2 /\ head.bord[1] < 4
        /\ \A i \in 1 .. h - 1 : head.bord[i] < slots /\ head.bord[i] < t
    BY DEF GoodHead, IsHead
  <1>2. /\ last \in 2 .. 4 /\ e \in 0 .. 3 /\ last - e \in 0 .. 2
        /\ \A i \in 0 .. last : at(i) \in 4 .. slots + 9
        /\ \A i \in 0 .. last - 1 : /\ at(i + 1) - at(i) \in 2 .. 8
                                    /\ slots = 16 => (at(i + 1) - at(i)) % 2 = 0
        /\ at(e) \in slots .. slots + 3
        /\ e > 0 => at(e - 1) < slots
    BY TailFacts
  <1>3. /\ Elements(Int, b, h + last) /\ Elements(Res, d.freq, h + last)
        /\ \A i \in 1 .. h : b[i] = head.bord[i]
        /\ \A i \in 1 .. last : b[h + i] = at(i)
        /\ d.nL = head.nL /\ d.fills = last - 2
        /\ d.cmon = FirstFrom(b, slots) /\ d.tran = FirstFrom(b, t)
    BY <1>1, DesignIs
  <1>4. r = h + 1 => e = 3
    BY <1>0, <1>1 DEF FrameEnd
  <1>5. at(0) = t /\ at(1) = t + 2 /\ e <= last
    BY <1>0, <1>2 DEF TailAt
  <1> HIDE DEF d, e, last, at, t, b
  <1>6. b \in Seq(Int) /\ Len(b) = h + last /\ \A k \in 1 .. h + last : b[k] \in Int
    <2>1. b \in Seq(Int) /\ Len(b) = h + last
      BY <1>3 DEF Elements
    <2> QED
      BY <2>1, ElementOfSeq
  <1>7. \A i \in 0 .. last : r <= h \/ i > 0 => b[h + i] = at(i)
    <2> TAKE i \in 0 .. last
    <2>1. CASE i = 0
      <3>1. h + 0 = h /\ h \in 1 .. h /\ ~(i > 0)
        BY <1>1, <2>1
      <3> QED
        BY <1>1, <1>3, <1>5, <2>1, <3>1
    <2>2. CASE i # 0
      <3>1. i \in 1 .. last
        BY <1>2, <2>2
      <3> QED
        BY <1>3, <3>1
    <2> QED
      BY <2>1, <2>2
  <1>8. \A i \in 0 .. last - 1 : at(i) < at(i + 1) /\ at(i) \in Int
    <2> TAKE i \in 0 .. last - 1
    <2>1. i \in 0 .. last /\ i + 1 \in 0 .. last
      BY <1>2
    <2>2. at(i) \in Int /\ at(i + 1) \in Int
      BY <1>0, <1>2, <2>1
    <2> QED
      BY <1>2, <2>2
  <1>9. \A i \in 0 .. last : i < e => at(i) < slots
    <2>1. /\ e >= 1 => at(0) < at(1)
          /\ e >= 2 => at(1) < at(2)
          /\ e >= 3 => at(2) < at(3)
      <3>1. /\ e >= 1 => 0 \in 0 .. last - 1
            /\ e >= 2 => 1 \in 0 .. last - 1
            /\ e >= 3 => 2 \in 0 .. last - 1
            /\ 0 + 1 = 1 /\ 1 + 1 = 2 /\ 2 + 1 = 3
        BY <1>2, <1>5
      <3> QED
        BY <1>8, <3>1
    <2>2. /\ at(0) \in Int /\ (e >= 1 => at(1) \in Int) /\ (e >= 2 => at(2) \in Int)
          /\ 1 - 1 = 0 /\ 2 - 1 = 1 /\ 3 - 1 = 2
      <3>1. 0 \in 0 .. last - 1 /\ (e >= 2 => 1 \in 0 .. last - 1) /\ (e >= 3 => 2 \in 0 .. last - 1)
            /\ (e >= 1 => 1 \in 0 .. last) /\ (e >= 2 => 2 \in 0 .. last)
        BY <1>2, <1>5
      <3> QED
        BY <1>0, <1>2, <3>1
    <2>3. /\ e = 1 => at(0) < slots
          /\ e = 2 => at(1) < slots /\ at(0) < slots
          /\ e = 3 => at(2) < slots /\ at(1) < slots /\ at(0) < slots
      BY <1>0, <1>2, <2>1, <2>2
    <2>4. \A i \in 0 .. last : i < e => (i = 0 /\ e \in 1 .. 3) \/ (i = 1 /\ e \in 2 .. 3) \/ (i = 2 /\ e = 3)
      BY <1>2
    <2> QED
      BY <2>3, <2>4
  <1>10. d.cmon = h + e
    <2>1. PICK m \in 1 .. h + last : m = h + e
      <3>1. h + e \in 1 .. h + last
        BY <1>1, <1>2, <1>5
      <3> QED
        BY <3>1
    <2>2. b[m] >= slots
      <3>1. e \in 0 .. last /\ (r <= h \/ e > 0)
        BY <1>1, <1>2, <1>4, <1>5
      <3>2. b[h + e] = at(e)
        BY <1>7, <3>1
      <3> QED
        BY <1>0, <1>2, <2>1, <3>2
    <2>3. ASSUME NEW j \in 1 .. m - 1 PROVE b[j] < slots
      <3>1. CASE j < h
        <4>1. j \in 1 .. h - 1 /\ j \in 1 .. h
          BY <1>1, <3>1
        <4> QED
          BY <1>1, <1>3, <4>1
      <3>2. CASE j >= h
        <4>1. PICK i \in 0 .. last : j = h + i /\ i < e
          <5>1. j - h \in 0 .. last /\ j = h + (j - h) /\ j - h < e
            BY <1>1, <1>2, <1>5, <2>1, <3>2
          <5> QED
            BY <5>1
        <4>2. CASE r <= h \/ i > 0
          <5>1. b[j] = at(i)
            BY <1>7, <4>1, <4>2
          <5> QED
            BY <1>9, <4>1, <5>1
        <4>3. CASE r = h + 1 /\ i = 0
          <5>1. j = h /\ h = 1 /\ h \in 1 .. h /\ head.bord[1] < 4
            BY <1>1, <4>1, <4>3
          <5>2. b[j] < 4 /\ b[j] \in Int
            BY <1>3, <1>6, <5>1, <2>1
          <5> QED
            BY <1>0, <5>2
        <4> QED
          BY <1>1, <4>2, <4>3
      <3> QED
        BY <1>1, <2>1, <3>1, <3>2
    <2>4. FirstFrom(b, slots) = m
      <3>1. m \in 1 .. Len(b) /\ slots \in Int
        BY <1>0, <1>6
      <3> QED
        BY <1>6, <2>2, <2>3, <3>1, FirstFromIs
    <2> QED
      BY <1>3, <2>1, <2>4
  <1>11. d.tran = IF r = h + 1 THEN 2 ELSE h
    <2>1. t \in Int
      BY <1>0
    <2>2. CASE r = h + 1
      <3>1. h = 1 /\ head.bord[1] < 4 /\ 1 \in 1 .. last /\ 1 \in 1 .. h /\ h + 1 = 2
        BY <1>1, <1>2, <2>2
      <3>2. b[2] = t + 2 /\ b[1] < 4 /\ b[1] \in Int
        <4>1. b[h + 1] = at(1)
          BY <1>3, <3>1
        <4>2. 1 \in 1 .. h + last
          BY <1>1, <1>2
        <4> QED
          BY <1>3, <1>5, <1>6, <3>1, <4>1, <4>2
      <3>3. 2 \in 1 .. Len(b)
        BY <1>2, <1>6, <3>1
      <3>4. b[2] >= t /\ \A j \in 1 .. 2 - 1 : b[j] < t
        BY <1>0, <3>2
      <3>5. FirstFrom(b, t) = 2
        BY <1>6, <2>1, <3>3, <3>4, FirstFromIs
      <3> QED
        BY <1>3, <2>2, <3>5
    <2>3. CASE r # h + 1
      <3>1. h \in 1 .. Len(b) /\ r <= h /\ h \in 1 .. h
        BY <1>1, <1>2, <1>6, <2>3
      <3>2. b[h] >= t
        BY <1>0, <1>1, <1>3, <3>1
      <3>3. \A j \in 1 .. h - 1 : b[j] < t
        <4>1. \A j \in 1 .. h - 1 : j \in 1 .. h
          BY <1>1
        <4> QED
          BY <1>1, <1>3, <4>1
      <3>4. FirstFrom(b, t) = h
        BY <1>6, <2>1, <3>1, <3>2, <3>3, FirstFromIs
      <3> QED
        BY <1>3, <2>3, <3>4
    <2> QED
      BY <2>2, <2>3
  <1>12. ASSUME NEW k \in r .. (h + last) - 1
         PROVE  /\ b[k + 1] - b[k] \in 2 .. 8
                /\ slots = 16 => (b[k + 1] - b[k]) % 2 = 0
    <2>1. CASE k < h
      <3>1. k = r /\ r = h - 1 /\ k + 1 = h /\ h \in 1 .. h /\ r \in 1 .. h
        BY <1>1, <2>1
      <3>2. b[k + 1] - b[k] \in {6, 8}
        BY <1>1, <1>3, <3>1
      <3> QED
        BY <3>2
    <2>2. CASE k >= h
      <3>1. PICK i \in 0 .. last - 1 : k = h + i
        <4>1. k - h \in 0 .. last - 1 /\ k = h + (k - h)
          BY <1>1, <1>2, <2>2
        <4> QED
          BY <4>1
      <3>2. i \in 0 .. last /\ i + 1 \in 0 .. last /\ k + 1 = h + (i + 1) /\ i + 1 > 0
            /\ (r <= h \/ i > 0)
        BY <1>1, <1>2, <3>1
      <3>3. b[h + i] = at(i) /\ b[h + (i + 1)] = at(i + 1)
        BY <1>7, <3>2
      <3>4. b[k] = at(i) /\ b[k + 1] = at(i + 1)
        BY <3>1, <3>2, <3>3
      <3> QED
        BY <1>2, <3>4
    <2> QED
      BY <1>1, <1>2, <2>1, <2>2
  <1> QED
    BY <1>3, <1>4, <1>7, <1>10, <1>11, <1>12 DEF Designed, Fits, d, e, last, at, t, b

(* The distances of the borders from a to z, and the way back to them.      *)
PartOfBorders(slots, s, R, a, z) ==
    /\ Elements(Int, R, z - a + 1) /\ R[1] = s[a] /\ R[z - a + 1] = s[z]
    /\ IsRel(Steps(R)) /\ Len(Steps(R)) = z - a
    /\ IsRel(Reverse(Steps(R))) /\ Len(Reverse(Steps(R))) = z - a
    /\ After(s[a], Steps(R)) = R
    /\ Before(s[z], Reverse(Steps(R))) = R
    /\ slots = 16 => EvenRel(Steps(R)) /\ EvenRel(Reverse(Steps(R)))

(* The distances of consecutive borders are what the decoder needs to reach *)
(* them from either end.                                                    *)
LEMMA PartSteps ==
    ASSUME NEW slots, NEW n, NEW s, Elements(Int, s, n), NEW a \in 1 .. n, NEW z \in a .. n,
           z - a \in 0 .. 3, Fits(slots, s, a, z)
    PROVE  PartOfBorders(slots, s, SubSeq(s, a, z), a, z)
  <1> DEFINE R == SubSeq(s, a, z)
             m == z - a + 1
  <1>1. n \in Nat /\ s \in Seq(Int) /\ Len(s) = n
    BY DEF Elements
  <1>2. n \in Nat
    BY <1>1
  <1>3. a \in Int /\ z \in Int /\ a <= z /\ m \in 1 .. 4 /\ m = z - a + 1
    BY <1>2
  <1>4. \A i \in a .. z : s[i] \in Int
    <2>1. \A i \in a .. z : i \in 1 .. n
      BY <1>2
    <2> QED
      BY <1>1, <2>1, ElementOfSeq
  <1>5. /\ R \in Seq(Int) /\ Len(R) = m /\ \A i \in 1 .. m : R[i] = s[a + i - 1]
    BY <1>3, <1>4, SubSeqProperties
  <1> HIDE DEF R, m
  <1>6. R[1] = s[a] /\ R[m] = s[z]
    <2>1. 1 \in 1 .. m /\ m \in 1 .. m /\ a + 1 - 1 = a /\ a + m - 1 = z
      BY <1>3
    <2>2. R[1] = s[a + 1 - 1] /\ R[m] = s[a + m - 1]
      BY <1>5, <2>1
    <2> QED
      BY <2>1, <2>2
  <1>7. \A k \in 1 .. m - 1 : /\ R[k + 1] - R[k] \in 2 .. 8
                              /\ slots = 16 => (R[k + 1] - R[k]) % 2 = 0
    <2> TAKE k \in 1 .. m - 1
    <2>1. PICK j \in a .. z - 1 : j = a + k - 1
      <3>1. a + k - 1 \in a .. z - 1
        BY <1>3
      <3> QED
        BY <3>1
    <2>2. k \in 1 .. m /\ k + 1 \in 1 .. m /\ a + (k + 1) - 1 = j + 1
      BY <1>3, <2>1
    <2>3. R[k] = s[j]
      BY <1>5, <2>1, <2>2
    <2>4. PICK i \in 1 .. m : i = k + 1
      BY <2>2
    <2>5. R[i] = s[a + i - 1] /\ a + i - 1 = j + 1
      BY <1>5, <2>2, <2>4
    <2>6. R[k + 1] = s[j + 1]
      BY <2>4, <2>5
    <2> QED
      BY <2>3, <2>6 DEF Fits
  <1>8. m - 1 = z - a
    BY <1>3
  <1>9. Len(R) \in 1 .. MaxNumRel + 1 /\ Len(R) - 1 = m - 1
    BY <1>3, <1>5 DEF MaxNumRel
  <1>10. /\ IsRel(Steps(R)) /\ Len(Steps(R)) = Len(R) - 1
         /\ IsRel(Reverse(Steps(R))) /\ Len(Reverse(Steps(R))) = Len(R) - 1
         /\ After(R[1], Steps(R)) = R
         /\ Before(R[Len(R)], Reverse(Steps(R))) = R
         /\ (\A k \in 1 .. Len(R) - 1 : (R[k + 1] - R[k]) % 2 = 0) =>
               EvenRel(Steps(R)) /\ EvenRel(Reverse(Steps(R)))
    <2>1. \A k \in 1 .. Len(R) - 1 : R[k + 1] - R[k] \in 2 .. 8
      BY <1>7, <1>9
    <2> QED
      BY <1>5, <1>9, <2>1, StepsAreRel
  <1>11. slots = 16 => EvenRel(Steps(R)) /\ EvenRel(Reverse(Steps(R)))
    BY <1>7, <1>9, <1>10
  <1>12. Elements(Int, R, m)
    BY <1>3, <1>5 DEF Elements
  <1> QED
    BY <1>5, <1>6, <1>8, <1>9, <1>10, <1>11, <1>12 DEF PartOfBorders, R, m

(* What a frame leaves for the next: one to three borders from the overlap  *)
(* on, none after the first ten slots, and pointers that are not too large. *)
FollowUp(slots, f, n) ==
    /\ n \in 1 .. 3 /\ Elements(Int, f.bord, n) /\ Elements(Res, f.freq, n)
    /\ f.bord[1] \in 0 .. 3 /\ f.bord[n] <= 9 /\ (n = 3 => f.bord[3] >= 6)
    /\ Fits(slots, f.bord, 1, n)
    /\ f.tran \in Int /\ f.tran <= 0 /\ f.fill \in Int /\ f.fill <= n
    /\ slots = 15 => /\ n = 1 => f.bord[1] = 3
                     /\ n = 2 => f.bord[2] - f.bord[1] < 8

(* What a design leaves for the next frame is a follow-up; it starts at the *)
(* border that ends the frame.                                              *)
LEMMA KeptFollowUp ==
    ASSUME NEW slots \in SlotCounts, NEW q \in 0 .. slots - 1, NEW head, NEW d, NEW h, NEW r,
           h \in 1 .. 5, r \in 1 .. h + 1, Designed(slots, q, head, d, h, r)
    PROVE  /\ FollowUp(slots, KeepForFollowUp(slots, d),
                       TailLen(slots, q) - FrameEnd(slots, q) + 1)
           /\ KeepForFollowUp(slots, d).bord[1] = TailAt(slots, q, FrameEnd(slots, q)) - slots
  <1> DEFINE e == FrameEnd(slots, q)
             last == TailLen(slots, q)
             at(i) == TailAt(slots, q, i)
             f == KeepForFollowUp(slots, d)
             n == last - e + 1
  <1>0. slots \in 15 .. 16
    BY DEF SlotCounts
  <1>1. /\ last \in 2 .. 4 /\ e \in 0 .. 3 /\ last - e \in 0 .. 2
        /\ \A i \in 0 .. last : at(i) \in 4 .. slots + 9
        /\ \A i \in 0 .. last - 1 : /\ at(i + 1) - at(i) \in 2 .. 8
                                    /\ slots = 16 => (at(i + 1) - at(i)) % 2 = 0
        /\ at(e) \in slots .. slots + 3
        /\ last - e = 2 => at(last) >= slots + 6
        /\ slots = 15 => /\ last - e = 0 => at(e) = 18
                         /\ last - e = 1 => at(last) - at(e) < 8
    BY TailFacts
  <1>2. /\ Elements(Int, d.bord, h + last) /\ Elements(Res, d.freq, h + last)
        /\ d.fills = last - 2
        /\ d.cmon = h + e /\ d.tran = (IF r = h + 1 THEN 2 ELSE h)
        /\ r = h + 1 => e = 3
        /\ \A i \in 0 .. last : r <= h \/ i > 0 => d.bord[h + i] = at(i)
    BY DEF Designed
  <1> HIDE DEF e, last, at
  <1>3. e <= last /\ n \in 1 .. 3 /\ n = last - e + 1
    BY <1>1
  <1>4. d.bord \in Seq(Int) /\ Len(d.bord) = h + last /\ d.freq \in Seq(Res) /\ Len(d.freq) = h + last
    BY <1>2 DEF Elements
  <1>5. f.bord = [k \in 1 .. n |-> d.bord[h + e + k - 1] - slots]
    <2>1. Len(d.bord) - d.cmon + 1 = n
      BY <1>1, <1>2, <1>4
    <2> HIDE DEF n
    <2> QED
      BY <1>2, <2>1 DEF KeepForFollowUp
  <1>6. ASSUME NEW k \in 1 .. n PROVE d.bord[h + e + k - 1] = at(e + k - 1)
    <2>1. PICK i \in 0 .. last : i = e + k - 1
      <3>1. e + k - 1 \in 0 .. last
        BY <1>1, <1>3
      <3> QED
        BY <3>1
    <2>2. h + e + k - 1 = h + i /\ (r <= h \/ i > 0)
      BY <1>1, <1>2, <1>3, <2>1
    <2>3. d.bord[h + i] = at(i)
      BY <1>2, <2>2
    <2> QED
      BY <2>1, <2>2, <2>3
  <1> HIDE DEF n, f
  <1>7. \A k \in 1 .. n : f.bord[k] = at(e + k - 1) - slots
    BY <1>5, <1>6
  <1>8. \A k \in 1 .. n : e + k - 1 \in 0 .. last
    BY <1>1, <1>3
  <1>9. \A k \in 1 .. n : f.bord[k] \in Int /\ f.bord[k] <= 9
    <2> TAKE k \in 1 .. n
    <2>1. PICK i \in 0 .. last : i = e + k - 1
      BY <1>8
    <2>2. at(i) \in 4 .. slots + 9 /\ f.bord[k] = at(i) - slots
      BY <1>1, <1>7, <2>1
    <2> QED
      BY <1>0, <2>2
  <1>10. Elements(Int, f.bord, n)
    <2>1. f.bord = [k \in 1 .. n |-> f.bord[k]]
      BY <1>5
    <2> DEFINE g == f.bord
    <2> HIDE DEF g
    <2>2. g = [k \in 1 .. n |-> g[k]] /\ \A k \in 1 .. n : g[k] \in Int
      BY <1>9, <2>1 DEF g
    <2>3. n \in Nat
      BY <1>3
    <2>4. g \in [1 .. n -> Int]
      BY <2>2
    <2>5. g \in Seq(Int) /\ Len(g) = n
      BY <2>3, <2>4
    <2> QED
      BY <2>3, <2>5 DEF Elements, g
  <1>11. f.bord[1] = at(e) - slots /\ f.bord[1] \in 0 .. 3
    <2>1. 1 \in 1 .. n /\ e + 1 - 1 = e
      BY <1>1, <1>3
    <2>2. f.bord[1] = at(e) - slots
      BY <1>7, <2>1
    <2>3. at(e) - slots \in 0 .. 3
      <3>1. at(e) \in slots .. slots + 3
        BY <1>1
      <3> QED
        BY <1>0, <3>1
    <2> QED
      BY <2>2, <2>3
  <1>12. f.bord[n] = at(last) - slots /\ f.bord[n] <= 9
    <2>1. n \in 1 .. n /\ e + n - 1 = last
      BY <1>1, <1>3
    <2> QED
      BY <1>7, <1>9, <2>1
  <1>13. n = 3 => f.bord[3] >= 6
    <2>1. at(last) \in Int
      <3>1. last \in 0 .. last
        BY <1>1
      <3> QED
        BY <1>0, <1>1, <3>1
    <2> QED
      BY <1>0, <1>1, <1>3, <1>12, <2>1
  <1>14. Fits(slots, f.bord, 1, n)
    <2> SUFFICES ASSUME NEW k \in 1 .. n - 1
                 PROVE  /\ f.bord[k + 1] - f.bord[k] \in 2 .. 8
                        /\ slots = 16 => (f.bord[k + 1] - f.bord[k]) % 2 = 0
      BY DEF Fits
    <2>1. PICK i \in 0 .. last - 1 : i = e + k - 1
      <3>1. e + k - 1 \in 0 .. last - 1
        BY <1>1, <1>3
      <3> QED
        BY <3>1
    <2>2. k \in 1 .. n /\ k + 1 \in 1 .. n /\ e + (k + 1) - 1 = i + 1
          /\ i \in 0 .. last /\ i + 1 \in 0 .. last
      BY <1>1, <1>3, <2>1
    <2>3. f.bord[k] = at(i) - slots
      BY <1>7, <2>1, <2>2
    <2>4. f.bord[k + 1] = at(i + 1) - slots
      <3>1. PICK j \in 1 .. n : j = k + 1
        BY <2>2
      <3>2. f.bord[j] = at(e + j - 1) - slots /\ e + j - 1 = i + 1
        BY <1>7, <2>2, <3>1
      <3> QED
        BY <3>1, <3>2
    <2>5. at(i) \in Int /\ at(i + 1) \in Int
      BY <1>0, <1>1, <2>2
    <2>6. f.bord[k + 1] - f.bord[k] = at(i + 1) - at(i)
      BY <1>0, <2>3, <2>4, <2>5
    <2> QED
      BY <1>1, <2>6
  <1>15. Elements(Res, f.freq, n)
    <2>1. f.freq = SubSeq(d.freq, h + e, h + last)
      BY <1>2, <1>4 DEF KeepForFollowUp, f
    <2>2. h + e \in Int /\ h + last \in Int /\ h + e <= h + last /\ (h + last) - (h + e) + 1 = n
      BY <1>1, <1>3
    <2>3. \A i \in h + e .. h + last : d.freq[i] \in Res
      <3>1. \A i \in h + e .. h + last : i \in 1 .. h + last
        BY <1>1
      <3> QED
        BY <1>4, <3>1, ElementOfSeq
    <2>4. /\ SubSeq(d.freq, h + e, h + last) \in Seq(Res)
          /\ Len(SubSeq(d.freq, h + e, h + last)) = (h + last) - (h + e) + 1
      BY <2>2, <2>3, SubSeqProperties
    <2>5. n \in Nat
      BY <1>3
    <2> QED
      BY <2>1, <2>2, <2>4, <2>5 DEF Elements
  <1>16. f.tran \in Int /\ f.tran <= 0 /\ f.fill \in Int /\ f.fill <= n
    <2>1. f.tran = d.tran - (h + e) /\ f.fill = (h + last) - (last - 2) - (h + e) + 1
      BY <1>2, <1>4 DEF KeepForFollowUp, f
    <2> QED
      BY <1>1, <1>2, <1>3, <2>1
  <1>17. slots = 15 => /\ n = 1 => f.bord[1] = 3
                       /\ n = 2 => f.bord[2] - f.bord[1] < 8
    <2>1. last \in 0 .. last /\ e \in 0 .. last
      BY <1>1, <1>3
    <2>2. at(last) \in Int /\ at(e) \in Int
      BY <1>0, <1>1, <2>1
    <2> QED
      BY <1>1, <1>3, <1>11, <1>12, <2>2
  <1> QED
    BY <1>3, <1>10, <1>11, <1>12, <1>13, <1>14, <1>15, <1>16, <1>17 DEF FollowUp, f, n, e, last, at

-----------------------------------------------------------------------------
(* The grids of the three variable classes *)

(* The borders of a sequence up to one of them, and its first part. *)
LEMMA FirstPart ==
    ASSUME NEW S, NEW n, NEW s, Elements(S, s, n), NEW z \in 0 .. n
    PROVE  Elements(S, SubSeq(s, 1, z), z) /\ \A k \in 1 .. z : SubSeq(s, 1, z)[k] = s[k]
  <1>1. n \in Nat /\ s \in Seq(S) /\ Len(s) = n
    BY DEF Elements
  <1>2. n \in Nat /\ z \in Nat
    BY <1>1
  <1>3. \A i \in 1 .. z : s[i] \in S
    <2>1. \A i \in 1 .. z : i \in 1 .. n
      BY <1>2
    <2> QED
      BY <1>1, <2>1, ElementOfSeq
  <1> DEFINE R == SubSeq(s, 1, z)
  <1>4. /\ R \in Seq(S) /\ Len(R) = (IF 1 <= z THEN z - 1 + 1 ELSE 0)
        /\ \A i \in 1 .. z - 1 + 1 : R[i] = s[1 + i - 1]
    BY <1>2, <1>3, SubSeqProperties
  <1> HIDE DEF R
  <1>5. Len(R) = z
    BY <1>2, <1>4
  <1>6. \A k \in 1 .. z : R[k] = s[k]
    <2>1. \A k \in 1 .. z : k \in 1 .. z - 1 + 1 /\ 1 + k - 1 = k
      BY <1>2
    <2> QED
      BY <1>4, <2>1
  <1> QED
    BY <1>2, <1>4, <1>5, <1>6 DEF R, Elements

(* The end of the frame is at most three borders behind the first of the     *)
(* borders of the transient.                                                *)
LEMMA EndsInTail ==
    ASSUME NEW slots \in SlotCounts, NEW q \in 0 .. slots - 1, NEW head, NEW h, NEW r,
           GoodHead(slots, q, head, h, r)
    PROVE  h + FrameEnd(slots, q) - r \in 0 .. 3
  <1>1. /\ h \in 1 .. 5 /\ r \in 1 .. h + 1 /\ r >= h - 1
        /\ r = h - 1 => q >= 9
        /\ r = h + 1 => h = 1 /\ q <= 2
    BY DEF GoodHead, IsHead
  <1>2. /\ FrameEnd(slots, q) \in 0 .. 3
        /\ q >= 9 => FrameEnd(slots, q) <= 2
        /\ q <= 2 => FrameEnd(slots, q) = 3
    BY DEF FrameEnd, SlotCounts
  <1> QED
    BY <1>1, <1>2

(* VARFIX: the follow-up, then nothing but the end of the frame. *)
LEMMA VarFixGrid ==
    ASSUME NEW slots \in SlotCounts, NEW f, NEW n, FollowUp(slots, f, n)
    PROVE  LET g == VarFixSignal(f)
           IN  /\ VariableGrid(slots, g) /\ g.class = "VARFIX" /\ g.left = f.bord[1]
               /\ Len(g.relLeft) + Len(g.relRight) = n - 1
               /\ BordersOf(slots, g, g.relLeft, g.relRight) = f.bord \o <<slots>>
  <1> DEFINE g == VarFixSignal(f)
             b == f.bord
  <1>0. slots \in 15 .. 16
    BY DEF SlotCounts
  <1>1. /\ n \in 1 .. 3 /\ Elements(Int, b, n) /\ Elements(Res, f.freq, n)
        /\ b[1] \in 0 .. 3 /\ b[n] <= 9 /\ Fits(slots, b, 1, n)
        /\ f.tran \in Int /\ f.tran <= 0
    BY DEF FollowUp
  <1>2. b \in Seq(Int) /\ Len(b) = n /\ f.freq \in Seq(Res) /\ Len(f.freq) = n
    BY <1>1 DEF Elements
  <1>3. b[n] \in Int
    <2>1. n \in 1 .. n
      BY <1>1
    <2> QED
      BY <1>2, <2>1, ElementOfSeq
  <1>4. /\ g.class = "VARFIX" /\ g.left = b[1] /\ g.relLeft = Steps(b) /\ g.relRight = <<>>
        /\ g.freq = f.freq /\ g.p = (IF f.tran >= 0 THEN f.tran + 1 ELSE 0)
    BY DEF VarFixSignal, Grid
  <1> HIDE DEF g, b
  <1>5. /\ IsRel(Steps(b)) /\ Len(Steps(b)) = n - 1
        /\ After(b[1], Steps(b)) = b
        /\ slots = 16 => EvenRel(Steps(b))
    <2>1. Len(b) \in 1 .. MaxNumRel + 1 /\ Len(b) - 1 = n - 1
      BY <1>1, <1>2 DEF MaxNumRel
    <2>2. \A k \in 1 .. Len(b) - 1 : b[k + 1] - b[k] \in 2 .. 8
      BY <1>1, <2>1 DEF Fits
    <2>3. /\ IsRel(Steps(b)) /\ Len(Steps(b)) = Len(b) - 1
          /\ After(b[1], Steps(b)) = b
          /\ (\A k \in 1 .. Len(b) - 1 : (b[k + 1] - b[k]) % 2 = 0) =>
                EvenRel(Steps(b)) /\ EvenRel(Reverse(Steps(b)))
      BY <1>2, <2>1, <2>2, StepsAreRel
    <2>4. slots = 16 => \A k \in 1 .. Len(b) - 1 : (b[k + 1] - b[k]) % 2 = 0
      BY <1>1, <2>1 DEF Fits
    <2> QED
      BY <2>1, <2>3, <2>4
  <1>6. /\ Len(<<>>) = 0 /\ IsRel(<<>>) /\ EvenRel(<<>>)
    BY DEF IsRel, EvenRel, MaxNumRel
  <1>7. Len(g.relLeft) + Len(g.relRight) = n - 1 /\ (n - 1) + 1 = n /\ n - 1 \in 0 .. 2
    BY <1>1, <1>4, <1>5, <1>6
  <1>8. After(g.left, g.relLeft)[Len(g.relLeft) + 1] < slots
    BY <1>0, <1>1, <1>3, <1>4, <1>5, <1>7
  <1>9. g.p \in 0 .. n /\ g.p <= 1
    BY <1>1, <1>4
  <1>10. g.freq \in Seq({FreqResLow, FreqResHigh}) /\ Len(g.freq) = n
    BY <1>2, <1>4 DEF Res
  <1>11. VariableGrid(slots, g)
    <2> DEFINE m == Len(g.relLeft) + Len(g.relRight)
    <2>0. m = n - 1
      BY <1>7
    <2> HIDE DEF m
    <2>1. m \in 0 .. 4 /\ g.p \in 0 .. m + 1 /\ Len(g.freq) = m + 1
      BY <1>1, <1>9, <1>10, <2>0
    <2>2. IsRel(g.relLeft) /\ IsRel(g.relRight)
          /\ (slots = 16 => EvenRel(g.relLeft) /\ EvenRel(g.relRight))
      BY <1>4, <1>5, <1>6
    <2>3. g.left \in 0 .. 3
      BY <1>1, <1>4
    <2>4. g.relRight = <<>> /\ g.class = "VARFIX"
      BY <1>4
    <2> QED
      BY <1>8, <1>9, <1>10, <2>1, <2>2, <2>3, <2>4 DEF VariableGrid, m
  <1>12. BordersOf(slots, g, g.relLeft, g.relRight) = b \o <<slots>>
    BY <1>4, <1>5 DEF BordersOf
  <1> QED
    BY <1>4, <1>7, <1>11, <1>12 DEF g, b

(* The borders of a FIXVAR frame are all the transient's own. *)
DesignedAlone(slots, q, head, d, h) ==
    /\ GoodHead(slots, q, head, h, 1) /\ Designed(slots, q, head, d, h, 1)
    /\ head.bord[1] > 0

FixVarGridOf(slots, q, d, h) ==
    LET g == FixVarSignal(d)
        e == FrameEnd(slots, q)
    IN  /\ VariableGrid(slots, g) /\ g.class = "FIXVAR"
        /\ g.right = TailAt(slots, q, e)
        /\ Len(g.relLeft) + Len(g.relRight) = h + e - 1
        /\ BordersOf(slots, g, g.relLeft, g.relRight) = <<0>> \o SubSeq(d.bord, 1, h + e)

(* FIXVAR: coded from the end of the frame. *)
LEMMA FixVarGrid ==
    ASSUME NEW slots \in SlotCounts, NEW q \in 0 .. slots - 1, NEW head, NEW h, NEW d,
           DesignedAlone(slots, q, head, d, h)
    PROVE  FixVarGridOf(slots, q, d, h)
  <1> DEFINE g == FixVarSignal(d)
             e == FrameEnd(slots, q)
             last == TailLen(slots, q)
             z == h + e
             R == SubSeq(d.bord, 1, z)
  <1>0. GoodHead(slots, q, head, h, 1) /\ Designed(slots, q, head, d, h, 1)
        /\ head.bord[1] > 0
    BY DEF DesignedAlone
  <1>1. h \in 1 .. 2
    BY <1>0 DEF GoodHead, IsHead
  <1>3. /\ last \in 2 .. 4 /\ e \in 0 .. 3 /\ last - e \in 0 .. 2
        /\ TailAt(slots, q, e) \in slots .. slots + 3
    BY TailFacts
  <1> DEFINE r == 1
  <1>2. z - 1 \in 0 .. 3
    <2>1. GoodHead(slots, q, head, h, r)
      BY <1>0
    <2> HIDE DEF r
    <2>2. h + e - r \in 0 .. 3
      BY <2>1, EndsInTail
    <2> QED
      BY <1>1, <1>3, <2>2 DEF r
  <1>4. /\ Elements(Int, d.bord, h + last) /\ Elements(Res, d.freq, h + last)
        /\ d.cmon = z /\ d.tran = h
        /\ \A i \in 1 .. h : d.bord[i] = head.bord[i]
        /\ \A i \in 0 .. last : d.bord[h + i] = TailAt(slots, q, i)
        /\ Fits(slots, d.bord, 1, h + last)
    <2>1. r # h + 1 /\ r <= h
      BY <1>1
    <2> HIDE DEF r
    <2>2. Designed(slots, q, head, d, h, r)
      BY <1>0 DEF r
    <2>3. /\ Elements(Int, d.bord, h + last) /\ Elements(Res, d.freq, h + last)
          /\ d.cmon = h + e /\ d.tran = h
          /\ \A i \in 1 .. h : d.bord[i] = head.bord[i]
      BY <2>1, <2>2 DEF Designed
    <2>4. \A i \in 0 .. last : d.bord[h + i] = TailAt(slots, q, i)
      BY <2>1, <2>2 DEF Designed
    <2>5. Fits(slots, d.bord, r, h + last)
      BY <2>2 DEF Designed
    <2> QED
      BY <2>3, <2>4, <2>5 DEF r
  <1> HIDE DEF e, last, r
  <1>5. z \in 1 .. h + last /\ z \in 1 .. 4 /\ e \in 0 .. last
    BY <1>1, <1>2, <1>3
  <1>6. PartOfBorders(slots, d.bord, R, 1, z)
    <2>1. Fits(slots, d.bord, 1, z)
      <3>1. \A k \in 1 .. z - 1 : k \in 1 .. (h + last) - 1
        BY <1>1, <1>3, <1>5
      <3> QED
        BY <1>4, <3>1 DEF Fits
    <2>2. 1 \in 1 .. h + last
      BY <1>1, <1>3
    <2> HIDE DEF z
    <2> QED
      BY <1>2, <1>4, <1>5, <2>1, <2>2, PartSteps
  <1>7. d.bord[z] = TailAt(slots, q, e) /\ d.bord[1] = head.bord[1]
    <2>1. 1 \in 1 .. h
      BY <1>1
    <2> QED
      BY <1>4, <1>5, <2>1
  <1>8. d.freq \in Seq(Res) /\ Len(d.freq) = h + last
    BY <1>4 DEF Elements
  <1> DEFINE fr == Reverse(SubSeq(d.freq, 1, z - 1)) \o <<FreqResHigh>>
  <1>9. fr \in Seq(Res) /\ Len(fr) = z
    <2> DEFINE s == SubSeq(d.freq, 1, z - 1)
    <2>1. Elements(Res, s, z - 1)
      <3>1. z - 1 \in 0 .. h + last
        BY <1>1, <1>3, <1>5
      <3> QED
        BY <1>4, <3>1, FirstPart
    <2> HIDE DEF s
    <2>2. Reverse(s) = [k \in 1 .. Len(s) |-> s[(Len(s) - k) + 1]]
      BY DEF Reverse
    <2> DEFINE m == z - 1
    <2>3. m \in 0 .. 3 /\ m + 1 = z
      BY <1>1, <1>2, <1>3
    <2> HIDE DEF m
    <2>4. s \in Seq(Res) /\ Len(s) = m
      BY <2>1 DEF Elements, m
    <2>5. \A k \in 1 .. m : s[(m - k) + 1] \in Res
      <3>1. \A k \in 1 .. m : (m - k) + 1 \in 1 .. m
        BY <2>3
      <3> QED
        BY <2>4, <3>1, ElementOfSeq
    <2>6. Reverse(s) \in [1 .. m -> Res]
      BY <2>2, <2>4, <2>5
    <2>7. Elements(Res, Reverse(s), m)
      <3>1. m \in Nat
        BY <2>3
      <3> DEFINE rs == Reverse(s)
      <3> HIDE DEF rs
      <3>2. rs \in [1 .. m -> Res]
        BY <2>6 DEF rs
      <3>3. rs \in Seq(Res) /\ Len(rs) = m
        BY <3>1, <3>2
      <3> QED
        BY <3>1, <3>3 DEF Elements, rs
    <2>8. Elements(Res, <<FreqResHigh>>, 1)
      BY DEF Elements, Res
    <2>9. Elements(Res, fr, m + 1)
      BY <2>7, <2>8, JoinSeqs DEF s
    <2> QED
      BY <2>3, <2>9 DEF Elements
  <1>10. /\ g.class = "FIXVAR" /\ g.right = d.bord[z] /\ g.relLeft = <<>>
         /\ g.relRight = Reverse(Steps(R)) /\ g.freq = fr /\ g.p = e + 1
    <2>1. Pointer(d) = e + 1
      BY <1>1, <1>3, <1>4 DEF Pointer
    <2> HIDE DEF z, e
    <2> QED
      BY <1>4, <2>1 DEF FixVarSignal, Grid
  <1> HIDE DEF g, R, fr
  <1>11. /\ IsRel(g.relRight) /\ Len(g.relRight) = z - 1
         /\ Before(g.right, g.relRight) = R /\ R[1] = d.bord[1]
         /\ slots = 16 => EvenRel(g.relRight)
    BY <1>6, <1>10 DEF PartOfBorders
  <1>12. /\ Len(g.relLeft) = 0 /\ IsRel(g.relLeft) /\ EvenRel(g.relLeft)
    BY <1>10 DEF IsRel, EvenRel, MaxNumRel
  <1>13. Len(g.relLeft) + Len(g.relRight) = z - 1
    BY <1>5, <1>11, <1>12
  <1>14. VariableGrid(slots, g)
    <2> DEFINE m == Len(g.relLeft) + Len(g.relRight)
    <2>0. m = z - 1
      BY <1>13
    <2> HIDE DEF m
    <2>1. m \in 0 .. 4 /\ g.p \in 0 .. m + 1 /\ g.p >= 1
      BY <1>1, <1>3, <1>5, <1>10, <2>0
    <2>2. g.freq \in Seq({FreqResLow, FreqResHigh}) /\ Len(g.freq) = m + 1
      <3>1. m + 1 = z
        BY <1>5, <2>0
      <3> QED
        BY <1>9, <1>10, <3>1 DEF Res
    <2>3. g.right \in slots .. slots + 3
      BY <1>3, <1>7, <1>10
    <2>4. Before(g.right, g.relRight)[1] > 0
      BY <1>0, <1>7, <1>11
    <2>5. g.class = "FIXVAR" /\ g.relLeft = <<>>
      BY <1>10
    <2> QED
      BY <1>11, <1>12, <2>1, <2>2, <2>3, <2>4, <2>5 DEF VariableGrid, m
  <1>15. BordersOf(slots, g, g.relLeft, g.relRight) = <<0>> \o R
    BY <1>10, <1>11 DEF BordersOf
  <1>16. g.right = TailAt(slots, q, e)
    BY <1>7, <1>10
  <1>17. z - 1 = h + e - 1
    BY <1>1, <1>3
  <1> QED
    BY <1>10, <1>13, <1>14, <1>15, <1>16, <1>17 DEF FixVarGridOf, g, e, R

(* A run of borders is its parts one after the other. *)
LEMMA SplitBorders ==
    ASSUME NEW n, NEW s, Elements(Int, s, n), NEW a \in 1 .. n, NEW z \in a .. n, a < z
    PROVE  SubSeq(s, 1, a) \o SubSeq(s, a + 1, z) = SubSeq(s, 1, z)
  <1>1. n \in Nat /\ s \in Seq(Int) /\ Len(s) = n
    BY DEF Elements
  <1>2. n \in Nat
    BY <1>1
  <1>3. 1 \in 1 .. n + 1 /\ a \in 1 - 1 .. n /\ z \in a .. n
    BY <1>2
  <1> QED
    BY <1>1, <1>3, ConcatAdjacentSubSeq

(* The borders of a VARVAR frame: some of the follow-up, then those of the   *)
(* transient.                                                               *)
DesignedBehind(slots, q, head, d, h, r) ==
    /\ GoodHead(slots, q, head, h, r) /\ Designed(slots, q, head, d, h, r)
    /\ r \in 2 .. 4 /\ head.nL = r - 2 /\ h + FrameEnd(slots, q) <= 6
    /\ d.bord[r - 1] < d.bord[r] /\ Fits(slots, d.bord, 1, r - 1) /\ d.bord[1] \in 0 .. 3

VarVarGridOf(slots, q, d, h) ==
    LET g == VarVarSignal(d)
        e == FrameEnd(slots, q)
    IN  /\ VariableGrid(slots, g) /\ g.class = "VARVAR"
        /\ g.left = d.bord[1] /\ g.right = TailAt(slots, q, e)
        /\ Len(g.relLeft) + Len(g.relRight) = h + e - 2
        /\ BordersOf(slots, g, g.relLeft, g.relRight) = SubSeq(d.bord, 1, h + e)

(* VARVAR: coded from both ends; the distance between the follow-up and the *)
(* borders of the transient is implied.                                     *)
LEMMA VarVarGrid ==
    ASSUME NEW slots \in SlotCounts, NEW q \in 0 .. slots - 1, NEW head, NEW h, NEW r, NEW d,
           DesignedBehind(slots, q, head, d, h, r)
    PROVE  VarVarGridOf(slots, q, d, h)
  <1> DEFINE g == VarVarSignal(d)
             e == FrameEnd(slots, q)
             last == TailLen(slots, q)
             z == h + e
             B == SubSeq(d.bord, 1, z)
             L == SubSeq(B, 1, r - 1)
             R == SubSeq(B, r, z)
  <1>0. /\ GoodHead(slots, q, head, h, r) /\ Designed(slots, q, head, d, h, r)
        /\ r \in 2 .. 4 /\ head.nL = r - 2 /\ h + FrameEnd(slots, q) <= 6
        /\ d.bord[r - 1] < d.bord[r] /\ Fits(slots, d.bord, 1, r - 1) /\ d.bord[1] \in 0 .. 3
    BY DEF DesignedBehind
  <1> USE <1>0
  <1>1. h \in 1 .. 5 /\ r \in 2 .. 4 /\ r <= h + 1 /\ z <= 6 /\ r >= h - 1
        /\ (r = h + 1 => h = 1)
    BY DEF GoodHead, IsHead
  <1>2. /\ last \in 2 .. 4 /\ e \in 0 .. 3 /\ last - e \in 0 .. 2
        /\ TailAt(slots, q, e) \in slots .. slots + 3
    BY TailFacts
  <1>3. z - r \in 0 .. 3
    <2>1. h + FrameEnd(slots, q) - r \in 0 .. 3
      BY EndsInTail
    <2> HIDE DEF e
    <2>2. h + e - r \in 0 .. 3
      BY <2>1 DEF e
    <2> QED
      BY <1>1, <1>2, <2>2
  <1>4. /\ Elements(Int, d.bord, h + last) /\ Elements(Res, d.freq, h + last)
        /\ d.cmon = z /\ d.tran = (IF r = h + 1 THEN 2 ELSE h) /\ d.nL = r - 2
        /\ r = h + 1 => e = 3
        /\ \A i \in 0 .. last : r <= h \/ i > 0 => d.bord[h + i] = TailAt(slots, q, i)
        /\ Fits(slots, d.bord, r, h + last)
    BY DEF Designed
  <1> HIDE DEF e, last
  <1>5. z \in 0 .. h + last /\ z \in 2 .. 6 /\ z - r \in 0 .. 3 /\ e \in 0 .. last
        /\ (r <= h \/ e > 0) /\ r <= z /\ r - 1 \in 1 .. 3 /\ z \in 1 .. h + last
    BY <1>1, <1>2, <1>3, <1>4
  <1>6. d.bord[z] = TailAt(slots, q, e)
    BY <1>4, <1>5
  <1> HIDE DEF z
  <1>7. Elements(Int, B, z) /\ \A k \in 1 .. z : B[k] = d.bord[k]
    BY <1>4, <1>5, FirstPart
  <1> HIDE DEF B
  <1>8. PartOfBorders(slots, B, L, 1, r - 1)
    <2>1. Fits(slots, B, 1, r - 1)
      <3>1. \A k \in 1 .. (r - 1) - 1 : k \in 1 .. z /\ k + 1 \in 1 .. z
        BY <1>1, <1>5
      <3>2. \A k \in 1 .. (r - 1) - 1 : B[k] = d.bord[k] /\ B[k + 1] = d.bord[k + 1]
        BY <1>7, <3>1
      <3> QED
        BY <3>2 DEF Fits
    <2>2. 1 \in 1 .. z /\ r - 1 \in 1 .. z /\ (r - 1) - 1 \in 0 .. 3
      BY <1>1, <1>5
    <2> DEFINE y == r - 1
    <2>3. y \in 1 .. z /\ y - 1 \in 0 .. 3 /\ Fits(slots, B, 1, y)
      BY <2>1, <2>2
    <2> HIDE DEF y
    <2>4. PartOfBorders(slots, B, SubSeq(B, 1, y), 1, y)
      BY <1>7, <2>2, <2>3, PartSteps
    <2> QED
      BY <2>4 DEF y
  <1>9. PartOfBorders(slots, B, R, r, z)
    <2>1. Fits(slots, B, r, z)
      <3>1. \A k \in r .. z - 1 : k \in 1 .. z /\ k + 1 \in 1 .. z /\ k \in r .. (h + last) - 1
        BY <1>1, <1>2, <1>5
      <3>2. \A k \in r .. z - 1 : B[k] = d.bord[k] /\ B[k + 1] = d.bord[k + 1]
        BY <1>7, <3>1
      <3> QED
        BY <1>4, <3>1, <3>2 DEF Fits
    <2>2. r \in 1 .. z /\ z \in r .. z
      BY <1>1, <1>5
    <2> QED
      BY <1>5, <1>7, <2>1, <2>2, PartSteps
  <1>10. B[1] = d.bord[1] /\ B[z] = d.bord[z] /\ B[r - 1] = d.bord[r - 1] /\ B[r] = d.bord[r]
    <2>1. 1 \in 1 .. z /\ z \in 1 .. z /\ r - 1 \in 1 .. z /\ r \in 1 .. z
      BY <1>1, <1>5
    <2> QED
      BY <1>7, <2>1
  <1>11. L \o R = B
    <2> DEFINE y == r - 1
    <2>1. y \in 1 .. z /\ z \in y .. z /\ y < z /\ y + 1 = r
      BY <1>1, <1>5
    <2> HIDE DEF y
    <2>2. SubSeq(B, 1, y) \o SubSeq(B, y + 1, z) = SubSeq(B, 1, z)
      BY <1>7, <2>1, SplitBorders
    <2>3. SubSeq(B, 1, z) = B
      BY <1>7, SubSeqFull DEF Elements
    <2> QED
      BY <2>1, <2>2, <2>3 DEF y
  <1>12. /\ g.class = "VARVAR" /\ g.left = B[1] /\ g.right = B[z]
         /\ g.relLeft = Steps(L) /\ g.relRight = Reverse(Steps(R))
         /\ g.freq = SubSeq(d.freq, 1, z - 1)
         /\ g.p = (IF r = h + 1 THEN 3 ELSE e + 1)
    <2>1. Pointer(d) = IF r = h + 1 THEN 3 ELSE e + 1
      <3>1. d.cmon = h + e
        BY <1>4 DEF z
      <3> QED
        BY <1>1, <1>2, <1>4, <3>1 DEF Pointer
    <2>2. d.nL + 1 = r - 1 /\ d.nL + 2 = r
      BY <1>1, <1>4
    <2>3. /\ g.class = "VARVAR" /\ g.left = B[1] /\ g.right = B[d.cmon]
          /\ g.relLeft = Steps(SubSeq(B, 1, d.nL + 1))
          /\ g.relRight = Reverse(Steps(SubSeq(B, d.nL + 2, d.cmon)))
          /\ g.freq = SubSeq(d.freq, 1, d.cmon - 1)
          /\ g.p = Pointer(d)
      BY <1>4 DEF VarVarSignal, Grid, B
    <2> HIDE DEF g
    <2> QED
      BY <1>4, <2>1, <2>2, <2>3
  <1> HIDE DEF g, L, R
  <1> DEFINE y == r - 1
  <1>13. /\ IsRel(g.relLeft) /\ Len(g.relLeft) = y - 1 /\ After(g.left, g.relLeft) = L
         /\ Elements(Int, L, y) /\ L[y] = B[y]
         /\ slots = 16 => EvenRel(g.relLeft)
    <2>1. (r - 1) - 1 + 1 = y
      BY <1>1
    <2>2. PartOfBorders(slots, B, L, 1, y)
      BY <1>8
    <2>3. y - 1 + 1 = y
      BY <1>1
    <2> HIDE DEF y
    <2> QED
      BY <1>12, <2>2, <2>3 DEF PartOfBorders
  <1>14. /\ IsRel(g.relRight) /\ Len(g.relRight) = z - r
         /\ Before(g.right, g.relRight) = R /\ R[1] = B[r]
         /\ slots = 16 => EvenRel(g.relRight)
    BY <1>9, <1>12 DEF PartOfBorders
  <1> DEFINE m == Len(g.relLeft) + Len(g.relRight)
  <1>15. m = z - 2
    BY <1>1, <1>5, <1>13, <1>14
  <1>16. After(g.left, g.relLeft)[Len(g.relLeft) + 1] < Before(g.right, g.relRight)[1]
    <2>1. Len(g.relLeft) + 1 = y
      BY <1>1, <1>13
    <2>2. B[y] < B[r]
      BY <1>10
    <2> QED
      BY <1>13, <1>14, <2>1, <2>2
  <1>17. g.freq \in Seq({FreqResLow, FreqResHigh}) /\ Len(g.freq) = z - 1
    <2> DEFINE w == z - 1
    <2>1. w \in 0 .. h + last
      BY <1>1, <1>2, <1>5
    <2> HIDE DEF w
    <2>2. Elements(Res, SubSeq(d.freq, 1, w), w)
      BY <1>4, <2>1, FirstPart
    <2> QED
      BY <1>12, <2>2 DEF Elements, Res, w
  <1>18. VariableGrid(slots, g)
    <2> HIDE DEF m, y
    <2>1. m \in 0 .. 4 /\ g.p \in 0 .. m + 1 /\ g.p >= 1
      <3>1. z = h + e
        BY DEF z
      <3>2. /\ h \in 1 .. 5 /\ r \in 2 .. 4 /\ r >= h - 1 /\ (r = h + 1 => h = 1 /\ e = 3)
            /\ e \in 0 .. 3 /\ z \in 2 .. 6
            /\ g.p = (IF r = h + 1 THEN 3 ELSE e + 1) /\ (r <= h \/ r = h + 1)
        BY <1>1, <1>2, <1>4, <1>5, <1>12
      <3> QED
        BY <1>15, <3>1, <3>2
    <2>2. Len(g.freq) = m + 1
      BY <1>5, <1>15, <1>17
    <2>3. g.right \in slots .. slots + 3 /\ g.left \in 0 .. 3
      BY <1>2, <1>6, <1>10, <1>12
    <2> QED
      BY <1>12, <1>13, <1>14, <1>16, <1>17, <2>1, <2>2, <2>3 DEF VariableGrid, m
  <1>19. BordersOf(slots, g, g.relLeft, g.relRight) = B
    BY <1>11, <1>12, <1>13, <1>14 DEF BordersOf
  <1>20. m = h + e - 2
    <2>1. z = h + e
      BY DEF z
    <2> HIDE DEF m
    <2> QED
      BY <1>1, <1>2, <1>15, <2>1
  <1>21. g.left = d.bord[1] /\ g.right = TailAt(slots, q, e)
    BY <1>6, <1>10, <1>12
  <1> QED
    BY <1>12, <1>18, <1>19, <1>20, <1>21 DEF VarVarGridOf, g, e, B, z

-----------------------------------------------------------------------------
(* What stands before the transient *)

(* The distance of a fill border before a transient. *)
FillSegment(rest) == IF rest < 16 THEN 6 ELSE 8

(* A stretch of more than twelve slots gets one border, an even number of    *)
(* slots before its end.                                                    *)
LEMMA PreIs ==
    ASSUME NEW rest \in 4 .. 19, NEW bmin \in Int
    PROVE  FillFramePre(bmin, rest) = (IF rest <= DMax THEN <<>> ELSE <<bmin - FillSegment(rest)>>)
  <1> DEFINE fill == Division(rest, 8)
             x == FillSegment(rest)
  <1>1. FillFramePre(bmin, rest) = [j \in 1 .. fill.parts - 1 |-> bmin - (fill.parts - j) * fill.s]
    BY DEF FillFramePre
  <1>2. CASE rest <= DMax
    <2>1. fill.parts = 1
      <3> DEFINE m == 1
      <3>1. m \in 1 .. 3 /\ m <= rest /\ (m = 1 => rest <= DMax) /\ m = 1
        BY <1>2
      <3> HIDE DEF m
      <3>2. fill.parts = m
        BY <3>1, DivisionIs
      <3> QED
        BY <3>1, <3>2
    <2> HIDE DEF fill
    <2>2. 1 .. fill.parts - 1 = {}
      BY <2>1
    <2>3. FillFramePre(bmin, rest) = <<>>
      BY <1>1, <2>2
    <2> QED
      BY <1>2, <2>3
  <1>3. CASE rest > DMax
    <2>1. rest \in 13 .. 19
      BY <1>3 DEF DMax
    <2>2. fill.parts = 2 /\ fill.s = x
      <3> DEFINE m == 2
      <3>1. PartOf(rest, 8, m) = x
        BY <2>1 DEF PartOf, FillSegment
      <3>2. m \in 1 .. 3 /\ m <= rest /\ m = 2 /\ rest - (m - 1) * x <= DMax
        BY <2>1 DEF DMax, FillSegment
      <3> HIDE DEF m, x
      <3>3. fill.parts = m /\ fill.s = PartOf(rest, 8, m)
        BY <1>3, <3>1, <3>2, DivisionIs
      <3> QED
        BY <3>1, <3>2, <3>3
    <2> HIDE DEF fill
    <2>3. x \in Int /\ 1 .. fill.parts - 1 = {1} /\ (2 - 1) * x = x
      BY <2>2 DEF FillSegment
    <2> HIDE DEF x
    <2>4. FillFramePre(bmin, rest) = [j \in {1} |-> bmin - (2 - j) * x]
      BY <1>1, <2>2, <2>3
    <2>5. [j \in {1} |-> bmin - (2 - j) * x] = [j \in {1} |-> bmin - x]
      BY <2>3
    <2>6. [j \in {1} |-> bmin - x] = <<bmin - x>>
      BY <2>3
    <2> QED
      BY <1>3, <2>4, <2>5, <2>6 DEF DMax, x
  <1> QED
    BY <1>2, <1>3 DEF DMax

(* The head of a FIXVAR frame. *)
LEMMA FixVarHeadIs ==
    ASSUME NEW slots \in SlotCounts, NEW q \in 0 .. slots - 1
    PROVE  LET head == FixVarHead(q + FrameMiddleSlot)
               h == IF q + FrameMiddleSlot <= DMax THEN 1 ELSE 2
           IN  GoodHead(slots, q, head, h, 1) /\ head.bord[1] > 0
  <1> DEFINE t == q + FrameMiddleSlot
             head == FixVarHead(t)
             x == t - FillSegment(t)
  <1>1. q \in 0 .. 15 /\ t = q + 4 /\ t \in 4 .. 19 /\ slots \in 15 .. 16
    BY DEF SlotCounts, FrameMiddleSlot
  <1>2. /\ head.bord = FillFramePre(t, t) \o <<t>>
        /\ head.freq = High(Len(FillFramePre(t, t))) \o <<FreqResLow>>
    BY DEF FixVarHead
  <1>4. t > DMax => /\ x \in 7 .. 11 /\ t - x \in {6, 8} /\ q >= 9
    BY <1>1 DEF FillSegment, DMax
  <1> HIDE DEF t, head
  <1>3. FillFramePre(t, t) = (IF t <= DMax THEN <<>> ELSE <<x>>)
    <2>1. t \in Int
      BY <1>1
    <2> QED
      BY <1>1, <2>1, PreIs
  <1> HIDE DEF x
  <1>5. Elements(Int, <<t>>, 1) /\ <<t>>[1] = t /\ Elements(Res, <<FreqResLow>>, 1)
    BY <1>1 DEF Elements, Res
  <1>6. ASSUME t <= DMax
        PROVE  GoodHead(slots, q, head, 1, 1) /\ head.bord[1] > 0
    <2>1. Len(<<>>) = 0 /\ FillFramePre(t, t) = <<>>
      BY <1>3, <1>6
    <2>3. <<>> \o <<t>> = <<t>> /\ High(0) = <<>> /\ <<>> \o <<FreqResLow>> = <<FreqResLow>>
      <3>1. <<t>> \in Seq(Int) /\ <<FreqResLow>> \in Seq(Res)
        BY <1>5 DEF Elements
      <3>2. High(0) = <<>>
        BY DEF High
      <3> QED
        BY <3>1, <3>2, ConcatEmptySeq
    <2>4. head.bord = <<t>> /\ head.freq = <<FreqResLow>>
      BY <1>2, <2>1, <2>3
    <2>5. Elements(Int, head.bord, 1) /\ head.bord[1] = t /\ Elements(Res, head.freq, 1)
      BY <1>5, <2>4
    <2> QED
      BY <1>1, <2>5 DEF GoodHead, IsHead, t
  <1>7. ASSUME ~(t <= DMax)
        PROVE  GoodHead(slots, q, head, 2, 1) /\ head.bord[1] > 0
    <2>0. t > DMax
      BY <1>1, <1>7 DEF DMax
    <2> DEFINE s == <<x>>
               u == <<t>>
               v == High(1)
               w == <<FreqResLow>>
               k == 1
    <2>1. /\ Elements(Int, s, k) /\ Elements(Int, u, k) /\ s[1] = x /\ u[1] = t
          /\ Elements(Res, v, k) /\ Elements(Res, w, k) /\ Len(s) = 1
      <3>1. 1 \in Nat /\ x \in Int
        BY <1>4, <2>0
      <3>2. Elements(Int, s, k) /\ s[1] = x /\ Len(s) = 1
        BY <3>1 DEF Elements
      <3>3. Elements(Res, v, k)
        BY <3>1, HighIs
      <3> QED
        BY <1>5, <3>2, <3>3
    <2>2. FillFramePre(t, t) = s
      BY <1>3, <1>7
    <2> HIDE DEF s, u, v, w, k
    <2>3. /\ Elements(Int, s \o u, k + k) /\ MadeOf(s \o u, s, k, u, k)
          /\ Elements(Res, v \o w, k + k)
      BY <2>1, JoinSeqs
    <2>4. head.bord = s \o u /\ head.freq = v \o w
      BY <1>2, <2>1, <2>2 DEF u, v, w
    <2>5. k + k = 2 /\ 1 \in 1 .. k /\ k + 1 = 2
      BY DEF k
    <2>6. Elements(Int, head.bord, 2) /\ Elements(Res, head.freq, 2)
          /\ head.bord[1] = x /\ head.bord[2] = t
      <3>1. (s \o u)[1] = s[1] /\ (s \o u)[k + 1] = u[1]
        BY <2>3, <2>5 DEF MadeOf
      <3> QED
        BY <2>1, <2>3, <2>4, <2>5, <3>1
    <2>7. \A i \in 1 .. 2 - 1 : head.bord[i] < slots /\ head.bord[i] < t
      <3>1. \A i \in 1 .. 2 - 1 : i = 1
        OBVIOUS
      <3> QED
        BY <1>1, <1>4, <2>0, <2>6, <3>1
    <2> QED
      BY <1>1, <1>4, <2>0, <2>6, <2>7 DEF GoodHead, IsHead, t
  <1> QED
    BY <1>6, <1>7 DEF t, head

(* The head of a VARVAR frame: r - 1 borders of the follow-up and then those *)
(* of the transient, if these begin in the head.                            *)
VarVarHead(slots, q, f, n, head, h, r) ==
    /\ GoodHead(slots, q, head, h, r) /\ r \in 2 .. 4 /\ head.nL = r - 2
    /\ h + FrameEnd(slots, q) <= 6
    /\ r - 1 \in 1 .. n /\ r - 1 \in 1 .. h
    /\ \A i \in 1 .. r - 1 : head.bord[i] = f.bord[i]
    /\ r <= h => head.bord[r - 1] < head.bord[r]
    /\ r = h + 1 => (q + FrameMiddleSlot) - head.bord[1] \in 0 .. DMin - 1

(* The borders of a follow-up rise and stay within ten slots. *)
LEMMA FollowUpRises ==
    ASSUME NEW slots \in SlotCounts, NEW f, NEW n, FollowUp(slots, f, n)
    PROVE  /\ n \in 1 .. 3
           /\ \A i \in 1 .. n : f.bord[i] \in 0 .. 9
           /\ \A i, j \in 1 .. n : i < j => f.bord[i] + 2 <= f.bord[j]
           /\ n = 3 => f.bord[3] >= 6
  <1> DEFINE b == f.bord
  <1>1. /\ n \in 1 .. 3 /\ Elements(Int, b, n) /\ b[1] \in 0 .. 3 /\ b[n] <= 9
        /\ Fits(slots, b, 1, n) /\ (n = 3 => b[3] >= 6)
    BY DEF FollowUp
  <1> HIDE DEF b
  <1>2. \A i \in 1 .. n : b[i] \in Int
    BY <1>1, ElementOfSeq DEF Elements
  <1>3. /\ n >= 2 => b[2] \in Int /\ b[2] - b[1] \in 2 .. 8
        /\ n >= 3 => b[3] \in Int /\ b[3] - b[2] \in 2 .. 8
    <2>1. /\ n >= 2 => 1 \in 1 .. n - 1 /\ 1 + 1 = 2 /\ 2 \in 1 .. n
          /\ n >= 3 => 2 \in 1 .. n - 1 /\ 2 + 1 = 3 /\ 3 \in 1 .. n
      BY <1>1
    <2>2. \A k \in 1 .. n - 1 : b[k + 1] - b[k] \in 2 .. 8
      BY <1>1 DEF Fits
    <2> QED
      BY <1>2, <2>1, <2>2
  <1>4. n = 1 \/ n = 2 \/ n = 3
    BY <1>1
  <1>5. \A i \in 1 .. n : i = 1 \/ (i = 2 /\ n >= 2) \/ (i = 3 /\ n >= 3)
    BY <1>1
  <1>6. \A i \in 1 .. n : b[i] \in 0 .. 9
    BY <1>1, <1>3, <1>4, <1>5
  <1>7. \A i, j \in 1 .. n : i < j => (i = 1 /\ j = 2 /\ n >= 2) \/ (i = 1 /\ j = 3 /\ n >= 3)
                                      \/ (i = 2 /\ j = 3 /\ n >= 3)
    BY <1>1
  <1>8. /\ n >= 2 => b[1] + 2 <= b[2]
        /\ n >= 3 => b[1] + 2 <= b[3] /\ b[2] + 2 <= b[3]
    BY <1>1, <1>3
  <1>9. \A i, j \in 1 .. n : i < j => b[i] + 2 <= b[j]
    BY <1>7, <1>8
  <1> QED
    BY <1>1, <1>6, <1>9 DEF b

(* A head of l borders of the follow-up and c of the transient. *)
LEMMA AfterFollowUp ==
    ASSUME NEW slots \in SlotCounts, NEW q \in 0 .. slots - 1, NEW f, NEW n, NEW head,
           FollowUp(slots, f, n), NEW l \in 1 .. n, NEW c \in 1 .. 2,
           Elements(Int, head.bord, l + c), Elements(Res, head.freq, l + c), head.nL = l - 1,
           \A i \in 1 .. l : head.bord[i] = f.bord[i],
           head.bord[l + c] = q + FrameMiddleSlot,
           f.bord[l] < head.bord[l + 1],
           c = 2 => q >= 9 /\ head.bord[l + 2] - head.bord[l + 1] \in {6, 8},
           l + c + FrameEnd(slots, q) <= 6
    PROVE  VarVarHead(slots, q, f, n, head, l + c, l + 1)
  <1> DEFINE h == l + c
             r == l + 1
             t == q + FrameMiddleSlot
             b == head.bord
  <1>1. q \in 0 .. 15 /\ t = q + 4 /\ slots \in 15 .. 16
    BY DEF SlotCounts, FrameMiddleSlot
  <1>2. /\ n \in 1 .. 3 /\ \A i \in 1 .. n : f.bord[i] \in 0 .. 9
        /\ \A i, j \in 1 .. n : i < j => f.bord[i] + 2 <= f.bord[j]
    BY FollowUpRises
  <1>3. l \in 1 .. 3 /\ h \in 2 .. 5 /\ r \in 2 .. 4 /\ (c = 1 => r = h) /\ (c = 2 => r = h - 1 /\ l + 2 = h)
        /\ r - 1 = l /\ h - 1 = l + (c - 1) /\ r - 2 = l - 1
    BY <1>2
  <1>4. /\ Elements(Int, b, h) /\ Elements(Res, head.freq, h) /\ b[h] = t /\ f.bord[l] < b[r]
        /\ \A i \in 1 .. l : b[i] = f.bord[i]
        /\ c = 2 => q >= 9 /\ b[l + 2] - b[r] \in {6, 8}
        /\ h + FrameEnd(slots, q) <= 6
    OBVIOUS
  <1>5. \A i \in 1 .. l : i \in 1 .. n /\ (i < l \/ i = l) /\ l \in 1 .. n
    BY <1>2
  <1> HIDE DEF h, r, b, t
  <1>6. b[r] \in Int /\ b[r] <= t
    <2>1. r \in 1 .. h
      BY <1>3
    <2>2. b[r] \in Int
      BY <1>4, <2>1, ElementOfSeq DEF Elements
    <2>3. CASE c = 1
      BY <1>1, <1>3, <1>4, <2>2, <2>3
    <2>4. CASE c = 2
      <3>1. t - b[r] \in {6, 8}
        BY <1>3, <1>4, <2>4
      <3> QED
        BY <1>1, <2>2, <3>1
    <2> QED
      BY <2>2, <2>3, <2>4
  <1>7. \A i \in 1 .. l : b[i] \in 0 .. 9 /\ b[i] <= f.bord[l] /\ b[i] < t
    <2> TAKE i \in 1 .. l
    <2>1. b[i] = f.bord[i] /\ f.bord[i] \in 0 .. 9 /\ f.bord[l] \in 0 .. 9
      BY <1>2, <1>4, <1>5
    <2>2. f.bord[i] <= f.bord[l]
      <3>1. CASE i = l
        BY <2>1, <3>1
      <3>2. CASE i < l
        <4>1. f.bord[i] + 2 <= f.bord[l]
          BY <1>2, <1>5, <3>2
        <4> QED
          BY <2>1, <4>1
      <3> QED
        BY <1>5, <3>1, <3>2
    <2> QED
      BY <1>1, <1>4, <1>6, <2>1, <2>2
  <1>8. \A i \in 1 .. h - 1 : b[i] < slots /\ b[i] < t
    <2> TAKE i \in 1 .. h - 1
    <2>1. CASE i <= l
      <3>1. i \in 1 .. l
        BY <1>3, <2>1
      <3> QED
        BY <1>1, <1>7, <3>1
    <2>2. CASE i > l
      <3>1. c = 2 /\ i = r /\ l + 2 = h
        BY <1>3, <2>2
      <3>2. t - b[r] \in {6, 8}
        BY <1>4, <3>1
      <3> QED
        BY <1>1, <1>6, <3>1, <3>2
    <2> QED
      BY <1>3, <2>1, <2>2
  <1>9. GoodHead(slots, q, head, h, r)
    <2>1. IsHead(head, h)
      BY <1>3, <1>4 DEF IsHead, b
    <2>2. r = h - 1 => q >= 9 /\ b[h] - b[r] \in {6, 8}
      BY <1>3, <1>4
    <2>3. r <= h /\ r # h + 1 /\ r \in 1 .. h + 1 /\ r >= h - 1
      BY <1>3
    <2> QED
      BY <1>4, <1>8, <2>1, <2>2, <2>3 DEF GoodHead, t, b
  <1>10. b[r - 1] < b[r]
    <2>1. l \in 1 .. l
      BY <1>3
    <2> QED
      BY <1>3, <1>4, <2>1
  <1>11. r - 1 \in 1 .. n /\ r - 1 \in 1 .. h /\ r # h + 1
    BY <1>2, <1>3
  <1>12. \A i \in 1 .. r - 1 : b[i] = f.bord[i]
    BY <1>3, <1>4
  <1>13. head.nL = r - 2
    BY <1>3
  <1> QED
    BY <1>3, <1>4, <1>9, <1>10, <1>11, <1>12, <1>13 DEF VarVarHead, h, r, b

(* The last border of the follow-up that is not behind the transient. *)
LEMMA LastBefore ==
    ASSUME NEW m \in 1 .. 3, NEW b, NEW t, b[1] <= t
    PROVE  LET last == Max({k \in 1 .. m : b[k] <= t})
           IN  last \in 1 .. m /\ b[last] <= t
  <1> DEFINE I == {k \in 1 .. m : b[k] <= t}
             top == IF 3 \in I THEN 3 ELSE IF 2 \in I THEN 2 ELSE 1
  <1>1. 1 \in I
    OBVIOUS
  <1>2. \A k \in I : k \in {1, 2, 3}
    OBVIOUS
  <1>3. \A k \in I : k \in 1 .. m /\ b[k] <= t
    OBVIOUS
  <1> HIDE DEF I
  <1>4. top \in I /\ \A k \in I : top >= k
    BY <1>1, <1>2
  <1>5. Max(I) \in I
    BY <1>4 DEF Max
  <1> QED
    BY <1>3, <1>5 DEF I

(* What the count of borders comes to: the later the transient, the fewer of *)
(* its borders are in the frame.                                            *)
LEMMA FewEnough ==
    ASSUME NEW slots \in SlotCounts, NEW q \in 0 .. slots - 1, NEW f, NEW n, FollowUp(slots, f, n),
           NEW l \in 1 .. n, NEW c \in 1 .. 2,
           c = 1 => l < 3 \/ (q + FrameMiddleSlot) - f.bord[l] >= DMin,
           c = 2 => (q + FrameMiddleSlot) - f.bord[l] > DMax
    PROVE  l + c + FrameEnd(slots, q) <= 6
  <1> DEFINE x == f.bord[l]
             e == FrameEnd(slots, q)
  <1>1. /\ n \in 1 .. 3 /\ x \in 0 .. 9
        /\ l = 3 => x >= 6
        /\ l = 2 => x >= 2
    <2>1. /\ n \in 1 .. 3
          /\ \A i \in 1 .. n : f.bord[i] \in 0 .. 9
          /\ \A i, j \in 1 .. n : i < j => f.bord[i] + 2 <= f.bord[j]
          /\ n = 3 => f.bord[3] >= 6
      BY FollowUpRises
    <2>2. l = 3 => x >= 6
      BY <2>1
    <2>3. ASSUME l = 2 PROVE x >= 2
      <3>1. 1 \in 1 .. n /\ 2 \in 1 .. n /\ x = f.bord[2]
        BY <2>1, <2>3
      <3>2. f.bord[1] + 2 <= f.bord[2] /\ f.bord[1] \in 0 .. 9 /\ f.bord[2] \in 0 .. 9
        BY <2>1, <3>1
      <3> QED
        BY <3>1, <3>2
    <2> QED
      BY <2>1, <2>2, <2>3
  <1>2. q \in 0 .. 15 /\ q + FrameMiddleSlot = q + 4
    BY DEF SlotCounts, FrameMiddleSlot
  <1> HIDE DEF x
  <1>3. /\ c = 1 => l < 3 \/ (q + 4) - x >= 4
        /\ c = 2 => (q + 4) - x > 12
    BY <1>2 DEF x, DMin, DMax
  <1>4. /\ e \in 0 .. 3
        /\ q >= 6 => e <= 2
        /\ q >= 11 => e <= 1
        /\ q >= 15 => e = 0
    BY DEF FrameEnd, SlotCounts
  <1> HIDE DEF e
  <1>5. l = 1 \/ l = 2 \/ l = 3
    BY <1>1
  <1> QED
    BY <1>1, <1>2, <1>3, <1>4, <1>5 DEF e

(* fillFrameInter() makes a good head of every follow-up and every          *)
(* transient.                                                               *)
LEMMA FillFrameIs ==
    ASSUME NEW slots \in SlotCounts, NEW q \in 0 .. slots - 1, NEW f, NEW n, FollowUp(slots, f, n)
    PROVE  \E h, r : VarVarHead(slots, q, f, n, FillFrameInter(q + FrameMiddleSlot, f), h, r)
  <1> DEFINE t == q + FrameMiddleSlot
             head == FillFrameInter(t, f)
             b == f.bord
             m == IF f.fill >= 1 THEN f.fill ELSE Len(b)
             last == Max({k \in 1 .. m : b[k] <= t})
             middle == t - b[last]
             x == t - FillSegment(middle)
             fill == IF middle > DMax THEN FillFramePre(t, middle) ELSE <<>>
             Left(k) == SubSeq(b, 1, k)
             LeftFreq(k) == SubSeq(f.freq, 1, k)
             low == <<FreqResLow>>
             new == <<t>>
  <1>1. q \in 0 .. 15 /\ t = q + 4 /\ t \in 4 .. 19 /\ slots \in 15 .. 16 /\ DMin = 4 /\ DMax = 12
    BY DEF SlotCounts, FrameMiddleSlot, DMin, DMax
  <1>2. /\ n \in 1 .. 3 /\ Elements(Int, b, n) /\ Elements(Res, f.freq, n) /\ b[1] \in 0 .. 3
        /\ f.fill \in Int /\ f.fill <= n
    BY DEF FollowUp
  <1>3. /\ \A i \in 1 .. n : b[i] \in 0 .. 9
        /\ \A i, j \in 1 .. n : i < j => b[i] + 2 <= b[j]
    BY FollowUpRises
  <1>4. m \in 1 .. 3 /\ m <= n
    BY <1>2 DEF Elements
  <1>5. /\ middle >= DMin =>
               /\ head.bord = (Left(last) \o fill) \o new
               /\ head.freq = (LeftFreq(last) \o High(Len(fill))) \o low
               /\ head.nL = last - 1
        /\ middle < DMin /\ last > 1 =>
               /\ head.bord = Left(last - 1) \o new
               /\ head.freq = LeftFreq(last - 1) \o low
               /\ head.nL = last - 2
        /\ ~(middle >= DMin) /\ ~(middle < DMin /\ last > 1) =>
               /\ head.bord = Left(1) /\ head.freq = LeftFreq(1) /\ head.nL = 0
    <2>1. ~(middle >= DMin /\ middle < DMin /\ last > 1)
      <3>1. last \in 1 .. m
        <4> HIDE DEF m, t, b
        <4>1. b[1] <= t
          BY <1>1, <1>2
        <4> QED
          BY <1>4, <4>1, LastBefore
      <3>2. last \in 1 .. n
        BY <1>2, <1>4, <3>1
      <3> HIDE DEF last, m
      <3>3. b[last] \in 0 .. 9
        BY <1>3, <3>2
      <3>4. middle \in Int
        BY <1>1, <3>3
      <3> HIDE DEF middle
      <3> QED
        BY <1>1, <3>4
    <2> HIDE DEF last, middle, fill, m, t
    <2>2. head = CASE middle >= DMin ->
               [bord |-> Left(last) \o fill \o new,
                freq |-> LeftFreq(last) \o High(Len(fill)) \o low,
                nL |-> last - 1]
          [] middle < DMin /\ last > 1 ->
               [bord |-> Left(last - 1) \o new,
                freq |-> LeftFreq(last - 1) \o low,
                nL |-> last - 2]
          [] OTHER -> [bord |-> Left(1), freq |-> LeftFreq(1), nL |-> 0]
      BY DEF FillFrameInter, last, middle, fill, m
    <2> HIDE DEF head, new, low, Left, LeftFreq
    <2> QED
      BY <2>1, <2>2
  <1> HIDE DEF m, t, head, b
  <1>6. last \in 1 .. m /\ b[last] <= t
    <2>1. b[1] <= t
      BY <1>1, <1>2
    <2> QED
      BY <1>4, <2>1, LastBefore
  <1> HIDE DEF last
  <1>7. last \in 1 .. n /\ last \in 1 .. 3 /\ last \in 0 .. n
    BY <1>2, <1>4, <1>6
  <1>8. b[last] \in 0 .. 9 /\ middle \in 0 .. 19 /\ middle = t - b[last]
    <2>1. b[last] \in 0 .. 9
      BY <1>3, <1>7
    <2> QED
      BY <1>1, <1>6, <2>1
  <1> HIDE DEF middle
  <1>9. Elements(Int, new, 1) /\ new[1] = t /\ Elements(Res, low, 1)
    BY <1>1 DEF Elements, Res
  <1> HIDE DEF new, low
  <1>10. ASSUME NEW k \in 0 .. n
         PROVE  /\ Elements(Int, Left(k), k) /\ \A i \in 1 .. k : Left(k)[i] = b[i]
                /\ Elements(Res, LeftFreq(k), k)
    BY <1>2, FirstPart
  <1> HIDE DEF Left, LeftFreq
  <1>11. ASSUME middle >= DMin, middle <= DMax
         PROVE  VarVarHead(slots, q, f, n, head, last + 1, last + 1)
    <2>1. fill = <<>> /\ Len(fill) = 0 /\ High(0) = <<>>
      BY <1>1, <1>8, <1>11 DEF High
    <2>2. head.bord = Left(last) \o new /\ head.freq = LeftFreq(last) \o low
      <3>1. Left(last) \in Seq(Int) /\ LeftFreq(last) \in Seq(Res)
        BY <1>7, <1>10 DEF Elements
      <3>2. Left(last) \o <<>> = Left(last) /\ LeftFreq(last) \o <<>> = LeftFreq(last)
        BY <3>1, ConcatEmptySeq
      <3> HIDE DEF fill
      <3> QED
        BY <1>5, <1>11, <2>1, <3>2
    <2>3. /\ Elements(Int, head.bord, last + 1) /\ MadeOf(head.bord, Left(last), last, new, 1)
          /\ Elements(Res, head.freq, last + 1)
      BY <1>7, <1>9, <1>10, <2>2, JoinSeqs
    <2>4. head.nL = last - 1
      BY <1>5, <1>11
    <2>5. \A i \in 1 .. last : head.bord[i] = b[i]
      BY <1>7, <1>10, <2>3 DEF MadeOf
    <2>6. head.bord[last + 1] = t
      <3>1. 1 \in 1 .. 1
        OBVIOUS
      <3> QED
        BY <1>9, <2>3, <3>1 DEF MadeOf
    <2>7. b[last] < head.bord[last + 1]
      BY <1>1, <1>8, <1>11, <2>6
    <2> DEFINE c == 1
    <2>8. c \in 1 .. 2 /\ c # 2 /\ last + c = last + 1
      OBVIOUS
    <2> HIDE DEF c
    <2>9. last + c + FrameEnd(slots, q) <= 6
      <3>1. t - b[last] >= DMin
        BY <1>8, <1>11
      <3> QED
        BY <1>7, <2>8, <3>1, FewEnough DEF t, b
    <2>10. VarVarHead(slots, q, f, n, head, last + c, last + 1)
      BY <1>7, <2>3, <2>4, <2>5, <2>6, <2>7, <2>8, <2>9, AfterFollowUp DEF b, t
    <2> QED
      BY <2>8, <2>10
  <1>12. ASSUME middle > DMax
         PROVE  VarVarHead(slots, q, f, n, head, last + 2, last + 1)
    <2>1. /\ middle \in 13 .. 19 /\ x \in Int /\ t - x \in {6, 8} /\ q >= 9 /\ b[last] < x
      BY <1>1, <1>8, <1>12 DEF FillSegment
    <2>2. fill = <<x>>
      <3>1. middle \in 4 .. 19 /\ t \in Int /\ ~(middle <= DMax)
        BY <1>1, <1>12, <2>1
      <3> QED
        BY <1>12, <3>1, PreIs
    <2> HIDE DEF x, fill
    <2>3. Elements(Int, fill, 1) /\ fill[1] = x /\ Len(fill) = 1
      BY <2>1, <2>2 DEF Elements
    <2>4. Elements(Res, High(1), 1)
      BY HighIs
    <2> DEFINE u == Left(last) \o fill
               v == LeftFreq(last) \o High(1)
    <2>5. Elements(Int, u, last + 1) /\ MadeOf(u, Left(last), last, fill, 1)
          /\ Elements(Res, v, last + 1)
      BY <1>7, <1>10, <2>3, <2>4, JoinSeqs
    <2>6. head.bord = u \o new /\ head.freq = v \o low /\ head.nL = last - 1
      <3>1. middle >= DMin
        BY <1>1, <2>1
      <3> QED
        BY <1>5, <2>3, <3>1
    <2> HIDE DEF u, v
    <2>7. /\ Elements(Int, head.bord, (last + 1) + 1) /\ MadeOf(head.bord, u, last + 1, new, 1)
          /\ Elements(Res, head.freq, (last + 1) + 1)
      BY <1>9, <2>5, <2>6, JoinSeqs
    <2> DEFINE c == 2
    <2>8. c \in 1 .. 2 /\ c = 2 /\ c # 1 /\ last + c = (last + 1) + 1
      BY <1>7
    <2>9. \A i \in 1 .. last : head.bord[i] = b[i]
      <3>1. \A i \in 1 .. last : i \in 1 .. last + 1
        BY <1>7
      <3> QED
        BY <1>7, <1>10, <2>5, <2>7, <3>1 DEF MadeOf
    <2>10. head.bord[last + 1] = x
      <3>1. 1 \in 1 .. 1 /\ last + 1 \in 1 .. last + 1
        BY <1>7
      <3>2. head.bord[last + 1] = u[last + 1]
        BY <2>7, <3>1 DEF MadeOf
      <3> QED
        BY <2>3, <2>5, <3>1, <3>2 DEF MadeOf
    <2>11. head.bord[(last + 1) + 1] = t
      <3>1. 1 \in 1 .. 1
        OBVIOUS
      <3> QED
        BY <1>9, <2>7, <3>1 DEF MadeOf
    <2>12. (last + 1) + 1 = last + 2
      BY <1>7
    <2>13. b[last] < head.bord[last + 1] /\ head.bord[last + 2] - head.bord[last + 1] \in {6, 8}
      BY <2>1, <2>10, <2>11, <2>12
    <2>14. last + c + FrameEnd(slots, q) <= 6
      <3>1. t - b[last] > DMax
        BY <1>8, <1>12
      <3> HIDE DEF c
      <3> QED
        BY <1>7, <2>8, <3>1, FewEnough DEF t, b
    <2> HIDE DEF c
    <2>15. Elements(Int, head.bord, last + c) /\ Elements(Res, head.freq, last + c)
           /\ head.bord[last + c] = t
      BY <2>7, <2>8, <2>11
    <2>16. VarVarHead(slots, q, f, n, head, last + c, last + 1)
      BY <1>7, <2>1, <2>6, <2>8, <2>9, <2>13, <2>14, <2>15, AfterFollowUp DEF b, t
    <2> QED
      BY <2>8, <2>16
  <1>13. ASSUME middle < DMin, last > 1
         PROVE  VarVarHead(slots, q, f, n, head, last, last)
    <2> DEFINE l == last - 1
               c == 1
    <2>1. l \in 1 .. n /\ l \in 0 .. n /\ l < 3 /\ l + 1 = last /\ l < last /\ last - 2 = l - 1
      BY <1>2, <1>7, <1>13
    <2>2. head.bord = Left(l) \o new /\ head.freq = LeftFreq(l) \o low /\ head.nL = l - 1
      BY <1>5, <1>13, <2>1
    <2> HIDE DEF l
    <2>3. /\ Elements(Int, head.bord, l + 1) /\ MadeOf(head.bord, Left(l), l, new, 1)
          /\ Elements(Res, head.freq, l + 1)
      BY <1>9, <1>10, <2>1, <2>2, JoinSeqs
    <2>4. \A i \in 1 .. l : head.bord[i] = b[i]
      BY <1>10, <2>1, <2>3 DEF MadeOf
    <2>5. head.bord[l + 1] = t
      <3>1. 1 \in 1 .. 1
        OBVIOUS
      <3> QED
        BY <1>9, <2>3, <3>1 DEF MadeOf
    <2>6. b[l] < head.bord[l + 1]
      <3>1. b[l] + 2 <= b[last] /\ b[l] \in 0 .. 9
        BY <1>3, <1>7, <2>1
      <3> QED
        BY <1>1, <1>6, <1>8, <2>5, <3>1
    <2>7. c \in 1 .. 2 /\ c # 2 /\ l + c = l + 1
      OBVIOUS
    <2> HIDE DEF c
    <2>8. l + c + FrameEnd(slots, q) <= 6
      BY <2>1, <2>7, FewEnough
    <2>9. VarVarHead(slots, q, f, n, head, l + c, l + 1)
      BY <2>1, <2>2, <2>3, <2>4, <2>5, <2>6, <2>7, <2>8, AfterFollowUp DEF b, t
    <2> QED
      BY <2>1, <2>7, <2>9
  <1>14. ASSUME middle < DMin, last = 1
         PROVE  VarVarHead(slots, q, f, n, head, 1, 2)
    <2> DEFINE k == 1
    <2>1. k \in 0 .. n /\ 1 \in 1 .. k /\ k = 1
      BY <1>2
    <2>2. head.bord = Left(k) /\ head.freq = LeftFreq(k) /\ head.nL = 0
      BY <1>1, <1>5, <1>8, <1>14
    <2> HIDE DEF k
    <2>3. Elements(Int, head.bord, k) /\ Elements(Res, head.freq, k) /\ head.bord[1] = b[1]
      BY <1>10, <2>1, <2>2
    <2>4. t - b[1] \in 0 .. 3 /\ q <= 2
      BY <1>1, <1>2, <1>8, <1>14
    <2>5. FrameEnd(slots, q) <= 3
      BY DEF FrameEnd
    <2>6. GoodHead(slots, q, head, 1, 2)
      <3>1. IsHead(head, 1)
        BY <2>1, <2>3 DEF IsHead
      <3> QED
        BY <1>2, <2>3, <2>4, <3>1 DEF GoodHead
    <2>7. FrameEnd(slots, q) \in 0 .. 3
      BY DEF FrameEnd
    <2> QED
      BY <1>1, <1>2, <2>2, <2>3, <2>4, <2>6, <2>7 DEF VarVarHead, b, t
  <1>15. \E h, r : VarVarHead(slots, q, f, n, head, h, r)
    <2>1. \/ middle >= DMin /\ middle <= DMax
          \/ middle > DMax
          \/ middle < DMin /\ last > 1
          \/ middle < DMin /\ last = 1
      BY <1>1, <1>7, <1>8
    <2> QED
      BY <1>11, <1>12, <1>13, <1>14, <2>1
  <1> QED
    BY <1>15 DEF head, t

-----------------------------------------------------------------------------
(* The grids of the constant classes *)

(* The number of envelopes of FIXFIX is sent as its logarithm. *)
LEMMA CeilLog2Of ==
    /\ CeilLog2(1) = 0 /\ CeilLog2(2) = 1 /\ CeilLog2(4) = 2
    /\ Bits(CeilLog2(1), 2) = 0 /\ Bits(CeilLog2(2), 2) = 1 /\ Bits(CeilLog2(4), 2) = 2
    /\ 2 ^ 0 = 1 /\ 2 ^ 1 = 2 /\ 2 ^ 2 = 4
  <1>1. 2 ^ 0 = 1 /\ 2 ^ 1 = 2 /\ 2 ^ 2 = 4 /\ 2 ^ 3 = 8 /\ 2 ^ 4 = 16
    OBVIOUS
  <1> DEFINE P(n, k) == 2 ^ k >= n /\ (k = 0 \/ 2 ^ (k - 1) < n)
  <1>2. /\ \A k \in 0 .. 1 : P(1, k) <=> k = 0
        /\ \A k \in 0 .. 2 : P(2, k) <=> k = 1
        /\ \A k \in 0 .. 4 : P(4, k) <=> k = 2
    <2>1. \A k \in 0 .. 4 : k = 0 \/ k = 1 \/ k = 2 \/ k = 3 \/ k = 4
      OBVIOUS
    <2>2. /\ P(1, 0) /\ ~P(1, 1) /\ ~P(2, 0) /\ P(2, 1) /\ ~P(2, 2)
          /\ ~P(4, 0) /\ ~P(4, 1) /\ P(4, 2) /\ ~P(4, 3) /\ ~P(4, 4)
      BY <1>1
    <2> HIDE DEF P
    <2>3. \A k \in 0 .. 1 : k = 0 \/ k = 1
      OBVIOUS
    <2>4. \A k \in 0 .. 2 : k = 0 \/ k = 1 \/ k = 2
      OBVIOUS
    <2> QED
      BY <2>1, <2>2, <2>3, <2>4
  <1>3. \A n : CeilLog2(n) = CHOOSE k \in 0 .. n : P(n, k)
    BY DEF CeilLog2
  <1> HIDE DEF P
  <1>4. CeilLog2(1) = 0 /\ CeilLog2(2) = 1 /\ CeilLog2(4) = 2
    <2>1. CeilLog2(1) = 0
      BY <1>2, <1>3
    <2>2. CeilLog2(2) = 1
      BY <1>2, <1>3
    <2>3. CeilLog2(4) = 2
      BY <1>2, <1>3
    <2> QED
      BY <2>1, <2>2, <2>3
  <1> QED
    BY <1>1, <1>4 DEF Bits

(* How far a frame may reach into the next. *)
LEMMA OverlapIs ==
    ASSUME NEW lowDelay \in BOOLEAN
    PROVE  Overlap(lowDelay) \in 0 .. 3
  BY DEF Overlap

(* A grid that the decoder reads exactly as it was laid. *)
ReadExactly(slots, n, i, x) ==
    /\ LaidInfo(slots, n, i) /\ i.borders[1] = 0 /\ Last(i.borders) = slots
    /\ x.valid /\ x.borders = i.borders /\ x.freqRes = i.freqRes /\ x.noise = i.noise
    /\ i.shortEnv = Max({x.tranEnv, 0})

(* What passes the check of the decoder is read exactly. *)
LEMMA Exactly ==
    ASSUME NEW slots \in SlotCounts, NEW lowDelay \in BOOLEAN, NEW n \in 0 .. 4, NEW i, NEW b,
           LET y == Extract(slots, b)
           IN  /\ y.valid /\ y.borders = i.borders /\ y.freqRes = i.freqRes /\ y.noise = i.noise
               /\ i.shortEnv = Max({y.tranEnv, 0}) /\ y.tranEnv \in -1 .. n + 1,
           LaidInfo(slots, n, i), i.borders[1] = 0, Last(i.borders) = slots
    PROVE  ReadExactly(slots, n, i, ExtractFrameInfo(slots, lowDelay, b))
  <1> DEFINE y == Extract(slots, b)
             over == Overlap(lowDelay)
  <1>1. over \in 0 .. 3 /\ slots \in Int
    BY OverlapIs DEF SlotCounts
  <1>2. /\ y.valid /\ y.borders = i.borders /\ y.freqRes = i.freqRes /\ y.noise = i.noise
        /\ i.shortEnv = Max({y.tranEnv, 0}) /\ y.tranEnv \in -1 .. n + 1
    OBVIOUS
  <1>3. ExtractFrameInfo(slots, lowDelay, b)
          = IF y.valid /\ CheckFrameInfo(slots, over, y) THEN y ELSE Rejected
    BY DEF ExtractFrameInfo
  <1> HIDE DEF y, over
  <1>4. /\ Rising(i.borders, n + 2) /\ Len(i.freqRes) = n + 1 /\ NoiseOf(i.noise, i.borders, n)
    BY DEF LaidInfo
  <1>5. i.borders[n + 2] = slots
    BY <1>4 DEF Rising, Last
  <1>6. CheckFrameInfo(slots, over, y)
    <2>1. /\ Rising(y.borders, n + 2)
          /\ y.borders[1] \in 0 .. over /\ y.borders[n + 2] \in slots .. slots + over
          /\ Len(y.freqRes) = n + 1 /\ y.tranEnv \in -1 .. n + 1
          /\ NoiseOf(y.noise, y.borders, n)
      BY <1>1, <1>2, <1>4, <1>5
    <2> QED
      BY <1>1, <2>1, Accepted
  <1> QED
    BY <1>2, <1>3, <1>6 DEF ReadExactly

(* FIXFIX: a constant frame. *)
LEMMA FixFixRead ==
    ASSUME NEW slots \in SlotCounts, NEW lowDelay \in BOOLEAN, NEW num \in {1, 2, 4},
           NEW res \in Res
    PROVE  LET g == FixFixSignal(num, res)
               i == FixFixInfo(slots, g)
           IN  /\ ReadExactly(slots, num - 1, i,
                              ExtractFrameInfo(slots, lowDelay, EncodeSbrGrid(slots, g)))
               /\ g.class = "FIXFIX" /\ g.relLeft = <<>> /\ g.relRight = <<>>
               /\ i.shortEnv = 0
               /\ num \in {1, 2} => i.borders \in {<<0, slots>>, <<0, 8, slots>>}
  <1> DEFINE g == FixFixSignal(num, res)
             i == FixFixInfo(slots, g)
             b == EncodeSbrGrid(slots, g)
             def == CreateDefFrameInfo(slots, num)
             n == num - 1
             f == [k \in 1 .. num |-> res]
             y == Extract(slots, b)
  <1>1. slots \in 15 .. 16 /\ n \in 0 .. 4
    BY DEF SlotCounts
  <1>2. g.class = "FIXFIX" /\ g.num = num /\ g.freq = f /\ g.relLeft = <<>> /\ g.relRight = <<>>
    BY DEF FixFixSignal, Grid
  <1>3. i = [borders |-> def.borders, freqRes |-> f, shortEnv |-> 0, noise |-> def.noise]
    BY <1>2 DEF FixFixInfo
  <1>4. f[1] = res /\ Len(f) = num /\ f = [k \in 1 .. num |-> f[1]] /\ Len(f) = n + 1
    OBVIOUS
  <1>5. b.class = "FIXFIX" /\ b.numBits = Bits(CeilLog2(num), 2) /\ b.freq = <<f[1]>>
    BY <1>2 DEF EncodeSbrGrid
  <1> HIDE DEF g, i, b, f
  <1>6. 2 ^ b.numBits = num
    <2>1. CASE num = 1
      BY <1>5, <2>1, CeilLog2Of
    <2>2. CASE num = 2
      BY <1>5, <2>2, CeilLog2Of
    <2>3. CASE num = 4
      BY <1>5, <2>3, CeilLog2Of
    <2> QED
      BY <2>1, <2>2, <2>3
  <1>7. y = [valid |-> TRUE, borders |-> def.borders, freqRes |-> f, tranEnv |-> -1,
             noise |-> def.noise]
    <2>1. y = ExtractFixFix(slots, b)
      BY <1>5 DEF Extract
    <2>2. ExtractFixFix(slots, b)
            = [valid |-> TRUE, borders |-> CreateDefFrameInfo(slots, 2 ^ b.numBits).borders,
               freqRes |-> [k \in 1 .. 2 ^ b.numBits |-> b.freq[1]], tranEnv |-> -1,
               noise |-> CreateDefFrameInfo(slots, 2 ^ b.numBits).noise]
      BY DEF ExtractFixFix
    <2>3. b.freq[1] = f[1]
      BY <1>5
    <2> HIDE DEF y
    <2> QED
      BY <1>4, <1>6, <2>1, <2>2, <2>3
  <1>8. /\ Rising(def.borders, n + 2) /\ def.borders[1] = 0 /\ Last(def.borders) = slots
        /\ NoiseOf(def.noise, def.borders, n)
        /\ num \in {1, 2} => def.borders \in {<<0, slots>>, <<0, 8, slots>>}
    <2>0. 0 \in Int /\ 4 \in Int /\ 8 \in Int /\ 12 \in Int /\ slots \in Int /\ 12 < slots
          /\ 0 < slots /\ 0 < 4 /\ 4 < 8 /\ 8 < 12 /\ 0 < 8 /\ 8 < slots
      BY <1>1
    <2>1. CASE num = 1
      <3>1. def.borders = <<0, slots>> /\ def.noise = <<0, slots>> /\ n = 0
        BY <2>1 DEF CreateDefFrameInfo
      <3> HIDE DEF def, n
      <3>2. n + 2 = 2
        BY <3>1
      <3>3. Rising(<<0, slots>>, 2) /\ <<0, slots>>[1] = 0 /\ Last(<<0, slots>>) = slots
        BY <2>0 DEF Rising, Ascending, Last
      <3> QED
        BY <3>1, <3>2, <3>3 DEF NoiseOf
    <2>2. CASE num = 2
      <3>1. def.borders = <<0, 8, slots>> /\ def.noise = <<0, 8, slots>> /\ n = 1
        BY <2>2 DEF CreateDefFrameInfo
      <3> HIDE DEF def, n
      <3>2. n + 2 = 3 /\ 1 \in 1 .. n /\ 1 + 1 = 2
        BY <3>1
      <3>3. Rising(<<0, 8, slots>>, 3) /\ <<0, 8, slots>>[1] = 0 /\ Last(<<0, 8, slots>>) = slots
        BY <2>0 DEF Rising, Ascending, Last
      <3>4. NoiseOf(def.noise, def.borders, n)
        <4>1. def.noise = <<def.borders[1], def.borders[1 + 1], def.borders[n + 2]>>
          BY <3>1, <3>2
        <4> QED
          BY <3>2, <4>1 DEF NoiseOf
      <3> QED
        BY <3>1, <3>2, <3>3, <3>4
    <2>3. CASE num = 4
      <3>1. def.borders = <<0, 4, 8, 12, slots>> /\ def.noise = <<0, 8, slots>> /\ n = 3
        BY <2>3 DEF CreateDefFrameInfo
      <3> HIDE DEF def, n
      <3>2. n + 2 = 5 /\ 2 \in 1 .. n /\ 2 + 1 = 3
        BY <3>1
      <3>3. Rising(<<0, 4, 8, 12, slots>>, 5) /\ <<0, 4, 8, 12, slots>>[1] = 0
            /\ Last(<<0, 4, 8, 12, slots>>) = slots
        BY <2>0 DEF Rising, Ascending, Last
      <3>4. NoiseOf(def.noise, def.borders, n)
        <4>1. def.noise = <<def.borders[1], def.borders[2 + 1], def.borders[n + 2]>>
          BY <3>1, <3>2
        <4> QED
          BY <3>2, <4>1 DEF NoiseOf
      <3> QED
        BY <2>3, <3>1, <3>2, <3>3, <3>4
    <2> QED
      BY <2>1, <2>2, <2>3
  <1> HIDE DEF def, n
  <1>9. LaidInfo(slots, n, i) /\ i.borders[1] = 0 /\ Last(i.borders) = slots
    BY <1>1, <1>3, <1>4, <1>8 DEF LaidInfo
  <1>10. /\ y.valid /\ y.borders = i.borders /\ y.freqRes = i.freqRes /\ y.noise = i.noise
         /\ i.shortEnv = Max({y.tranEnv, 0}) /\ y.tranEnv \in -1 .. n + 1
    <2>1. Max({-1, 0}) = 0
      BY MaxOfTwo
    <2> HIDE DEF y
    <2> QED
      BY <1>1, <1>3, <1>7, <2>1
  <1>11. ReadExactly(slots, n, i, ExtractFrameInfo(slots, lowDelay, b))
    BY <1>1, <1>9, <1>10, Exactly
  <1> QED
    BY <1>2, <1>3, <1>8, <1>11 DEF g, i, b, n

(* One or two borders between two others. *)
LEMMA ThreeInARow ==
    ASSUME NEW a \in Int, NEW x \in Int, NEW z \in Int
    PROVE  <<a>> \o <<x>> \o <<z>> = <<a, x, z>>
  <1> DEFINE A == <<a>>
             X == <<x>>
             Z == <<z>>
             U == A \o X
             UZ == <<a, x, z>>
  <1>1. /\ A \in Seq(Int) /\ X \in Seq(Int) /\ Z \in Seq(Int)
        /\ Len(A) = 1 /\ Len(X) = 1 /\ Len(Z) = 1
        /\ A[1] = a /\ X[1] = x /\ Z[1] = z
        /\ UZ \in Seq(Int) /\ Len(UZ) = 3 /\ UZ[1] = a /\ UZ[2] = x /\ UZ[3] = z
    OBVIOUS
  <1> HIDE DEF A, X, Z, UZ
  <1> DEFINE one == 1
             two == 2
  <1>2. one = 1 /\ two = 2
    OBVIOUS
  <1> HIDE DEF one, two
  <1>3. Elements(Int, A, one) /\ Elements(Int, X, one) /\ Elements(Int, Z, one)
    BY <1>1, <1>2 DEF Elements
  <1>4. /\ U \o Z \in Seq(Int) /\ Len(U \o Z) = 3
        /\ (U \o Z)[1] = a /\ (U \o Z)[2] = x /\ (U \o Z)[3] = z
    <2>1. Elements(Int, U, one + one) /\ MadeOf(U, A, one, X, one)
      BY <1>3, JoinSeqs
    <2> HIDE DEF U
    <2>2. Elements(Int, U, two)
      BY <1>2, <2>1
    <2>3. Elements(Int, U \o Z, two + one) /\ MadeOf(U \o Z, U, two, Z, one)
      BY <1>3, <2>2, JoinSeqs
    <2> DEFINE W == U \o Z
    <2>4. Elements(Int, W, two + one) /\ MadeOf(W, U, two, Z, one)
      BY <2>3
    <2> HIDE DEF W
    <2>5. /\ U[1] = a /\ U[1 + 1] = x /\ W[1] = U[1] /\ W[2] = U[2] /\ W[2 + 1] = z
      BY <1>1, <1>2, <2>1, <2>4 DEF MadeOf
    <2>6. W \in Seq(Int) /\ Len(W) = 3 /\ W[1] = a /\ W[2] = x /\ W[3] = z
      BY <1>2, <2>4, <2>5 DEF Elements
    <2> QED
      BY <2>6 DEF W
  <1> HIDE DEF U
  <1>5. U \o Z = UZ
    <2>1. \A i \in 1 .. 3 : (U \o Z)[i] = UZ[i]
      <3>1. \A i \in 1 .. 3 : i = 1 \/ i = 2 \/ i = 3
        OBVIOUS
      <3> QED
        BY <1>1, <1>4, <3>1
    <2> QED
      BY <1>1, <1>4, <2>1, SeqEqual
  <1> QED
    BY <1>5 DEF A, X, Z, U, UZ

LEMMA FourInARow ==
    ASSUME NEW a \in Int, NEW x \in Int, NEW y \in Int, NEW z \in Int
    PROVE  <<a>> \o <<x, y>> \o <<z>> = <<a, x, y, z>>
  <1> DEFINE A == <<a>>
             Y == <<x, y>>
             Z == <<z>>
             V == A \o Y
             VZ == <<a, x, y, z>>
  <1>1. /\ A \in Seq(Int) /\ Y \in Seq(Int) /\ Z \in Seq(Int)
        /\ Len(A) = 1 /\ Len(Y) = 2 /\ Len(Z) = 1
        /\ A[1] = a /\ Y[1] = x /\ Y[2] = y /\ Z[1] = z
        /\ VZ \in Seq(Int) /\ Len(VZ) = 4 /\ VZ[1] = a /\ VZ[2] = x /\ VZ[3] = y /\ VZ[4] = z
    OBVIOUS
  <1> HIDE DEF A, Y, Z, VZ
  <1> DEFINE one == 1
             two == 2
             three == 3
  <1>2. one = 1 /\ two = 2 /\ three = 3
    OBVIOUS
  <1> HIDE DEF one, two, three
  <1>3. Elements(Int, A, one) /\ Elements(Int, Y, two) /\ Elements(Int, Z, one)
    BY <1>1, <1>2 DEF Elements
  <1>4. /\ V \o Z \in Seq(Int) /\ Len(V \o Z) = 4
        /\ (V \o Z)[1] = a /\ (V \o Z)[2] = x /\ (V \o Z)[3] = y /\ (V \o Z)[4] = z
    <2>1. Elements(Int, V, one + two) /\ MadeOf(V, A, one, Y, two)
      BY <1>3, JoinSeqs
    <2> HIDE DEF V
    <2>2. Elements(Int, V, three)
      BY <1>2, <2>1
    <2>3. Elements(Int, V \o Z, three + one) /\ MadeOf(V \o Z, V, three, Z, one)
      BY <1>3, <2>2, JoinSeqs
    <2> DEFINE W == V \o Z
    <2>4. Elements(Int, W, three + one) /\ MadeOf(W, V, three, Z, one)
      BY <2>3
    <2> HIDE DEF W
    <2>5. /\ V[1] = a /\ V[1 + 1] = x /\ V[1 + 2] = y
          /\ W[1] = V[1] /\ W[2] = V[2] /\ W[3] = V[3] /\ W[3 + 1] = z
      BY <1>1, <1>2, <2>1, <2>4 DEF MadeOf
    <2>6. W \in Seq(Int) /\ Len(W) = 4 /\ W[1] = a /\ W[2] = x /\ W[3] = y /\ W[4] = z
      BY <1>2, <2>4, <2>5 DEF Elements
    <2> QED
      BY <2>6 DEF W
  <1> HIDE DEF V
  <1>5. V \o Z = VZ
    <2>1. \A i \in 1 .. 4 : (V \o Z)[i] = VZ[i]
      <3>1. \A i \in 1 .. 4 : i = 1 \/ i = 2 \/ i = 3 \/ i = 4
        OBVIOUS
      <3> QED
        BY <1>1, <1>4, <3>1
    <2> QED
      BY <1>1, <1>4, <2>1, SeqEqual
  <1> QED
    BY <1>5 DEF A, Y, Z, V, VZ

(* The borders of a frame with a transient in low delay: n inner ones. *)
LEMMA EnvelopeTableIs ==
    ASSUME NEW slots \in SlotCounts, NEW q \in 0 .. slots - 1
    PROVE  LET b == <<0>> \o EnvelopeTable(slots, q) \o <<slots>>
           IN  \E n \in 1 .. 2 : /\ Rising(b, n + 2) /\ b[1] = 0 /\ Last(b) = slots
                                 /\ b[2] = (IF q < 2 THEN q + 4 ELSE q)
  <1> DEFINE b == <<0>> \o EnvelopeTable(slots, q) \o <<slots>>
             b2 == IF q < 2 THEN q + 4 ELSE q
  <1>1. slots \in 15 .. 16 /\ q \in 0 .. 15 /\ q < slots
    BY DEF SlotCounts
  <1>2. ASSUME NEW x \in Int, EnvelopeTable(slots, q) = <<x>>
        PROVE  b = <<0, x, slots>>
    <2> DEFINE zero == 0
    <2>1. zero \in Int /\ slots \in Int
      BY <1>1
    <2> HIDE DEF zero
    <2>2. <<zero>> \o <<x>> \o <<slots>> = <<zero, x, slots>>
      BY <2>1, ThreeInARow
    <2> QED
      BY <1>2, <2>2 DEF zero
  <1>3. ASSUME NEW x \in Int, NEW y \in Int, EnvelopeTable(slots, q) = <<x, y>>
        PROVE  b = <<0, x, y, slots>>
    <2> DEFINE zero == 0
    <2>1. zero \in Int /\ slots \in Int
      BY <1>1
    <2> HIDE DEF zero
    <2>2. <<zero>> \o <<x, y>> \o <<slots>> = <<zero, x, y, slots>>
      BY <2>1, FourInARow
    <2> QED
      BY <1>3, <2>2 DEF zero
  <1> HIDE DEF b
  <1>4. CASE q < 2 \/ q + 4 > slots - 2
    <2>1. EnvelopeTable(slots, q) = <<b2>>
      BY <1>1, <1>4 DEF EnvelopeTable
    <2>2. b2 \in Int /\ 0 < b2 /\ b2 < slots
      BY <1>1, <1>4
    <2> HIDE DEF b2
    <2>3. b = <<0, b2, slots>>
      BY <1>2, <2>1, <2>2
    <2>4. /\ Rising(<<0, b2, slots>>, 3) /\ Last(<<0, b2, slots>>) = slots
          /\ <<0, b2, slots>>[1] = 0 /\ <<0, b2, slots>>[2] = b2
      BY <1>1, <2>2 DEF Rising, Ascending, Last
    <2>5. 1 + 2 = 3 /\ 1 \in 1 .. 2
      OBVIOUS
    <2> QED
      BY <2>3, <2>4, <2>5 DEF b, b2
  <1>5. CASE ~(q < 2 \/ q + 4 > slots - 2)
    <2> DEFINE y == q + 4
    <2>1. y \in Int /\ q \in Int /\ 0 < q /\ q < y /\ y < slots /\ b2 = q
      BY <1>1, <1>5
    <2>2. EnvelopeTable(slots, q) = <<q, y>>
      BY <1>1, <1>5 DEF EnvelopeTable
    <2> HIDE DEF b2, y
    <2>3. b = <<0, q, y, slots>>
      BY <1>3, <2>1, <2>2
    <2>4. /\ Rising(<<0, q, y, slots>>, 4) /\ Last(<<0, q, y, slots>>) = slots
          /\ <<0, q, y, slots>>[1] = 0 /\ <<0, q, y, slots>>[2] = q
      BY <1>1, <2>1 DEF Rising, Ascending, Last
    <2>5. 2 + 2 = 4 /\ 2 \in 1 .. 2
      OBVIOUS
    <2> QED
      BY <2>1, <2>3, <2>4, <2>5 DEF b, b2
  <1> QED
    BY <1>4, <1>5

(* FIXFIXonly: the position is sent, the rest is in a table. *)
LEMMA FixFixOnlyRead ==
    ASSUME NEW slots \in SlotCounts, NEW lowDelay \in BOOLEAN, NEW q \in 0 .. slots - 1,
           NEW transIsLow \in BOOLEAN
    PROVE  LET i == GenerateFixFixOnly(slots, q, transIsLow)
               g == FixFixOnlySignal(q, i)
           IN  /\ \E n \in 1 .. 2 :
                     ReadExactly(slots, n, i,
                                 ExtractFrameInfo(slots, lowDelay, EncodeSbrGrid(slots, g)))
               /\ g.class = "FIXFIXonly" /\ g.relLeft = <<>> /\ g.relRight = <<>>
               /\ q >= 2 => i.borders[2] = q
  <1> DEFINE i == GenerateFixFixOnly(slots, q, transIsLow)
             g == FixFixOnlySignal(q, i)
             b == EncodeSbrGrid(slots, g)
             s == <<0>> \o EnvelopeTable(slots, q) \o <<slots>>
             f == [k \in 1 .. Len(s) - 1 |->
                         IF ~transIsLow /\ Steps(s)[k] > 5
                         THEN FreqResHigh ELSE FreqResLow]
             short == IF q < 2 THEN 0 ELSE 1
             noise == <<0, s[2], slots>>
             y == Extract(slots, b)
  <1>1. slots \in 15 .. 16 /\ q \in 0 .. 15 /\ q < slots
    BY DEF SlotCounts
  <1>2. g.class = "FIXFIXonly" /\ g.tranPos = q /\ g.freq = i.freqRes
        /\ g.relLeft = <<>> /\ g.relRight = <<>>
    BY DEF FixFixOnlySignal, Grid
  <1>3. i = [borders |-> s, freqRes |-> f, shortEnv |-> short, noise |-> noise]
    BY DEF GenerateFixFixOnly
  <1>4. b.class = "FIXFIXonly" /\ b.tranPos = Bits(q, 4) /\ b.freq = i.freqRes
    BY <1>2 DEF EncodeSbrGrid
  <1>5. PICK n \in 1 .. 2 : /\ Rising(s, n + 2) /\ s[1] = 0 /\ Last(s) = slots
                            /\ s[2] = (IF q < 2 THEN q + 4 ELSE q)
    BY EnvelopeTableIs
  <1> HIDE DEF g, i, b, s
  <1>6. b.tranPos = q
    <2>1. 2 ^ 4 = 16
      OBVIOUS
    <2> QED
      BY <1>1, <1>4, <2>1 DEF Bits
  <1>7. Len(s) = n + 2 /\ Len(s) - 1 = n + 1
    BY <1>5 DEF Rising
  <1>8. f \in Seq(Res) /\ Len(f) = n + 1 /\ SubSeq(f, 1, Len(s) - 1) = f
    <2>1. f \in Seq(Res) /\ Len(f) = n + 1
      BY <1>7 DEF Res
    <2> HIDE DEF f
    <2>2. SubSeq(f, 1, Len(f)) = f
      BY <2>1, SubSeqFull
    <2> QED
      BY <1>7, <2>1, <2>2
  <1> HIDE DEF f
  <1>9. y = [valid |-> TRUE, borders |-> s, freqRes |-> f, tranEnv |-> short, noise |-> noise]
    <2>1. y = ExtractLowDelayGrid(slots, b)
      BY <1>4 DEF Extract
    <2>2. ExtractLowDelayGrid(slots, b)
            = [valid |-> q < slots, borders |-> s, freqRes |-> SubSeq(b.freq, 1, Len(s) - 1),
               tranEnv |-> short, noise |-> noise]
      BY <1>6 DEF ExtractLowDelayGrid, s
    <2>3. b.freq = f
      BY <1>3, <1>4
    <2>4. (q < slots) = TRUE
      BY <1>1
    <2> HIDE DEF y, short, noise
    <2> QED
      BY <1>8, <2>1, <2>2, <2>3, <2>4
  <1>10. NoiseOf(noise, s, n)
    <2>1. s[1] = 0 /\ s[n + 2] = slots
      BY <1>5, <1>7 DEF Last
    <2>2. 1 \in 1 .. n /\ s[1 + 1] = s[2]
      OBVIOUS
    <2>3. noise = <<s[1], s[1 + 1], s[n + 2]>>
      BY <2>1, <2>2
    <2> HIDE DEF noise
    <2> QED
      BY <2>2, <2>3 DEF NoiseOf
  <1>11. short \in 0 .. n + 1 /\ short \in -1 .. n + 1 /\ short = Max({short, 0}) /\ n \in 0 .. 4
    <2>1. short \in Int /\ short >= 0
      OBVIOUS
    <2> HIDE DEF short
    <2>2. Max({short, 0}) = IF short >= 0 THEN short ELSE 0
      BY <2>1, MaxOfTwo
    <2> QED
      BY <2>1, <2>2 DEF short
  <1> HIDE DEF noise, short
  <1>12. LaidInfo(slots, n, i) /\ i.borders[1] = 0 /\ Last(i.borders) = slots
    BY <1>1, <1>3, <1>5, <1>8, <1>10, <1>11 DEF LaidInfo
  <1>13. /\ y.valid /\ y.borders = i.borders /\ y.freqRes = i.freqRes /\ y.noise = i.noise
         /\ i.shortEnv = Max({y.tranEnv, 0}) /\ y.tranEnv \in -1 .. n + 1
    <2> HIDE DEF y
    <2> QED
      BY <1>3, <1>9, <1>11
  <1>14. ReadExactly(slots, n, i, ExtractFrameInfo(slots, lowDelay, b))
    BY <1>11, <1>12, <1>13, Exactly
  <1> QED
    BY <1>1, <1>2, <1>3, <1>5, <1>14 DEF g, i, b

-----------------------------------------------------------------------------
(* What the generator makes of a frame, class by class *)

(* The classes with variable borders. *)
VariableClasses == {"FIXVAR", "VARFIX", "VARVAR"}

(* The classes of frames that end late, and how late the next one starts.    *)
LateClasses == {"FIXVAR", "VARVAR"}

Start(g) == IF g.old \in LateClasses THEN g.follow.bord[1] ELSE 0

(* A generator between two frames: after a frame that ends late it has a     *)
(* follow-up, which it keeps when later frames do without.                  *)
GeneratorOK(c, g) ==
    /\ g = [old |-> g.old, follow |-> g.follow]
    /\ g.old \in {"FIXFIX"} \cup VariableClasses
    /\ g.follow = NoFollowUp \/ \E n : FollowUp(c.slots, g.follow, n)
    /\ g.old \in LateClasses =>
          c.static = 0 /\ ~c.lowDelay /\ \E n : FollowUp(c.slots, g.follow, n)

(* The decoder accepts the grid and makes of it what was laid, but for the   *)
(* odd distances of frames of 1920 samples; in low delay the envelope that   *)
(* is shortened may be another one, which is sent elsewhere.                *)
ReadsBack(c, g, i) ==
    LET x == ExtractFrameInfo(c.slots, c.lowDelay, EncodeSbrGrid(c.slots, g))
    IN  /\ x.valid /\ x.freqRes = i.freqRes
        /\ x.borders[1] = i.borders[1] /\ Last(x.borders) = Last(i.borders)
        /\ i.shortEnv = Max({x.tranEnv, 0}) \/ (c.lowDelay /\ i.shortEnv = Len(i.freqRes))
        /\ c.slots = 16 \/ g.class \notin VariableClasses =>
              x.borders = i.borders /\ x.noise = i.noise

(* A frame info has these fields and no others. *)
IsInfo(i) == i = [borders |-> i.borders, freqRes |-> i.freqRes,
                  shortEnv |-> i.shortEnv, noise |-> i.noise]

(* A grid and its frame info, which starts and ends `first' and `last' slots *)
(* late.                                                                    *)
Laid(c, g, i, first, last) ==
    /\ GridType(g) /\ FrameInfoType(i, MaxEnvelopes) /\ IsInfo(i)
    /\ ReadsBack(c, g, i)
    /\ i.borders[1] = first /\ Last(i.borders) = c.slots + last

(* The classes can be told apart by the frame info as far as it matters.    *)
Halves(slots) == {<<0, slots>>, <<0, 8, slots>>}

ToldApart(c, g, i) ==
    IF c.static = 0 /\ ~c.lowDelay
    THEN c.slots = 15 => (g.class \in VariableClasses
                            <=> (i.shortEnv # 0 \/ i.borders \notin Halves(15)))
    ELSE g.class \notin VariableClasses

(* The onset o is a border, or near one, as OnsetIsBorder has it.            *)
Near(c, class, o, b, k) ==
    CASE class = "VARVAR"     -> b - o \in -(DMin - 1) .. DMin - 1
      [] c.lowDelay /\ o < 2  -> k = 1
      [] OTHER                -> b - o = 0

Framed(c, g, i, o) == \E k \in 1 .. Len(i.borders) : Near(c, g.class, o, i.borders[k], k)

(* A frame info that is laid fits the arrays of the code. *)
LEMMA LaidInfoType ==
    ASSUME NEW slots, NEW n \in 0 .. 4, NEW i, LaidInfo(slots, n, i)
    PROVE  FrameInfoType(i, MaxEnvelopes) /\ Len(i.borders) = n + 2
  <1> DEFINE l == Len(i.freqRes)
             w == i.noise
             s == i.borders
  <1>1. Len(s) = n + 2 /\ l = n + 1 /\ i.shortEnv \in 0 .. n + 1 /\ NoiseOf(w, s, n)
    BY DEF LaidInfo, Rising
  <1>2. Len(w) \in 2 .. 3
    <2> HIDE DEF w, s
    <2>1. CASE n = 0 /\ w = <<s[1], s[n + 2]>>
      BY <2>1
    <2>2. CASE \E m \in 1 .. n : w = <<s[1], s[m + 1], s[n + 2]>>
      BY <2>2
    <2> QED
      BY <1>1, <2>1, <2>2 DEF NoiseOf
  <1>3. l \in 1 .. MaxEnvelopes
    BY <1>1 DEF MaxEnvelopes
  <1> HIDE DEF l
  <1> QED
    BY <1>1, <1>2, <1>3 DEF FrameInfoType, l

(* A grid of the constant classes. *)
LEMMA ConstantLaid ==
    ASSUME NEW c \in ConfigType, NEW n \in 0 .. 4, NEW g, NEW i,
           ReadExactly(c.slots, n, i,
                       ExtractFrameInfo(c.slots, c.lowDelay, EncodeSbrGrid(c.slots, g))),
           g.class \in {"FIXFIX", "FIXFIXonly"}, g.relLeft = <<>>, g.relRight = <<>>, IsInfo(i)
    PROVE  Laid(c, g, i, 0, 0)
  <1> DEFINE x == ExtractFrameInfo(c.slots, c.lowDelay, EncodeSbrGrid(c.slots, g))
  <1>1. /\ LaidInfo(c.slots, n, i) /\ i.borders[1] = 0 /\ Last(i.borders) = c.slots
        /\ x.valid /\ x.borders = i.borders /\ x.freqRes = i.freqRes /\ x.noise = i.noise
        /\ i.shortEnv = Max({x.tranEnv, 0})
    BY DEF ReadExactly
  <1>2. FrameInfoType(i, MaxEnvelopes)
    BY <1>1, LaidInfoType
  <1>3. GridType(g)
    <2>1. Len(g.relLeft) = 0 /\ Len(g.relRight) = 0
      OBVIOUS
    <2> QED
      BY <2>1 DEF GridType, FrameClasses, MaxNumRel
  <1>4. ReadsBack(c, g, i)
    <2> HIDE DEF x
    <2> QED
      BY <1>1 DEF ReadsBack, x
  <1>5. c.slots + 0 = c.slots
    BY DEF ConfigType, SlotCounts
  <1> QED
    BY <1>1, <1>2, <1>3, <1>4, <1>5 DEF Laid

(* A grid of a variable class. *)
LEMMA VariableLaid ==
    ASSUME NEW c \in ConfigType, c.lowDelay = FALSE, NEW g, VariableGrid(c.slots, g),
           NEW first, first = (IF g.class = "FIXVAR" THEN 0 ELSE g.left),
           NEW last \in Int, g.class = "VARFIX" => last = 0,
           g.class # "VARFIX" => g.right = c.slots + last
    PROVE  LET i == CtrlSignal2FrameInfo(c.slots, g)
           IN  /\ Laid(c, g, i, first, last)
               /\ i.borders = BordersOf(c.slots, g, g.relLeft, g.relRight)
               /\ g.class \in VariableClasses
               /\ IF g.class = "VARFIX" THEN i.shortEnv = 0 ELSE i.shortEnv >= 1
               /\ Len(i.borders) = Len(g.relLeft) + Len(g.relRight) + 2
  <1> DEFINE i == CtrlSignal2FrameInfo(c.slots, g)
             b == EncodeSbrGrid(c.slots, g)
             x == ExtractFrameInfo(c.slots, FALSE, b)
             nl == Len(g.relLeft)
             nr == Len(g.relRight)
             n == nl + nr
  <1>0. c.slots \in SlotCounts /\ c.slots \in Int
    BY DEF ConfigType, SlotCounts
  <1>1. /\ n \in 0 .. 4 /\ LaidInfo(c.slots, n, i)
        /\ i.borders = BordersOf(c.slots, g, g.relLeft, g.relRight)
        /\ i.borders[1] = (IF g.class = "FIXVAR" THEN 0 ELSE g.left)
        /\ Last(i.borders) = (IF g.class = "VARFIX" THEN c.slots ELSE g.right)
        /\ i.shortEnv = (IF g.class = "VARFIX" THEN 0 ELSE n + 2 - g.p)
        /\ ReadAsLaid(c.slots, i, x)
    BY <1>0, Transmitted
  <1>2. /\ g.class \in VariableClasses /\ nl \in 0 .. 3 /\ nr \in 0 .. 3
        /\ g.class = "FIXVAR" => nl = 0
        /\ g.class = "VARFIX" => nr = 0
        /\ Len(g.freq) = n + 1 /\ g.p \in 0 .. n + 1
    <2>1. /\ g.class \in VariableClasses /\ nl \in 0 .. 3 /\ nr \in 0 .. 3
          /\ Len(g.freq) = n + 1 /\ g.p \in 0 .. n + 1
      BY DEF VariableGrid, IsRel, MaxNumRel, VariableClasses
    <2>2. /\ g.class = "FIXVAR" => g.relLeft = <<>>
          /\ g.class = "VARFIX" => g.relRight = <<>>
      BY DEF VariableGrid
    <2> QED
      BY <2>1, <2>2
  <1> HIDE DEF i, b, x, nl, nr
  <1>3. GridType(g)
    <2>1. g.class \in {"FIXVAR", "VARFIX"} => Len(g.freq) <= 4
      BY <1>2
    <2>3. nl <= 3 /\ nr <= 3
      BY <1>2
    <2>2. g.class \in FrameClasses
      BY <1>2 DEF VariableClasses, FrameClasses
    <2> QED
      BY <2>1, <2>2, <2>3 DEF GridType, MaxNumRel, MaxEnvelopesFixVar, nl, nr
  <1>4. FrameInfoType(i, MaxEnvelopes) /\ Len(i.borders) = n + 2
    BY <1>1, LaidInfoType
  <1>5. IsInfo(i)
    <2> DEFINE borders == CASE g.class = "FIXVAR" -> <<0>> \o Before(g.right, g.relRight)
                            [] g.class = "VARFIX" -> After(g.left, g.relLeft) \o <<c.slots>>
                            [] g.class = "VARVAR" -> After(g.left, g.relLeft)
                                                       \o Before(g.right, g.relRight)
               nEnv == Len(borders) - 1
               short == IF g.class = "VARFIX"
                        THEN IF g.p <= 1 THEN 0 ELSE g.p - 1
                        ELSE IF g.p = 0 THEN 0 ELSE nEnv + 1 - g.p
               ends == <<borders[1], borders[nEnv + 1]>>
               res == IF g.class = "FIXVAR" THEN Reverse(g.freq) ELSE g.freq
               noise == IF nEnv = 1 THEN ends
                        ELSE <<ends[1],
                               borders[NoiseBorder(g.class, g.p, nEnv, short) + 1], ends[2]>>
    <2>1. i = [borders |-> borders, freqRes |-> res, shortEnv |-> short, noise |-> noise]
      BY DEF i, CtrlSignal2FrameInfo
    <2> HIDE DEF borders, res, short, noise
    <2> QED
      BY <2>1 DEF IsInfo
  <1>6. ReadsBack(c, g, i)
    <2>1. /\ x.valid /\ x.freqRes = i.freqRes
          /\ x.borders[1] = i.borders[1] /\ Last(x.borders) = Last(i.borders)
          /\ i.shortEnv = Max({x.tranEnv, 0})
          /\ c.slots = 16 => x.borders = i.borders /\ x.noise = i.noise
      BY <1>1 DEF ReadAsLaid
    <2>2. ExtractFrameInfo(c.slots, c.lowDelay, EncodeSbrGrid(c.slots, g)) = x
      BY DEF x, b
    <2> QED
      BY <1>2, <2>1, <2>2 DEF ReadsBack
  <1>7. Last(i.borders) = c.slots + last
    BY <1>0, <1>1
  <1>8. IF g.class = "VARFIX" THEN i.shortEnv = 0 ELSE i.shortEnv >= 1
    <2> HIDE DEF n
    <2>1. g.class # "VARFIX" => n + 2 - g.p >= 1
      BY <1>1, <1>2
    <2> QED
      BY <1>1, <2>1
  <1>9. Laid(c, g, i, first, last)
    BY <1>1, <1>3, <1>4, <1>5, <1>6, <1>7 DEF Laid
  <1> QED
    BY <1>1, <1>2, <1>4, <1>8, <1>9 DEF i, nl, nr

(* The slot of the transient t, and the transients a detector may find. *)
OnsetOf(c, t) == IF c.lowDelay THEN t.pos ELSE t.pos + 4

TransientOf(c) == [pos : 0 .. c.slots - 1, flag : BOOLEAN, ahead : BOOLEAN]

(* What the generator makes of a frame with the transient t: a grid that     *)
(* starts where the last one ended, in which the transient and the one       *)
(* planned for are borders; a transient behind the end of the frame starts   *)
(* the next.                                                                *)
Made(c, gen0, t, m) ==
    /\ GeneratorOK(c, m.gen)
    /\ Laid(c, m.grid, m.info, Start(gen0), Start(m.gen)) /\ ToldApart(c, m.grid, m.info)
    /\ c.static = 0 /\ t.flag =>
          /\ Framed(c, m.grid, m.info, OnsetOf(c, t))
          /\ OnsetOf(c, t) >= c.slots =>
                m.gen.old \in LateClasses /\ OnsetOf(c, t) - c.slots = m.gen.follow.bord[1]
    /\ gen0.old \in LateClasses => Framed(c, m.grid, m.info, gen0.follow.bord[1])

(* After a frame of a constant class the next one starts at its first slot. *)
LEMMA ConstantGenerator ==
    ASSUME NEW c, NEW gen0, GeneratorOK(c, gen0)
    PROVE  LET g == [gen0 EXCEPT !.old = "FIXFIX"]
           IN  GeneratorOK(c, g) /\ Start(g) = 0
  <1> DEFINE g == [gen0 EXCEPT !.old = "FIXFIX"]
  <1>1. gen0 = [old |-> gen0.old, follow |-> gen0.follow]
    BY DEF GeneratorOK
  <1>2. g = [old |-> "FIXFIX", follow |-> gen0.follow]
    BY <1>1
  <1> HIDE DEF g
  <1>3. g.old = "FIXFIX" /\ g.follow = gen0.follow /\ g = [old |-> g.old, follow |-> g.follow]
    BY <1>2
  <1>4. gen0.follow = NoFollowUp \/ \E n : FollowUp(c.slots, gen0.follow, n)
    BY DEF GeneratorOK
  <1>5. g.old \notin LateClasses
    BY <1>3 DEF LateClasses
  <1>6. GeneratorOK(c, g)
    BY <1>3, <1>4, <1>5 DEF GeneratorOK
  <1> QED
    BY <1>5, <1>6 DEF Start, g

(* FIXFIX: no transient, or static framing. *)
LEMMA FixFixMade ==
    ASSUME NEW c \in ConfigType, NEW gen0, GeneratorOK(c, gen0), NEW t,
           c.static > 0 \/ (gen0.old \notin LateClasses /\ t.flag = FALSE),
           NEW num, num = (IF c.static > 0 THEN c.static ELSE IF t.pos = 0 THEN 1 ELSE 2),
           NEW res \in Res
    PROVE  Made(c, gen0, t, [gen  |-> [gen0 EXCEPT !.old = "FIXFIX"],
                             grid |-> FixFixSignal(num, res),
                             info |-> FixFixInfo(c.slots, FixFixSignal(num, res))])
  <1> DEFINE g == FixFixSignal(num, res)
             i == FixFixInfo(c.slots, g)
             o == [gen0 EXCEPT !.old = "FIXFIX"]
             m == [gen |-> o, grid |-> g, info |-> i]
             x == ExtractFrameInfo(c.slots, c.lowDelay, EncodeSbrGrid(c.slots, g))
  <1>0. /\ c.slots \in SlotCounts /\ c.lowDelay \in BOOLEAN /\ c.static \in {0, 1, 2, 4}
    BY DEF ConfigType
  <1>1. num \in {1, 2, 4} /\ (c.static = 0 => num \in {1, 2})
    BY <1>0
  <1>2. /\ ReadExactly(c.slots, num - 1, i, x)
        /\ g.class = "FIXFIX" /\ g.relLeft = <<>> /\ g.relRight = <<>> /\ i.shortEnv = 0
        /\ num \in {1, 2} => i.borders \in {<<0, c.slots>>, <<0, 8, c.slots>>}
    BY <1>0, <1>1, FixFixRead
  <1>3. IsInfo(i)
    BY DEF FixFixInfo, IsInfo
  <1>4. GeneratorOK(c, o) /\ Start(o) = 0
    BY ConstantGenerator
  <1> HIDE DEF g, i, o
  <1>5. Laid(c, g, i, 0, 0)
    <2>1. PICK n \in 0 .. 4 : n = num - 1
      BY <1>1
    <2> QED
      BY <1>2, <1>3, <2>1, ConstantLaid
  <1>6. Start(gen0) = 0 /\ gen0.old \notin LateClasses
    <2>1. gen0.old \in LateClasses => c.static = 0
      BY DEF GeneratorOK
    <2>2. gen0.old \notin LateClasses
      BY <1>0, <2>1
    <2> QED
      BY <2>2 DEF Start
  <1>7. ToldApart(c, g, i)
    <2>1. g.class \notin VariableClasses
      BY <1>2 DEF VariableClasses
    <2>2. c.static = 0 => i.borders \in Halves(c.slots)
      BY <1>1, <1>2 DEF Halves
    <2> QED
      BY <1>2, <2>1, <2>2 DEF ToldApart
  <1>8. ~(c.static = 0 /\ t.flag)
    BY <1>0
  <1>9. m.gen = o /\ m.grid = g /\ m.info = i
    OBVIOUS
  <1> HIDE DEF m
  <1>10. Made(c, gen0, t, m)
    BY <1>4, <1>5, <1>6, <1>7, <1>8, <1>9 DEF Made
  <1> QED
    BY <1>10 DEF m, o, g, i

(* FIXFIXonly: a transient in low delay. *)
LEMMA FixFixOnlyMade ==
    ASSUME NEW c \in ConfigType, NEW gen0, GeneratorOK(c, gen0), NEW t \in TransientOf(c),
           c.static = 0, c.lowDelay = TRUE
    PROVE  LET only == GenerateFixFixOnly(c.slots, t.pos, c.transIsLow)
           IN  Made(c, gen0, t, [gen  |-> [gen0 EXCEPT !.old = "FIXFIX"],
                                 grid |-> FixFixOnlySignal(t.pos, only), info |-> only])
  <1> DEFINE i == GenerateFixFixOnly(c.slots, t.pos, c.transIsLow)
             g == FixFixOnlySignal(t.pos, i)
             o == [gen0 EXCEPT !.old = "FIXFIX"]
             m == [gen |-> o, grid |-> g, info |-> i]
             x == ExtractFrameInfo(c.slots, c.lowDelay, EncodeSbrGrid(c.slots, g))
  <1>0. /\ c.slots \in SlotCounts /\ c.lowDelay \in BOOLEAN /\ c.transIsLow \in BOOLEAN
        /\ c.slots \in Int
    BY DEF ConfigType, SlotCounts
  <1>1. t.pos \in 0 .. c.slots - 1
    BY DEF TransientOf
  <1>2. /\ \E n \in 1 .. 2 : ReadExactly(c.slots, n, i, x)
        /\ g.class = "FIXFIXonly" /\ g.relLeft = <<>> /\ g.relRight = <<>>
        /\ t.pos >= 2 => i.borders[2] = t.pos
    BY <1>0, <1>1, FixFixOnlyRead
  <1>3. IsInfo(i)
    BY DEF GenerateFixFixOnly, IsInfo
  <1>4. GeneratorOK(c, o) /\ Start(o) = 0
    BY ConstantGenerator
  <1> HIDE DEF g, i, o
  <1>5. PICK n \in 1 .. 2 : ReadExactly(c.slots, n, i, x)
    BY <1>2
  <1>6. Laid(c, g, i, 0, 0)
    <2>1. n \in 0 .. 4
      OBVIOUS
    <2> QED
      BY <1>2, <1>3, <1>5, <2>1, ConstantLaid
  <1>7. Start(gen0) = 0 /\ gen0.old \notin LateClasses
    BY DEF Start, GeneratorOK
  <1>8. ToldApart(c, g, i)
    BY <1>2 DEF VariableClasses, ToldApart
  <1>9. Framed(c, g, i, t.pos)
    <2>1. Len(i.borders) = n + 2
      BY <1>5 DEF ReadExactly, LaidInfo, Rising
    <2>2. 1 \in 1 .. Len(i.borders) /\ 2 \in 1 .. Len(i.borders)
      BY <2>1
    <2>3. g.class # "VARVAR"
      BY <1>2
    <2>4. CASE t.pos < 2
      BY <2>2, <2>3, <2>4 DEF Framed, Near
    <2>5. CASE ~(t.pos < 2)
      <3>1. i.borders[2] = t.pos /\ i.borders[2] - t.pos = 0
        BY <1>1, <1>2, <2>5
      <3> QED
        BY <2>2, <2>3, <2>5, <3>1 DEF Framed, Near
    <2> QED
      BY <2>4, <2>5
  <1>10. OnsetOf(c, t) = t.pos /\ ~(t.pos >= c.slots)
    BY <1>0, <1>1 DEF OnsetOf
  <1>11. m.gen = o /\ m.grid = g /\ m.info = i
    OBVIOUS
  <1> HIDE DEF m
  <1>12. Made(c, gen0, t, m)
    BY <1>4, <1>6, <1>7, <1>8, <1>9, <1>10, <1>11 DEF Made
  <1> QED
    BY <1>12 DEF m, o, g, i

(* A border that is the onset frames it. *)
LEMMA FramedAt ==
    ASSUME NEW c, c.lowDelay = FALSE, NEW g, NEW i, NEW o \in Int,
           NEW k \in 1 .. Len(i.borders), i.borders[k] = o
    PROVE  Framed(c, g, i, o)
  <1>1. i.borders[k] - o = 0 /\ 0 \in -(DMin - 1) .. DMin - 1
    BY DEF DMin
  <1> QED
    BY <1>1 DEF Framed, Near

(* VARFIX: the follow-up alone. *)
LEMMA VarFixMade ==
    ASSUME NEW c \in ConfigType, NEW gen0, GeneratorOK(c, gen0), gen0.old \in LateClasses,
           NEW t, t.flag = FALSE
    PROVE  LET g == VarFixSignal(gen0.follow)
           IN  Made(c, gen0, t, [gen  |-> [old |-> "VARFIX", follow |-> gen0.follow],
                                 grid |-> g, info |-> CtrlSignal2FrameInfo(c.slots, g)])
  <1> DEFINE f == gen0.follow
             g == VarFixSignal(f)
             i == CtrlSignal2FrameInfo(c.slots, g)
             o == [old |-> "VARFIX", follow |-> f]
             m == [gen |-> o, grid |-> g, info |-> i]
             b == i.borders
             one == 1
             zero == 0
  <1>0. c.slots \in SlotCounts /\ c.slots \in Int /\ c.static = 0 /\ c.lowDelay = FALSE
    BY DEF ConfigType, SlotCounts, GeneratorOK
  <1>1. PICK n : FollowUp(c.slots, f, n)
    BY DEF GeneratorOK
  <1>2. /\ VariableGrid(c.slots, g) /\ g.class = "VARFIX" /\ g.left = f.bord[1]
        /\ Len(g.relLeft) + Len(g.relRight) = n - 1
        /\ BordersOf(c.slots, g, g.relLeft, g.relRight) = f.bord \o <<c.slots>>
    BY <1>0, <1>1, VarFixGrid
  <1>3. /\ n \in 1 .. 3 /\ Elements(Int, f.bord, n) /\ f.bord[1] \in 0 .. 3
        /\ c.slots = 15 => /\ n = 1 => f.bord[1] = 3
                           /\ n = 2 => f.bord[2] - f.bord[1] < 8
        /\ f.bord[1] \in Int /\ one \in 1 .. n /\ one = 1 /\ zero = 0 /\ zero \in Int
    BY <1>1 DEF FollowUp
  <1> HIDE DEF f, g, i, one, zero
  <1>4. /\ Laid(c, g, i, f.bord[1], zero)
        /\ b = f.bord \o <<c.slots>> /\ i.shortEnv = 0
        /\ Len(b) = n - 1 + 2
    <2>1. /\ f.bord[1] = (IF g.class = "FIXVAR" THEN 0 ELSE g.left)
          /\ g.class = "VARFIX" => zero = 0
          /\ g.class # "VARFIX" => g.right = c.slots + zero
      BY <1>2, <1>3
    <2>3. /\ Laid(c, g, i, f.bord[1], zero)
          /\ i.borders = BordersOf(c.slots, g, g.relLeft, g.relRight)
          /\ IF g.class = "VARFIX" THEN i.shortEnv = 0 ELSE i.shortEnv >= 1
          /\ Len(i.borders) = Len(g.relLeft) + Len(g.relRight) + 2
      BY <1>0, <1>2, <1>3, <2>1, VariableLaid DEF i
    <2> QED
      BY <1>2, <2>3
  <1>5. Len(b) = n + 1 /\ \A k \in 1 .. n : b[k] = f.bord[k]
    <2>1. Elements(Int, <<c.slots>>, one)
      BY <1>0, <1>3 DEF Elements
    <2>2. MadeOf(b, f.bord, n, <<c.slots>>, one)
      BY <1>3, <1>4, <2>1, JoinSeqs
    <2> QED
      BY <1>3, <1>4, <2>2 DEF MadeOf
  <1>12. (n = 1 \/ n = 2 \/ n = 3) /\ (Len(b) = 2 => n = 1) /\ (Len(b) = 3 => n = 2)
    <2>1. n \in 1 .. 3 /\ Len(b) = n + 1
      BY <1>3, <1>5
    <2> DEFINE l == Len(b)
    <2>2. n \in 1 .. 3 /\ l = n + 1
      BY <2>1
    <2> HIDE DEF l, b, m, o
    <2>3. (n = 1 \/ n = 2 \/ n = 3) /\ (l = 2 => n = 1) /\ (l = 3 => n = 2)
      BY <2>2
    <2> QED
      BY <2>3 DEF l
  <1> HIDE DEF b
  <1>6. c.slots = 15 => b \notin Halves(15)
    <2> SUFFICES ASSUME c.slots = 15, b \in Halves(15) PROVE FALSE
      OBVIOUS
    <2>1. CASE b = <<0, 15>>
      <3>1. Len(b) = 2 /\ b[1] = 0
        BY <2>1
      <3>2. n = 1
        BY <1>12, <3>1
      <3> QED
        BY <1>3, <1>5, <3>1, <3>2
    <2>2. CASE b = <<0, 8, 15>>
      <3>1. Len(b) = 3 /\ b[1] = 0 /\ b[2] = 8
        BY <2>2
      <3>2. n = 2
        BY <1>12, <3>1
      <3>3. 1 \in 1 .. n /\ 2 \in 1 .. n
        BY <3>2
      <3>4. f.bord[1] = 0 /\ f.bord[2] = 8
        BY <1>5, <3>1, <3>3
      <3> QED
        BY <1>3, <3>2, <3>4
    <2> QED
      BY <2>1, <2>2 DEF Halves
  <1>7. ToldApart(c, g, i)
    BY <1>0, <1>2, <1>6 DEF ToldApart, VariableClasses, b
  <1>8. Framed(c, g, i, f.bord[1])
    <2>1. one \in 1 .. Len(i.borders) /\ i.borders[one] = f.bord[1]
      BY <1>3, <1>5 DEF b
    <2> QED
      BY <1>0, <1>3, <2>1, FramedAt
  <1>9. GeneratorOK(c, o) /\ Start(o) = 0 /\ Start(gen0) = f.bord[1]
    <2>1. o.old = "VARFIX" /\ o.follow = f /\ o = [old |-> o.old, follow |-> o.follow]
      OBVIOUS
    <2> HIDE DEF o
    <2>2. o.old \notin LateClasses /\ o.old \in VariableClasses
      BY <2>1 DEF LateClasses, VariableClasses
    <2> QED
      BY <1>1, <2>1, <2>2 DEF GeneratorOK, Start, f
  <1>10. m.gen = o /\ m.grid = g /\ m.info = i
    OBVIOUS
  <1> HIDE DEF m, o
  <1>11. Made(c, gen0, t, m)
    BY <1>3, <1>4, <1>7, <1>8, <1>9, <1>10 DEF Made, f
  <1> QED
    BY <1>11 DEF m, o, g, i, f

(* The transient behind the end of the frame is the end of the frame. *)
LEMMA OnsetBehind ==
    ASSUME NEW slots \in SlotCounts, NEW q \in 0 .. slots - 1
    PROVE  /\ TailAt(slots, q, 0) = q + 4
           /\ q + 4 >= slots => FrameEnd(slots, q) = 0
           /\ FrameEnd(slots, q) \in 0 .. 3 /\ TailLen(slots, q) \in 2 .. 4
           /\ TailLen(slots, q) - FrameEnd(slots, q) \in 0 .. 2
           /\ TailAt(slots, q, FrameEnd(slots, q)) \in slots .. slots + 3
           /\ q + FrameMiddleSlot = q + 4
  <1>1. TailAt(slots, q, 0) = q + 4 /\ q + FrameMiddleSlot = q + 4
    BY DEF TailAt, FrameMiddleSlot, SlotCounts
  <1>2. q + 4 >= slots => FrameEnd(slots, q) = 0
    BY DEF FrameEnd, SlotCounts
  <1> QED
    BY <1>1, <1>2, TailFacts

(* The generator after a frame with a transient. *)
LEMMA LateGenerator ==
    ASSUME NEW c \in ConfigType, c.static = 0, c.lowDelay = FALSE, NEW class \in LateClasses,
           NEW f, NEW n, FollowUp(c.slots, f, n)
    PROVE  LET o == [old |-> class, follow |-> f]
           IN  GeneratorOK(c, o) /\ Start(o) = f.bord[1] /\ o.old = class /\ o.follow = f
  <1> DEFINE o == [old |-> class, follow |-> f]
  <1>1. o.old = class /\ o.follow = f /\ o = [old |-> o.old, follow |-> o.follow]
    OBVIOUS
  <1> HIDE DEF o
  <1>2. o.old \in LateClasses /\ o.old \in VariableClasses
    BY <1>1 DEF LateClasses, VariableClasses
  <1> QED
    BY <1>1, <1>2 DEF GeneratorOK, Start, o

(* Where the borders of the transient stand in a design. *)
LEMMA DesignedAt ==
    ASSUME NEW slots \in SlotCounts, NEW q \in 0 .. slots - 1, NEW head, NEW d, NEW h, NEW r,
           h \in 1 .. 5, Designed(slots, q, head, d, h, r)
    PROVE  LET z == h + FrameEnd(slots, q)
               u == SubSeq(d.bord, 1, z)
           IN  /\ z \in 1 .. 8 /\ h \in 1 .. z
               /\ Elements(Int, u, z) /\ \A k \in 1 .. z : u[k] = d.bord[k]
               /\ r <= h => d.bord[h] = q + 4
               /\ r > h => d.bord[h + 1] = q + 6
  <1> DEFINE e == FrameEnd(slots, q)
             last == TailLen(slots, q)
             z == h + e
             u == SubSeq(d.bord, 1, z)
  <1>1. e \in 0 .. 3 /\ last \in 2 .. 4 /\ last - e \in 0 .. 2 /\ TailAt(slots, q, 0) = q + 4
    BY OnsetBehind
  <1>2. /\ Elements(Int, d.bord, h + last)
        /\ \A i \in 0 .. last : r <= h \/ i > 0 => d.bord[h + i] = TailAt(slots, q, i)
    BY DEF Designed
  <1>3. TailAt(slots, q, 1) = q + 6
    BY DEF TailAt, FrameMiddleSlot, SlotCounts
  <1> HIDE DEF e, last
  <1>4. z \in 1 .. 8 /\ h \in 1 .. z /\ z \in 0 .. h + last /\ h + 0 = h
        /\ 0 \in 0 .. last /\ 1 \in 0 .. last
    BY <1>1
  <1> HIDE DEF z
  <1>5. Elements(Int, u, z) /\ \A k \in 1 .. z : u[k] = d.bord[k]
    BY <1>2, <1>4, FirstPart
  <1>6. r <= h => d.bord[h + 0] = q + 4
    BY <1>1, <1>2, <1>4
  <1>7. r > h => d.bord[h + 1] = q + 6
    BY <1>2, <1>3, <1>4
  <1> QED
    BY <1>4, <1>5, <1>6, <1>7 DEF z, e

(* FIXVAR: a transient after a frame that did not end late. *)
LEMMA FixVarMade ==
    ASSUME NEW c \in ConfigType, NEW gen0, gen0.old \notin LateClasses, NEW t \in TransientOf(c),
           c.static = 0, c.lowDelay = FALSE
    PROVE  LET d == Design(c.slots, t.pos, FixVarHead(t.pos + FrameMiddleSlot))
               g == FixVarSignal(d)
           IN  Made(c, gen0, t, [gen  |-> [old |-> "FIXVAR", follow |-> KeepForFollowUp(c.slots, d)],
                                 grid |-> g, info |-> CtrlSignal2FrameInfo(c.slots, g)])
  <1> DEFINE q == t.pos
             head == FixVarHead(q + FrameMiddleSlot)
             h == IF q + FrameMiddleSlot <= DMax THEN 1 ELSE 2
             d == Design(c.slots, q, head)
             g == FixVarSignal(d)
             i == CtrlSignal2FrameInfo(c.slots, g)
             f == KeepForFollowUp(c.slots, d)
             class == "FIXVAR"
             o == [old |-> class, follow |-> f]
             m == [gen |-> o, grid |-> g, info |-> i]
             e == FrameEnd(c.slots, q)
             z == h + e
             u == SubSeq(d.bord, 1, z)
             b == i.borders
             zero == 0
             one == 1
             late == TailAt(c.slots, q, e) - c.slots
  <1>0. c.slots \in SlotCounts /\ c.slots \in Int
    BY DEF ConfigType, SlotCounts
  <1>1. q \in 0 .. c.slots - 1 /\ zero = 0 /\ one = 1 /\ zero \in Int /\ class \in LateClasses
        /\ one \in 1 .. h + 1
    BY DEF TransientOf, LateClasses
  <1> HIDE DEF q, zero, class
  <1>2. GoodHead(c.slots, q, head, h, one) /\ head.bord[1] > 0 /\ h \in 1 .. 5 /\ one <= h
    BY <1>0, <1>1, FixVarHeadIs
  <1> HIDE DEF head, h, one
  <1>3. Designed(c.slots, q, head, d, h, one)
    BY <1>0, <1>1, <1>2, DesignOnHead
  <1> HIDE DEF d
  <1>4. /\ z \in 1 .. 8 /\ h \in 1 .. z
        /\ Elements(Int, u, z) /\ \A k \in 1 .. z : u[k] = d.bord[k]
        /\ d.bord[h] = q + 4
    BY <1>0, <1>1, <1>2, <1>3, DesignedAt
  <1>5. /\ FollowUp(c.slots, f, TailLen(c.slots, q) - e + 1) /\ f.bord[1] = late
    BY <1>0, <1>1, <1>2, <1>3, KeptFollowUp
  <1>6. /\ VariableGrid(c.slots, g) /\ g.class = "FIXVAR"
        /\ g.right = TailAt(c.slots, q, e)
        /\ BordersOf(c.slots, g, g.relLeft, g.relRight) = <<0>> \o u
    <2>2. DesignedAlone(c.slots, q, head, d, h)
      BY <1>1, <1>2, <1>3 DEF DesignedAlone
    <2>3. c.slots \in SlotCounts /\ q \in 0 .. c.slots - 1
      BY <1>0, <1>1
    <2>1. FixVarGridOf(c.slots, q, d, h)
      BY <2>2, <2>3, FixVarGrid
    <2> QED
      BY <2>1 DEF FixVarGridOf
  <1> HIDE DEF g, f, u
  <1>7. late \in Int /\ TailAt(c.slots, q, e) = c.slots + late
        /\ (q + 4 >= c.slots => (q + 4) - c.slots = late)
    <2>2. /\ TailAt(c.slots, q, 0) = q + 4
          /\ q + 4 >= c.slots => e = 0
          /\ TailAt(c.slots, q, e) \in c.slots .. c.slots + 3
      BY <1>0, <1>1, OnsetBehind
    <2> HIDE DEF e
    <2>1. TailAt(c.slots, q, e) \in Int /\ (q + 4 >= c.slots => TailAt(c.slots, q, e) = q + 4)
      BY <1>0, <2>2
    <2> QED
      BY <1>0, <2>1
  <1> HIDE DEF late, i
  <1>8. Laid(c, g, i, zero, late) /\ b = <<0>> \o u /\ i.shortEnv >= 1 /\ g.class \in VariableClasses
    <2>1. /\ zero = (IF g.class = "FIXVAR" THEN 0 ELSE g.left)
          /\ g.class = "VARFIX" => late = 0
          /\ g.class # "VARFIX" => g.right = c.slots + late
      BY <1>1, <1>6, <1>7
    <2> QED
      BY <1>0, <1>6, <1>7, <2>1, VariableLaid DEF i
  <1> HIDE DEF z
  <1>9. Len(b) = z + 1 /\ b[h + 1] = q + 4
    <2>1. Elements(Int, <<zero>>, one)
      BY <1>1 DEF Elements
    <2>7. b = <<zero>> \o u
      BY <1>1, <1>8
    <2>8. Elements(Int, u, z)
      BY <1>4
    <2>2. Elements(Int, b, one + z) /\ MadeOf(b, <<zero>>, one, u, z)
      BY <2>1, <2>7, <2>8, JoinSeqs
    <2>3. Len(b) = one + z /\ b[one + h] = u[h]
      BY <1>4, <2>2 DEF Elements, MadeOf
    <2>4. u[h] = q + 4
      BY <1>4
    <2>5. h \in Int /\ z \in Int
      BY <1>2, <1>4
    <2>6. one + z = z + 1 /\ one + h = h + 1
      BY <1>1, <2>5
    <2> HIDE DEF b
    <2> QED
      BY <2>3, <2>4, <2>6
  <1> HIDE DEF b
  <1>10. Framed(c, g, i, q + 4)
    <2> DEFINE k == h + 1
    <2>1. k \in 1 .. Len(b) /\ b[k] = q + 4 /\ q + 4 \in Int
      BY <1>0, <1>1, <1>2, <1>4, <1>9
    <2> HIDE DEF k
    <2> QED
      BY <2>1, FramedAt DEF b
  <1>11. ToldApart(c, g, i)
    BY <1>8 DEF ToldApart
  <1>12. GeneratorOK(c, o) /\ Start(o) = f.bord[1] /\ o.old \in LateClasses /\ o.follow = f
    <2>1. PICK n : FollowUp(c.slots, f, n)
      BY <1>5
    <2>2. GeneratorOK(c, o) /\ Start(o) = f.bord[1] /\ o.old = class /\ o.follow = f
      BY <1>1, <2>1, LateGenerator
    <2> QED
      BY <1>1, <2>2
  <1>13. OnsetOf(c, t) = q + 4 /\ Start(gen0) = zero
    BY <1>1 DEF OnsetOf, Start, q
  <1>14. m.gen = o /\ m.grid = g /\ m.info = i
    OBVIOUS
  <1> HIDE DEF m, o
  <1>15. Made(c, gen0, t, m)
    BY <1>5, <1>7, <1>8, <1>10, <1>11, <1>12, <1>13, <1>14 DEF Made
  <1> QED
    BY <1>15 DEF m, o, g, i, d, f, head, q, class

(* The follow-up and the transient make a frame. *)
LEMMA DesignBehind ==
    ASSUME NEW slots \in SlotCounts, NEW q \in 0 .. slots - 1, NEW f, NEW n, FollowUp(slots, f, n),
           NEW head, NEW h, NEW r, VarVarHead(slots, q, f, n, head, h, r)
    PROVE  LET d == Design(slots, q, head)
           IN  /\ DesignedBehind(slots, q, head, d, h, r)
               /\ d.bord[1] = f.bord[1]
               /\ r > h => h = 1 /\ (q + 4) - d.bord[1] \in 0 .. 3
  <1> DEFINE d == Design(slots, q, head)
             e == FrameEnd(slots, q)
  <1>1. /\ GoodHead(slots, q, head, h, r) /\ r \in 2 .. 4 /\ head.nL = r - 2
        /\ h + e <= 6 /\ r - 1 \in 1 .. n /\ r - 1 \in 1 .. h
        /\ \A i \in 1 .. r - 1 : head.bord[i] = f.bord[i]
        /\ r <= h => head.bord[r - 1] < head.bord[r]
        /\ r = h + 1 => (q + FrameMiddleSlot) - head.bord[1] \in 0 .. DMin - 1
    BY DEF VarVarHead
  <1>2. /\ h \in 1 .. 5 /\ r \in 1 .. h + 1
        /\ r = h + 1 => h = 1 /\ head.bord[1] < 4
    BY <1>1 DEF GoodHead, IsHead
  <1>3. Designed(slots, q, head, d, h, r)
    BY <1>1, DesignOnHead
  <1> HIDE DEF d
  <1>4. /\ \A i \in 1 .. h : d.bord[i] = head.bord[i]
    BY <1>3 DEF Designed
  <1>5. r > h => d.bord[h + 1] = q + 6
    BY <1>2, <1>3, DesignedAt
  <1>6. /\ n \in 1 .. 3 /\ Elements(Int, f.bord, n) /\ f.bord[1] \in 0 .. 3
        /\ Fits(slots, f.bord, 1, n)
    BY DEF FollowUp
  <1> HIDE DEF e
  <1>7. 1 \in 1 .. r - 1 /\ 1 \in 1 .. h /\ \A i \in 1 .. r - 1 : i \in 1 .. h
    BY <1>1, <1>2
  <1>8. d.bord[1] = f.bord[1] /\ d.bord[1] = head.bord[1] /\ d.bord[1] \in 0 .. 3
    BY <1>1, <1>4, <1>6, <1>7
  <1>9. \A i \in 1 .. r - 1 : d.bord[i] = f.bord[i]
    BY <1>1, <1>4, <1>7
  <1>10. Fits(slots, d.bord, 1, r - 1)
    <2>1. \A k \in 1 .. (r - 1) - 1 : k \in 1 .. r - 1 /\ k + 1 \in 1 .. r - 1 /\ k \in 1 .. n - 1
      BY <1>1, <1>2, <1>6
    <2> QED
      BY <1>6, <1>9, <2>1 DEF Fits
  <1>11. r > h => r = h + 1 /\ h = 1 /\ (q + 4) - d.bord[1] \in 0 .. 3
    <2>1. q + FrameMiddleSlot = q + 4 /\ DMin - 1 = 3
      BY DEF FrameMiddleSlot, DMin
    <2>2. r > h => r = h + 1
      BY <1>2
    <2> QED
      BY <1>1, <1>2, <1>8, <2>1, <2>2
  <1>12. d.bord[r - 1] < d.bord[r]
    <2>1. CASE r <= h
      <3>1. r - 1 \in 1 .. h /\ r \in 1 .. h
        BY <1>1, <1>2, <2>1
      <3> QED
        BY <1>1, <1>4, <2>1, <3>1
    <2>2. CASE r > h
      <3>1. h = 1 /\ r = 2 /\ r - 1 = 1
        BY <1>11, <2>2
      <3>2. d.bord[2] = q + 6 /\ d.bord[1] \in 0 .. 3 /\ q \in Int /\ q >= 0
        BY <1>5, <1>8, <2>2, <3>1 DEF SlotCounts
      <3> QED
        BY <3>1, <3>2
    <2> QED
      BY <1>2, <2>1, <2>2
  <1>13. DesignedBehind(slots, q, head, d, h, r)
    BY <1>1, <1>3, <1>8, <1>10, <1>12 DEF DesignedBehind, e
  <1> QED
    BY <1>8, <1>11, <1>13 DEF d

(* VARVAR: a transient after a frame that ended late. *)
LEMMA VarVarMade ==
    ASSUME NEW c \in ConfigType, NEW gen0, GeneratorOK(c, gen0), gen0.old \in LateClasses,
           NEW t \in TransientOf(c)
    PROVE  LET d == Design(c.slots, t.pos, FillFrameInter(t.pos + FrameMiddleSlot, gen0.follow))
               g == VarVarSignal(d)
           IN  Made(c, gen0, t, [gen  |-> [old |-> "VARVAR", follow |-> KeepForFollowUp(c.slots, d)],
                                 grid |-> g, info |-> CtrlSignal2FrameInfo(c.slots, g)])
  <1> DEFINE q == t.pos
             f0 == gen0.follow
             head == FillFrameInter(q + FrameMiddleSlot, f0)
             d == Design(c.slots, q, head)
             g == VarVarSignal(d)
             i == CtrlSignal2FrameInfo(c.slots, g)
             f == KeepForFollowUp(c.slots, d)
             class == "VARVAR"
             o == [old |-> class, follow |-> f]
             m == [gen |-> o, grid |-> g, info |-> i]
             e == FrameEnd(c.slots, q)
             b == i.borders
             late == TailAt(c.slots, q, e) - c.slots
             first == f0.bord[1]
  <1>0. c.slots \in SlotCounts /\ c.slots \in Int /\ c.static = 0 /\ c.lowDelay = FALSE
    BY DEF ConfigType, SlotCounts, GeneratorOK
  <1>1. q \in 0 .. c.slots - 1 /\ class \in LateClasses
    BY DEF TransientOf, LateClasses
  <1>2. PICK n : FollowUp(c.slots, f0, n)
    BY DEF GeneratorOK
  <1> HIDE DEF q, class
  <1>3. PICK h, r : VarVarHead(c.slots, q, f0, n, head, h, r)
    BY <1>0, <1>1, <1>2, FillFrameIs
  <1> HIDE DEF f0, head
  <1>4. /\ DesignedBehind(c.slots, q, head, d, h, r)
        /\ d.bord[1] = first
        /\ r > h => h = 1 /\ (q + 4) - first \in 0 .. 3
    <2>1. LET d1 == Design(c.slots, q, head)
          IN  /\ DesignedBehind(c.slots, q, head, d1, h, r)
              /\ d1.bord[1] = f0.bord[1]
              /\ r > h => h = 1 /\ (q + 4) - d1.bord[1] \in 0 .. 3
      BY <1>0, <1>1, <1>2, <1>3, DesignBehind
    <2> QED
      BY <2>1
  <1> DEFINE z == h + e
             u == SubSeq(d.bord, 1, z)
  <1> HIDE DEF d
  <1>5. Designed(c.slots, q, head, d, h, r) /\ h \in 1 .. 5 /\ r \in 1 .. h + 1
    BY <1>4 DEF DesignedBehind, GoodHead, IsHead
  <1>6. /\ z \in 1 .. 8 /\ h \in 1 .. z
        /\ Elements(Int, u, z) /\ \A k \in 1 .. z : u[k] = d.bord[k]
        /\ r <= h => d.bord[h] = q + 4
    BY <1>0, <1>1, <1>5, DesignedAt
  <1>7. /\ FollowUp(c.slots, f, TailLen(c.slots, q) - e + 1) /\ f.bord[1] = late
    BY <1>0, <1>1, <1>5, KeptFollowUp
  <1>8. /\ VariableGrid(c.slots, g) /\ g.class = "VARVAR"
        /\ g.left = first /\ g.right = TailAt(c.slots, q, e)
        /\ BordersOf(c.slots, g, g.relLeft, g.relRight) = u
    <2>1. VarVarGridOf(c.slots, q, d, h)
      BY <1>0, <1>1, <1>4, VarVarGrid
    <2> QED
      BY <1>4, <2>1 DEF VarVarGridOf
  <1> HIDE DEF g, f, u
  <1>9. late \in Int /\ TailAt(c.slots, q, e) = c.slots + late
        /\ (q + 4 >= c.slots => (q + 4) - c.slots = late)
    <2>2. /\ TailAt(c.slots, q, 0) = q + 4
          /\ q + 4 >= c.slots => e = 0
          /\ TailAt(c.slots, q, e) \in c.slots .. c.slots + 3
      BY <1>0, <1>1, OnsetBehind
    <2> HIDE DEF e
    <2>1. TailAt(c.slots, q, e) \in Int /\ (q + 4 >= c.slots => TailAt(c.slots, q, e) = q + 4)
      BY <1>0, <2>2
    <2> QED
      BY <1>0, <2>1
  <1>10. first \in 0 .. 3
    BY <1>2 DEF FollowUp
  <1> HIDE DEF late, i, z, first
  <1>11. Laid(c, g, i, first, late) /\ b = u /\ i.shortEnv >= 1 /\ g.class \in VariableClasses
    <2>1. /\ first = (IF g.class = "FIXVAR" THEN 0 ELSE g.left)
          /\ g.class = "VARFIX" => late = 0
          /\ g.class # "VARFIX" => g.right = c.slots + late
      BY <1>8, <1>9
    <2> QED
      BY <1>0, <1>8, <1>9, <2>1, VariableLaid DEF i
  <1>12. Len(b) = z /\ b[1] = first /\ (r <= h => b[h] = q + 4) /\ 1 \in 1 .. z
    BY <1>4, <1>6, <1>11 DEF Elements
  <1> HIDE DEF b
  <1>13. Framed(c, g, i, first)
    <2> DEFINE k == 1
    <2>1. k \in 1 .. Len(b) /\ b[k] = first /\ first \in Int
      BY <1>10, <1>12
    <2> HIDE DEF k
    <2> QED
      BY <1>0, <2>1, FramedAt DEF b
  <1>14. Framed(c, g, i, q + 4)
    <2>1. CASE r <= h
      <3>1. h \in 1 .. Len(b) /\ b[h] = q + 4 /\ q + 4 \in Int
        BY <1>0, <1>1, <1>6, <1>12, <2>1
      <3> QED
        BY <1>0, <3>1, FramedAt DEF b
    <2>2. CASE r > h
      <3>1. 1 \in 1 .. Len(b) /\ b[1] - (q + 4) \in -3 .. 0
        BY <1>0, <1>1, <1>4, <1>10, <1>12, <2>2
      <3>2. b[1] - (q + 4) \in -(DMin - 1) .. DMin - 1
        BY <3>1 DEF DMin
      <3> QED
        BY <1>8, <3>1, <3>2 DEF Framed, Near, b
    <2> QED
      BY <1>5, <2>1, <2>2
  <1>15. ToldApart(c, g, i)
    BY <1>0, <1>11 DEF ToldApart
  <1>16. GeneratorOK(c, o) /\ Start(o) = f.bord[1] /\ o.old \in LateClasses /\ o.follow = f
    <2>1. PICK k : FollowUp(c.slots, f, k)
      BY <1>7
    <2>2. GeneratorOK(c, o) /\ Start(o) = f.bord[1] /\ o.old = class /\ o.follow = f
      BY <1>0, <1>1, <2>1, LateGenerator
    <2> QED
      BY <1>1, <2>2
  <1>17. OnsetOf(c, t) = q + 4 /\ Start(gen0) = first /\ gen0.follow.bord[1] = first
    BY <1>0 DEF OnsetOf, Start, q, first, f0
  <1>18. m.gen = o /\ m.grid = g /\ m.info = i
    OBVIOUS
  <1> HIDE DEF m, o
  <1>19. Made(c, gen0, t, m)
    BY <1>7, <1>9, <1>11, <1>13, <1>14, <1>15, <1>16, <1>17, <1>18 DEF Made
  <1> QED
    BY <1>19 DEF m, o, g, i, d, f, head, q, class, f0

(* FDKsbrEnc_frameInfoGenerator() makes a grid that the decoder reads, that *)
(* starts where the last one ended and in which the transients are borders: *)
(* for every state of the generator between two frames and every transient. *)
LEMMA GeneratorMakes ==
    ASSUME NEW c \in ConfigType, NEW gen0, GeneratorOK(c, gen0), NEW t \in TransientOf(c), NEW pre
    PROVE  Made(c, gen0, t, FrameInfoGenerator(c, gen0, t, pre))
  <1> DEFINE t1 == IF c.lowDelay THEN LowDelayTransient(c.slots, t, pre) ELSE t
             class == CalcFrameClass(gen0.old, t1.flag)
             num == IF c.static > 0 THEN c.static ELSE IF t1.pos = 0 THEN 1 ELSE 2
             res == c.freqResFixFix[IF num > 1 THEN 2 ELSE 1]
             fixfix == FixFixSignal(num, res)
             only == GenerateFixFixOnly(c.slots, t1.pos, c.transIsLow)
             head == IF class = "VARVAR" THEN FillFrameInter(t1.pos + FrameMiddleSlot, gen0.follow)
                     ELSE FixVarHead(t1.pos + FrameMiddleSlot)
             design == Design(c.slots, t1.pos, head)
             follow == KeepForFollowUp(c.slots, design)
             Coded(old, f, g) ==
                 [gen |-> [old |-> old, follow |-> f], grid |-> g,
                  info |-> CtrlSignal2FrameInfo(c.slots, g)]
             A == [gen |-> [gen0 EXCEPT !.old = "FIXFIX"], grid |-> fixfix,
                   info |-> FixFixInfo(c.slots, fixfix)]
             B == [gen |-> [gen0 EXCEPT !.old = "FIXFIX"],
                   grid |-> FixFixOnlySignal(t1.pos, only), info |-> only]
             C == Coded("VARFIX", gen0.follow, VarFixSignal(gen0.follow))
             D == Coded("FIXVAR", follow, FixVarSignal(design))
             E == Coded("VARVAR", follow, VarVarSignal(design))
             M == FrameInfoGenerator(c, gen0, t, pre)
  <1>0. /\ c.slots \in SlotCounts /\ c.lowDelay \in BOOLEAN /\ c.static \in {0, 1, 2, 4}
        /\ 0 \in 0 .. c.slots - 1
    BY DEF ConfigType, SlotCounts
  <1>1. t1 \in TransientOf(c) /\ (t.flag => t1 = t)
    BY <1>0 DEF TransientOf, LowDelayTransient
  <1>2. M = CASE c.static > 0 \/ (class = "FIXFIX" /\ ~t1.flag) -> A
              [] c.static = 0 /\ t1.flag /\ c.lowDelay -> B
              [] c.static = 0 /\ class = "VARFIX" -> C
              [] c.static = 0 /\ ~c.lowDelay /\ class = "FIXVAR" -> D
              [] c.static = 0 /\ ~c.lowDelay /\ class = "VARVAR" -> E
    BY DEF FrameInfoGenerator
  <1> HIDE DEF M, t1
  <1>3. t1.flag \in BOOLEAN
    BY <1>1 DEF TransientOf
  <1>4. class = (IF gen0.old \in LateClasses THEN IF t1.flag THEN "VARVAR" ELSE "VARFIX"
                 ELSE IF t1.flag THEN "FIXVAR" ELSE "FIXFIX")
    BY DEF CalcFrameClass, LateClasses
  <1>5. gen0.old \in LateClasses => c.static = 0 /\ c.lowDelay = FALSE
    BY <1>0 DEF GeneratorOK
  <1>6. Made(c, gen0, t1, M)
    <2>1. CASE c.static > 0 \/ (gen0.old \notin LateClasses /\ ~t1.flag)
      <3>1. c.static > 0 \/ (class = "FIXFIX" /\ ~t1.flag)
        BY <1>4, <2>1
      <3>2. ~(c.static = 0 /\ t1.flag)
        BY <1>0, <2>1
      <3>3. c.static = 0 => class = "FIXFIX"
        BY <1>0, <3>1
      <3>4. res \in Res
        BY DEF ConfigType, Res
      <3> HIDE DEF A, B, C, D, E, class, num, res
      <3>5. M = A
        BY <1>2, <3>1, <3>2, <3>3
      <3>6. c.static > 0 \/ (gen0.old \notin LateClasses /\ t1.flag = FALSE)
        BY <1>3, <2>1
      <3>7. num = (IF c.static > 0 THEN c.static ELSE IF t1.pos = 0 THEN 1 ELSE 2)
        BY DEF num
      <3>8. Made(c, gen0, t1, A)
        BY <3>4, <3>6, <3>7, FixFixMade DEF A
      <3> QED
        BY <3>5, <3>8
    <2>2. CASE c.static = 0 /\ t1.flag /\ c.lowDelay
      <3>1. class # "VARFIX" /\ ~(class = "FIXFIX" /\ ~t1.flag) /\ ~(c.static > 0)
        BY <1>4, <2>2
      <3> HIDE DEF A, B, C, D, E, class
      <3>2. M = B
        BY <1>2, <2>2, <3>1
      <3>3. c.lowDelay = TRUE
        BY <1>0, <2>2
      <3>4. Made(c, gen0, t1, B)
        BY <1>1, <2>2, <3>3, FixFixOnlyMade DEF B
      <3> QED
        BY <3>2, <3>4
    <2>3. CASE gen0.old \in LateClasses /\ ~t1.flag
      <3>1. class = "VARFIX" /\ c.static = 0 /\ t1.flag = FALSE /\ ~(c.static > 0)
        BY <1>3, <1>4, <1>5, <2>3
      <3> HIDE DEF A, B, C, D, E, class
      <3>2. M = C
        BY <1>2, <3>1
      <3>3. Made(c, gen0, t1, C)
        BY <2>3, <3>1, VarFixMade DEF C
      <3> QED
        BY <3>2, <3>3
    <2>4. CASE c.static = 0 /\ c.lowDelay = FALSE /\ gen0.old \notin LateClasses /\ t1.flag
      <3>1. class = "FIXVAR" /\ ~(c.static > 0)
        BY <1>4, <2>4
      <3>5. head = FixVarHead(t1.pos + FrameMiddleSlot)
        BY <3>1
      <3> HIDE DEF A, B, C, D, E, class, head
      <3>2. M = D
        BY <1>2, <2>4, <3>1
      <3>3. Made(c, gen0, t1, D)
        BY <1>1, <2>4, <3>5, FixVarMade DEF D
      <3> QED
        BY <3>2, <3>3
    <2>5. CASE gen0.old \in LateClasses /\ t1.flag
      <3>1. class = "VARVAR" /\ c.static = 0 /\ c.lowDelay = FALSE /\ ~(c.static > 0)
        BY <1>4, <1>5, <2>5
      <3>5. head = FillFrameInter(t1.pos + FrameMiddleSlot, gen0.follow)
        BY <3>1
      <3> HIDE DEF A, B, C, D, E, class, head
      <3>2. M = E
        BY <1>2, <2>5, <3>1
      <3>3. Made(c, gen0, t1, E)
        BY <1>1, <2>5, <3>5, VarVarMade DEF E
      <3> QED
        BY <3>2, <3>3
    <2> QED
      <3>1. c.static > 0 \/ c.static = 0
        BY <1>0
      <3> QED
        BY <1>0, <1>3, <2>1, <2>2, <2>3, <2>4, <2>5, <3>1
  <1>7. ~t.flag \/ t1 = t
    BY <1>1
  <1> QED
    BY <1>6, <1>7 DEF Made, M

-----------------------------------------------------------------------------
(* The invariant *)

(* The channel whose generator makes the grid of a channel. *)
OwnOf(ch) == IF cfg.stereo = "coupling" THEN 0 ELSE ch

(* The generators are between two frames, and each channel's next frame      *)
(* starts where the decoder stopped: in the slot the generator will start in,*)
(* and once the grid is laid in the slot of its first border.               *)
Generators == \A ch \in Channels : GeneratorOK(cfg, gen[ch])

Stops ==
    \A ch \in Channels :
        /\ stop[ch] \in cfg.slots .. cfg.slots + Overlap(cfg.lowDelay)
        /\ stop[ch] - cfg.slots = IF phase \in {"analyse", "grid"} THEN Start(gen[OwnOf(ch)])
                                                                   ELSE info[ch].borders[1]

(* The grids of a frame: each will be read back, and ends where the          *)
(* generator will start the next.                                           *)
NoGrids == grid = <<>> /\ info = <<>>

Grids ==
    /\ DOMAIN grid = Channels /\ DOMAIN info = Channels
    /\ \A ch \in Channels :
          Laid(cfg, grid[ch], info[ch], info[ch].borders[1], Start(gen[OwnOf(ch)]))

(* There is no grid before it is laid, and the grids of the frame after. *)
FrameOK ==
    /\ phase = "grid" => NoGrids
    /\ phase \in {"write", "read"} => Grids
    /\ NoGrids \/ Grids

(* A pair that may be sent as one has one grid. *)
Alike ==
    /\ Channels = {0, 1} /\ SameGrid(info[0], info[1])
    /\ OddSegments(0) => OddSegments(1)

Pairing == phase = "write" /\ mode \in {"switch", "coupling"} => Alike

(* What is sent are the grids of the channels, or the left one for both. *)
Sent ==
    phase = "read" =>
        /\ bits.coupling \in BOOLEAN /\ (bits.coupling => Alike)
        /\ \A ch \in Channels : bits.coupling => ch \in {0, 1}
        /\ \A ch \in IF bits.coupling THEN {0} ELSE Channels :
              bits.grids[ch] = EncodeSbrGrid(cfg.slots, grid[ch])

(* The two properties of what was decoded are part of the invariant: the    *)
(* frame stays until the next is analysed.                                  *)
Decoding ==
    /\ phase # "analyse" => decoded = <<>>
    /\ NothingConcealed /\ DecoderReadsGrid

(* A transient that is still to be framed is the one just found, or the one  *)
(* the follow-up was planned for.                                           *)
Planned(ch, o) == gen[ch].old \in LateClasses /\ o = gen[ch].follow.bord[1]

Onsets ==
    cfg.static = 0 /\ cfg.stereo # "coupling" =>
        \A ch \in Channels : \A o \in onsets[ch] :
            /\ o \in Int
            /\ IF phase = "grid"
               THEN Planned(ch, o) \/ (tran[ch].flag /\ o = OnsetOf(cfg, tran[ch]))
               ELSE o >= cfg.slots => Planned(ch, o - cfg.slots)

(* The location, the configuration, and what the detectors left. *)
Control ==
    /\ cfg \in Configurations
    /\ phase \in {"analyse", "grid", "write", "read"}
    /\ tran \in [Channels -> TransientInfo] \/ tran = [ch \in Channels |-> NoTransient]

(* The inductive invariant. *)
IInv ==
    /\ Control /\ Generators /\ Stops /\ FrameOK /\ Pairing /\ Sent /\ Decoding
    /\ Onsets /\ OnsetIsBorder

(* The configurations and the channels. *)
LEMMA ChannelsAre ==
    ASSUME cfg \in Configurations
    PROVE  /\ cfg \in ConfigType /\ cfg.slots \in SlotCounts /\ cfg.slots \in Int
           /\ cfg.slots >= 15 /\ cfg.slots <= 16
           /\ cfg.lowDelay \in BOOLEAN /\ cfg.static \in {0, 1, 2, 4}
           /\ cfg.stereo \in {"mono", "left_right", "coupling", "switch"}
           /\ Channels \subseteq {0, 1} /\ 0 \in Channels
           /\ cfg.stereo # "mono" => Channels = {0, 1}
           /\ \A ch \in Channels : OwnOf(ch) \in Channels /\ OwnOf(OwnOf(ch)) = OwnOf(ch)
           /\ \A ch \in Channels : cfg.stereo # "coupling" => OwnOf(ch) = ch
           /\ Overlap(cfg.lowDelay) \in 0 .. 3
           /\ cfg.lowDelay = FALSE => Overlap(cfg.lowDelay) = 3
  <1>1. cfg \in ConfigType
    BY SbrAssumption
  <1>2. /\ cfg.slots \in SlotCounts /\ cfg.slots \in Int /\ cfg.slots >= 15 /\ cfg.slots <= 16
        /\ cfg.lowDelay \in BOOLEAN /\ cfg.static \in {0, 1, 2, 4}
        /\ cfg.stereo \in {"mono", "left_right", "coupling", "switch"}
    BY <1>1 DEF ConfigType, SlotCounts
  <1>3. /\ Channels \subseteq {0, 1} /\ 0 \in Channels
        /\ cfg.stereo # "mono" => Channels = {0, 1}
    BY DEF Channels
  <1>4. \A ch \in Channels : OwnOf(ch) \in Channels /\ OwnOf(OwnOf(ch)) = OwnOf(ch)
    BY <1>3 DEF OwnOf
  <1>5. \A ch \in Channels : cfg.stereo # "coupling" => OwnOf(ch) = ch
    BY DEF OwnOf
  <1>6. /\ Overlap(cfg.lowDelay) \in 0 .. 3
        /\ cfg.lowDelay = FALSE => Overlap(cfg.lowDelay) = 3
    BY <1>2 DEF Overlap
  <1> QED
    BY <1>1, <1>2, <1>3, <1>4, <1>5, <1>6

(* A generator starts the next frame within the overlap. *)
LEMMA StartsInOverlap ==
    ASSUME NEW c \in ConfigType, NEW g, GeneratorOK(c, g)
    PROVE  /\ Start(g) \in 0 .. Overlap(c.lowDelay)
           /\ g.old \in LateClasses => Start(g) = g.follow.bord[1] /\ g.follow.bord[1] \in 0 .. 3
           /\ g.old \in FrameClasses
           /\ Len(g.follow.bord) <= MaxEnvelopes
           /\ g.old \in LateClasses => Len(g.follow.bord) > 0
  <1>0. c.lowDelay \in BOOLEAN
    BY DEF ConfigType
  <1> DEFINE l == Len(g.follow.bord)
             s == g.follow.bord[1]
  <1>1. ASSUME NEW n, FollowUp(c.slots, g.follow, n)
        PROVE  l \in 1 .. 3 /\ s \in 0 .. 3
    BY <1>1 DEF FollowUp, Elements
  <1>2. g.follow = NoFollowUp => l = 0
    <2>1. NoFollowUp.bord = <<>> /\ Len(<<>>) = 0
      BY DEF NoFollowUp
    <2> QED
      BY <2>1
  <1>3. g.old \in FrameClasses
    BY DEF GeneratorOK, VariableClasses, FrameClasses
  <1>4. g.follow = NoFollowUp \/ \E n : FollowUp(c.slots, g.follow, n)
    BY DEF GeneratorOK
  <1>5. g.old \in LateClasses =>
          c.lowDelay = FALSE /\ \E n : FollowUp(c.slots, g.follow, n)
    BY <1>0 DEF GeneratorOK
  <1>6. Start(g) = IF g.old \in LateClasses THEN s ELSE 0
    BY DEF Start
  <1>7. Overlap(c.lowDelay) \in 0 .. 3 /\ (c.lowDelay = FALSE => Overlap(c.lowDelay) = 3)
    BY <1>0 DEF Overlap
  <1> HIDE DEF l, s
  <1>8. l <= MaxEnvelopes /\ (g.old \in LateClasses => l > 0 /\ s \in 0 .. 3)
    <2>1. l = 0 \/ l \in 1 .. 3
      BY <1>1, <1>2, <1>4
    <2>2. l <= 5
      BY <2>1
    <2>3. g.old \in LateClasses => l > 0 /\ s \in 0 .. 3
      <3> SUFFICES ASSUME g.old \in LateClasses
                   PROVE  l > 0 /\ s \in 0 .. 3
        OBVIOUS
      <3>1. l \in 1 .. 3 /\ s \in 0 .. 3
        BY <1>1, <1>5
      <3> QED
        BY <3>1
    <2> QED
      BY <2>2, <2>3 DEF MaxEnvelopes
  <1>9. Start(g) \in 0 .. Overlap(c.lowDelay)
    <2>1. CASE g.old \in LateClasses
      BY <1>5, <1>6, <1>7, <1>8, <2>1
    <2>2. CASE g.old \notin LateClasses
      BY <1>6, <1>7, <2>2
    <2> QED
      BY <2>1, <2>2
  <1> QED
    BY <1>3, <1>6, <1>8, <1>9 DEF l, s

(* The invariant is as strong as the properties. *)
LEMMA InvType ==
    ASSUME IInv
    PROVE  TypeOK
  <1>1. Control /\ Generators /\ Stops /\ FrameOK
    BY DEF IInv
  <1>2. cfg \in ConfigType
    BY <1>1, ChannelsAre DEF Control
  <1>3. \A ch \in Channels :
          /\ gen[ch].old \in FrameClasses
          /\ Len(gen[ch].follow.bord) <= MaxEnvelopes
          /\ gen[ch].old \in {"FIXVAR", "VARVAR"} =>
                Len(gen[ch].follow.bord) > 0 /\ gen[ch].follow.bord[1] \in 0 .. 3
    <2> TAKE ch \in Channels
    <2>1. GeneratorOK(cfg, gen[ch])
      BY <1>1 DEF Generators
    <2> QED
      BY <1>2, <2>1, StartsInOverlap DEF LateClasses
  <1>4. \A ch \in Channels : stop[ch] \in cfg.slots .. cfg.slots + Overlap(cfg.lowDelay)
    BY <1>1 DEF Stops
  <1>5. \A ch \in DOMAIN grid : GridType(grid[ch]) /\ FrameInfoType(info[ch], MaxEnvelopes)
    <2>1. CASE NoGrids
      BY <2>1 DEF NoGrids
    <2>2. CASE Grids
      BY <2>2 DEF Grids, Laid
    <2> QED
      BY <1>1, <2>1, <2>2 DEF FrameOK
  <1> QED
    BY <1>1, <1>3, <1>4, <1>5 DEF TypeOK, Control

(* The invariant holds initially. *)
LEMMA InitInv ==
    ASSUME Init
    PROVE  IInv
  <1>0. /\ cfg \in Configurations /\ phase = "analyse"
        /\ gen = [ch \in Channels |-> InitGenerator]
        /\ tran = [ch \in Channels |-> NoTransient]
        /\ stop = [ch \in Channels |-> cfg.slots]
        /\ onsets = [ch \in Channels |-> {}]
        /\ grid = <<>> /\ info = <<>> /\ decoded = <<>>
    BY DEF Init, NoFrame
  <1>1. Control
    BY <1>0 DEF Control
  <1>2. GeneratorOK(cfg, InitGenerator) /\ Start(InitGenerator) = 0
    BY DEF GeneratorOK, InitGenerator, LateClasses, Start
  <1>3. Generators
    BY <1>0, <1>2 DEF Generators
  <1>4. Stops
    <2>1. \A ch \in Channels : OwnOf(ch) \in Channels
      BY <1>0, ChannelsAre
    <2>2. cfg.slots \in Int /\ Overlap(cfg.lowDelay) \in 0 .. 3
      BY <1>0, ChannelsAre
    <2>3. \A ch \in Channels : stop[ch] = cfg.slots /\ Start(gen[OwnOf(ch)]) = 0
      BY <1>0, <1>2, <2>1
    <2> QED
      BY <1>0, <2>2, <2>3 DEF Stops
  <1>5. FrameOK
    BY <1>0 DEF FrameOK, NoGrids
  <1>6. Pairing /\ Sent
    BY <1>0 DEF Pairing, Sent
  <1>7. Decoding
    BY <1>0 DEF Decoding, NothingConcealed, DecoderReadsGrid
  <1>8. Onsets
    BY <1>0 DEF Onsets
  <1>9. OnsetIsBorder
    BY <1>0 DEF OnsetIsBorder
  <1> QED
    BY <1>1, <1>3, <1>4, <1>5, <1>6, <1>7, <1>8, <1>9 DEF IInv

-----------------------------------------------------------------------------
(* Its preservation *)

(* What the detectors leave. *)
LEMMA TransientInfoIs ==
    ASSUME cfg \in Configurations, NEW t \in TransientInfo
    PROVE  /\ t.pos \in 0 .. cfg.slots - 1 /\ t.flag \in BOOLEAN /\ t.ahead \in BOOLEAN
           /\ t = [pos |-> t.pos, flag |-> t.flag, ahead |-> t.ahead]
  <1>1. cfg.slots \in Int /\ cfg.slots >= 15 /\ cfg.lowDelay \in BOOLEAN
    BY ChannelsAre
  <1>2. \A p \in Positions : p \in 0 .. cfg.slots - 1
    BY <1>1, SbrAssumption DEF Positions
  <1>3. \A a \in {FALSE, cfg.lowDelay} : a \in BOOLEAN
    BY <1>1
  <1>4. 0 \in 0 .. cfg.slots - 1 /\ 1 \in 0 .. cfg.slots - 1
    BY <1>1
  <1>5. CASE \E p \in Positions, a \in {FALSE, cfg.lowDelay} :
               t = [pos |-> p, flag |-> TRUE, ahead |-> a]
    <2>1. PICK p \in Positions, a \in {FALSE, cfg.lowDelay} :
                 t = [pos |-> p, flag |-> TRUE, ahead |-> a]
      BY <1>5
    <2>2. p \in 0 .. cfg.slots - 1 /\ a \in BOOLEAN
      BY <1>2, <1>3
    <2>3. t.pos = p /\ t.flag = TRUE /\ t.ahead = a
      BY <2>1
    <2> QED
      BY <2>1, <2>2, <2>3
  <1>6. CASE \E p \in {0, 1}, a \in {FALSE, cfg.lowDelay} :
               t = [pos |-> p, flag |-> FALSE, ahead |-> a]
    <2>1. PICK p \in {0, 1}, a \in {FALSE, cfg.lowDelay} :
                 t = [pos |-> p, flag |-> FALSE, ahead |-> a]
      BY <1>6
    <2>2. p \in 0 .. cfg.slots - 1 /\ a \in BOOLEAN
      BY <1>3, <1>4
    <2>3. t.pos = p /\ t.flag = FALSE /\ t.ahead = a
      BY <2>1
    <2> QED
      BY <2>1, <2>2, <2>3
  <1> QED
    BY <1>5, <1>6 DEF TransientInfo

(* Before the first frame nothing was found either. *)
LEMMA TranOf ==
    ASSUME Control, NEW ch \in Channels
    PROVE  tran[ch] \in TransientOf(cfg)
  <1>1. cfg \in Configurations
    BY DEF Control
  <1>2. cfg.slots \in Int /\ cfg.slots >= 15
    BY <1>1, ChannelsAre
  <1>3. CASE tran \in [Channels -> TransientInfo]
    <2>1. tran[ch] \in TransientInfo
      BY <1>3
    <2> QED
      BY <1>1, <2>1, TransientInfoIs DEF TransientOf
  <1>4. CASE tran = [c \in Channels |-> NoTransient]
    <2>1. tran[ch] = [pos |-> 0, flag |-> FALSE, ahead |-> FALSE]
      BY <1>4 DEF NoTransient
    <2>2. 0 \in 0 .. cfg.slots - 1
      BY <1>2
    <2> QED
      BY <2>1, <2>2 DEF TransientOf
  <1> QED
    BY <1>3, <1>4 DEF Control

(* A transient found in this frame is one to be framed; one kept from the   *)
(* frame before was planned for.                                            *)
LEMMA AnalyseInv ==
    ASSUME IInv, Analyse
    PROVE  IInv'
  <1>1. /\ phase = "analyse" /\ phase' = "grid" /\ cfg' = cfg /\ gen' = gen /\ stop' = stop
        /\ grid' = <<>> /\ info' = <<>> /\ decoded' = <<>>
        /\ tran' \in [Channels -> TransientInfo]
        /\ onsets' = [ch \in Channels |->
                        {o - cfg.slots : o \in {q \in onsets[ch] : q >= cfg.slots}}
                          \cup (IF tran'[ch].flag THEN {Onset(tran'[ch])} ELSE {})]
    BY DEF Analyse
  <1>2. Channels' = Channels /\ TransientInfo' = TransientInfo
    BY <1>1 DEF Channels, TransientInfo, Positions
  <1>3. Control'
    BY <1>1, <1>2 DEF IInv, Control
  <1>4. Generators'
    BY <1>1, <1>2 DEF IInv, Generators
  <1>5. Stops'
    BY <1>1, <1>2 DEF IInv, Stops, OwnOf
  <1>6. FrameOK'
    BY <1>1 DEF FrameOK, NoGrids
  <1>7. Pairing' /\ Sent'
    BY <1>1 DEF Pairing, Sent
  <1>8. Decoding'
    BY <1>1 DEF Decoding, NothingConcealed, DecoderReadsGrid
  <1>9. Onsets'
    <2>0. cfg \in Configurations
      BY DEF IInv, Control
    <2>1. SUFFICES ASSUME cfg.static = 0, cfg.stereo # "coupling",
                          NEW ch \in Channels, NEW o \in onsets'[ch]
                   PROVE  /\ o \in Int
                          /\ \/ gen[ch].old \in LateClasses /\ o = gen[ch].follow.bord[1]
                             \/ tran'[ch].flag /\ o = OnsetOf(cfg, tran'[ch])
      BY <1>1, <1>2 DEF Onsets, Planned
    <2>2. cfg.slots \in Int
      BY <2>0, ChannelsAre
    <2>3. CASE o \in {e - cfg.slots : e \in {q \in onsets[ch] : q >= cfg.slots}}
      <3>1. PICK q \in onsets[ch] : q >= cfg.slots /\ o = q - cfg.slots
        BY <2>3
      <3>2. q \in Int /\ Planned(ch, q - cfg.slots)
        BY <1>1, <2>1, <3>1 DEF IInv, Onsets
      <3> QED
        BY <2>2, <3>1, <3>2 DEF Planned
    <2>4. CASE tran'[ch].flag /\ o = Onset(tran'[ch])
      <3>1. tran'[ch] \in TransientInfo
        BY <1>1
      <3>2. tran'[ch].pos \in Int
        BY <2>0, <2>2, <3>1, TransientInfoIs
      <3>3. Onset(tran'[ch]) = OnsetOf(cfg, tran'[ch]) /\ Onset(tran'[ch]) \in Int
        BY <3>2 DEF Onset, OnsetOf
      <3> QED
        BY <2>4, <3>3
    <2>5. onsets'[ch] = {e - cfg.slots : e \in {q \in onsets[ch] : q >= cfg.slots}}
                          \cup (IF tran'[ch].flag THEN {Onset(tran'[ch])} ELSE {})
      BY <1>1
    <2> QED
      BY <2>3, <2>4, <2>5
  <1>10. OnsetIsBorder'
    BY <1>1 DEF OnsetIsBorder
  <1> QED
    BY <1>3, <1>4, <1>5, <1>6, <1>7, <1>8, <1>9, <1>10 DEF IInv

(* Only grids of a pair that are alike are sent as one. *)
LEMMA WriteInv ==
    ASSUME IInv, Write
    PROVE  IInv'
  <1>1. /\ phase = "write" /\ phase' = "read" /\ cfg' = cfg /\ gen' = gen /\ tran' = tran
        /\ grid' = grid /\ info' = info /\ mode' = mode /\ decoded' = decoded
        /\ stop' = stop /\ onsets' = onsets
    BY DEF Write
  <1>2. Channels' = Channels /\ TransientInfo' = TransientInfo
    BY <1>1 DEF Channels, TransientInfo, Positions
  <1>3. Control'
    BY <1>1, <1>2 DEF IInv, Control
  <1>4. Generators'
    BY <1>1, <1>2 DEF IInv, Generators
  <1>5. Stops'
    BY <1>1, <1>2 DEF IInv, Stops, OwnOf
  <1>6. FrameOK'
    BY <1>1, <1>2 DEF IInv, FrameOK, Grids, OwnOf
  <1>7. Pairing'
    BY <1>1 DEF Pairing
  <1>8. Sent'
    <2>1. PICK coupling \in MayCouple :
            bits' = [coupling |-> coupling,
                     grids    |-> [ch \in IF coupling THEN {0} ELSE Channels |->
                                     EncodeSbrGrid(cfg.slots, grid[ch])]]
      BY DEF Write
    <2>2. coupling \in BOOLEAN /\ (coupling => mode \in {"switch", "coupling"})
      <3>1. CASE mode = "switch"
        BY <2>1, <3>1 DEF MayCouple
      <3>2. CASE mode = "coupling"
        BY <2>1, <3>2 DEF MayCouple
      <3>3. CASE mode # "switch" /\ mode # "coupling"
        BY <2>1, <3>3 DEF MayCouple
      <3> QED
        BY <3>1, <3>2, <3>3
    <2>3. coupling => Alike
      BY <1>1, <2>2 DEF IInv, Pairing
    <2>4. Alike' = Alike
      BY <1>1, <1>2 DEF Alike, SameGrid, OddSegments
    <2>5. \A ch \in Channels : ch \in {0, 1}
      BY DEF Channels
    <2>6. \A ch \in IF coupling THEN {0} ELSE Channels :
            bits'.grids[ch] = EncodeSbrGrid(cfg.slots, grid[ch])
      BY <2>1
    <2>7. bits'.coupling = coupling
      BY <2>1
    <2> QED
      BY <1>1, <1>2, <2>2, <2>3, <2>4, <2>5, <2>6, <2>7 DEF Sent
  <1>9. Decoding'
    <2>1. decoded' = <<>>
      BY <1>1 DEF IInv, Decoding
    <2> QED
      BY <2>1 DEF Decoding, NothingConcealed, DecoderReadsGrid
  <1>10. Onsets'
    BY <1>1, <1>2 DEF IInv, Onsets, Planned
  <1>11. OnsetIsBorder'
    BY <1>1 DEF IInv, OnsetIsBorder
  <1> QED
    BY <1>3, <1>4, <1>5, <1>6, <1>7, <1>8, <1>9, <1>10, <1>11 DEF IInv

(* What the decoder reads for a channel: the grid of the channel itself, or  *)
(* the left one in place of one that is alike.                              *)
LEMMA ReadOf ==
    ASSUME IInv, phase = "read", NEW ch \in Channels
    PROVE  LET s == IF bits.coupling THEN 0 ELSE ch
               x == ExtractFrameInfo(cfg.slots, cfg.lowDelay, bits.grids[s])
           IN  /\ x.valid /\ x.borders[1] = stop[ch] - cfg.slots
               /\ Last(x.borders) = cfg.slots + Start(gen[OwnOf(ch)])
               /\ x.freqRes = info[ch].freqRes
               /\ ~OddSegments(ch) =>
                     /\ ReadRight(info[ch], x)
                     /\ ~bits.coupling => x.noise = info[ch].noise
  <1> DEFINE s == IF bits.coupling THEN 0 ELSE ch
             x == ExtractFrameInfo(cfg.slots, cfg.lowDelay, bits.grids[s])
             i == info[s]
  <1>1. /\ cfg \in Configurations /\ Grids /\ Stops /\ Sent
    BY DEF IInv, Control, FrameOK
  <1>2. cfg.slots = 15 \/ cfg.slots = 16
    BY <1>1, ChannelsAre DEF SlotCounts
  <1>3. /\ s \in Channels /\ bits.coupling \in BOOLEAN /\ (bits.coupling => Alike /\ ch \in {0, 1})
        /\ bits.grids[s] = EncodeSbrGrid(cfg.slots, grid[s])
    BY <1>1, ChannelsAre DEF Sent
  <1>4. SameGrid(i, info[ch])
    <2>1. CASE s = ch
      BY <2>1 DEF SameGrid
    <2>2. CASE s # ch
      <3>1. bits.coupling /\ s = 0 /\ ch = 1
        BY <1>3, <2>2
      <3> QED
        BY <1>3, <3>1 DEF Alike
    <2> QED
      BY <2>1, <2>2
  <1>5. ~OddSegments(ch) => cfg.slots = 16 \/ grid[s].class \notin VariableClasses
    <2>1. ~OddSegments(ch) => ~OddSegments(s)
      <3>1. CASE s = ch
        BY <3>1
      <3>2. CASE s # ch
        <4>1. bits.coupling /\ s = 0 /\ ch = 1
          BY <1>3, <3>2
        <4>2. OddSegments(0) => OddSegments(1)
          BY <1>3, <4>1 DEF Alike
        <4> QED
          BY <4>1, <4>2
      <3> QED
        BY <3>1, <3>2
    <2> QED
      BY <1>2, <2>1 DEF OddSegments, VariableClasses
  <1>6. ReadsBack(cfg, grid[s], i)
    BY <1>1, <1>3 DEF Grids, Laid
  <1>7. Last(info[ch].borders) = cfg.slots + Start(gen[OwnOf(ch)])
    BY <1>1 DEF Grids, Laid
  <1>8. stop[ch] - cfg.slots = info[ch].borders[1]
    BY <1>1 DEF Stops
  <1>9. /\ x.valid /\ x.freqRes = i.freqRes
        /\ x.borders[1] = i.borders[1] /\ Last(x.borders) = Last(i.borders)
        /\ i.shortEnv = Max({x.tranEnv, 0}) \/ (cfg.lowDelay /\ i.shortEnv = Len(i.freqRes))
        /\ cfg.slots = 16 \/ grid[s].class \notin VariableClasses =>
              x.borders = i.borders /\ x.noise = i.noise
    BY <1>3, <1>6 DEF ReadsBack
  <1>10. /\ i.borders = info[ch].borders /\ i.freqRes = info[ch].freqRes
         /\ i.shortEnv = info[ch].shortEnv
    BY <1>4 DEF SameGrid
  <1>11. ~bits.coupling => i = info[ch]
    OBVIOUS
  <1> HIDE DEF s, x, i
  <1>12. ~OddSegments(ch) =>
            /\ ReadRight(info[ch], x)
            /\ ~bits.coupling => x.noise = info[ch].noise
    BY <1>5, <1>9, <1>10, <1>11 DEF ReadRight
  <1>13. /\ x.valid /\ x.borders[1] = stop[ch] - cfg.slots
         /\ Last(x.borders) = cfg.slots + Start(gen[OwnOf(ch)])
         /\ x.freqRes = info[ch].freqRes
    BY <1>7, <1>8, <1>9, <1>10
  <1> QED
    BY <1>12, <1>13 DEF s, x

(* Every grid is accepted and joined, and the decoder stops where the       *)
(* generator will start the next frame.                                     *)
LEMMA ReadInv ==
    ASSUME IInv, Read
    PROVE  IInv'
  <1> DEFINE X(ch) == ExtractFrameInfo(cfg.slots, cfg.lowDelay,
                                       bits.grids[IF bits.coupling THEN 0 ELSE ch])
             J(ch) == IF X(ch).valid /\ X(ch).borders[1] = stop[ch] - cfg.slots
                      THEN X(ch) ELSE Concealment(stop[ch] - cfg.slots)
  <1>1. /\ phase = "read" /\ phase' = "analyse" /\ cfg' = cfg /\ gen' = gen /\ tran' = tran
        /\ grid' = grid /\ info' = info /\ mode' = mode /\ bits' = bits /\ onsets' = onsets
        /\ decoded' = [ch \in Channels |-> J(ch)]
        /\ stop' = [ch \in Channels |-> Last(decoded'[ch].borders)]
    BY DEF Read
  <1>2. Channels' = Channels /\ TransientInfo' = TransientInfo
    BY <1>1 DEF Channels, TransientInfo, Positions
  <1>3. Control'
    BY <1>1, <1>2 DEF IInv, Control
  <1>4. Generators'
    BY <1>1, <1>2 DEF IInv, Generators
  <1>5. \A ch \in Channels :
          /\ decoded'[ch].valid
          /\ Last(decoded'[ch].borders) = cfg.slots + Start(gen[OwnOf(ch)])
          /\ decoded'[ch].freqRes = info[ch].freqRes
          /\ ~OddSegments(ch) =>
                /\ ReadRight(info[ch], decoded'[ch])
                /\ ~bits.coupling => decoded'[ch].noise = info[ch].noise
    <2> TAKE ch \in Channels
    <2>1. /\ X(ch).valid /\ X(ch).borders[1] = stop[ch] - cfg.slots
          /\ Last(X(ch).borders) = cfg.slots + Start(gen[OwnOf(ch)])
          /\ X(ch).freqRes = info[ch].freqRes
          /\ ~OddSegments(ch) =>
                /\ ReadRight(info[ch], X(ch))
                /\ ~bits.coupling => X(ch).noise = info[ch].noise
      BY <1>1, ReadOf
    <2>2. decoded'[ch] = J(ch)
      BY <1>1
    <2> HIDE DEF X
    <2>3. decoded'[ch] = X(ch)
      BY <2>1, <2>2
    <2> QED
      BY <2>1, <2>3
  <1>6. DOMAIN decoded' = Channels
    BY <1>1
  <1> HIDE DEF X, J
  <1>7. Stops'
    <2>1. SUFFICES ASSUME NEW ch \in Channels
                   PROVE  /\ stop'[ch] \in cfg.slots .. cfg.slots + Overlap(cfg.lowDelay)
                          /\ stop'[ch] - cfg.slots = Start(gen[OwnOf(ch)])
      BY <1>1, <1>2 DEF Stops, OwnOf
    <2>2. stop'[ch] = cfg.slots + Start(gen[OwnOf(ch)])
      BY <1>1, <1>5
    <2>3. /\ cfg \in ConfigType /\ cfg.slots \in Int /\ Overlap(cfg.lowDelay) \in 0 .. 3
          /\ OwnOf(ch) \in Channels
      BY ChannelsAre DEF IInv, Control
    <2>4. GeneratorOK(cfg, gen[OwnOf(ch)])
      BY <2>3 DEF IInv, Generators
    <2>5. Start(gen[OwnOf(ch)]) \in 0 .. Overlap(cfg.lowDelay)
      BY <2>3, <2>4, StartsInOverlap
    <2> QED
      BY <2>2, <2>3, <2>5
  <1>8. FrameOK'
    BY <1>1, <1>2 DEF IInv, FrameOK, Grids, NoGrids, OwnOf
  <1>9. Pairing' /\ Sent'
    BY <1>1 DEF Pairing, Sent
  <1>10. Decoding'
    <2>1. DecoderReadsGrid'
      BY <1>1, <1>5, <1>6 DEF DecoderReadsGrid, ReadRight, OddSegments
    <2>2. NothingConcealed'
      BY <1>5, <1>6 DEF NothingConcealed
    <2> QED
      BY <1>1, <2>1, <2>2 DEF Decoding
  <1>11. Onsets'
    BY <1>1, <1>2 DEF IInv, Onsets, Planned
  <1>12. OnsetIsBorder'
    BY <1>1 DEF IInv, OnsetIsBorder
  <1> QED
    BY <1>3, <1>4, <1>7, <1>8, <1>9, <1>10, <1>11, <1>12 DEF IInv

(* The transient the generator is given: in a coupled pair the flag is that *)
(* of the channel, the position one of the two.                             *)
LEMMA TransientIs ==
    ASSUME Control, NEW ch \in Channels
    PROVE  /\ Transient(ch) \in TransientOf(cfg)
           /\ cfg.stereo # "coupling" => Transient(ch) = tran[ch]
  <1>1. tran[ch] \in TransientOf(cfg)
    BY TranOf
  <1>2. CASE cfg.stereo # "coupling"
    BY <1>1, <1>2 DEF Transient
  <1>3. CASE cfg.stereo = "coupling"
    <2>1. Channels = {0, 1}
      BY <1>3 DEF Channels
    <2>2. tran[0] \in TransientOf(cfg) /\ tran[1] \in TransientOf(cfg)
      BY <2>1, TranOf
    <2>3. /\ tran[0].pos \in 0 .. cfg.slots - 1 /\ tran[1].pos \in 0 .. cfg.slots - 1
          /\ tran[0].flag \in BOOLEAN
      BY <2>2 DEF TransientOf
    <2>4. cfg.slots \in Int
      BY ChannelsAre DEF Control
    <2>5. tran[0].pos \in Int /\ tran[1].pos \in Int
      BY <2>3, <2>4
    <2>6. CoupledPosition \in {tran[0].pos, tran[1].pos}
      <3> DEFINE p == tran[0].pos
                 q == tran[1].pos
      <3>1. Min({p, q}) \in {p, q} /\ Max({p, q}) \in {p, q}
        <4> HIDE DEF p, q
        <4>1. p \in Int /\ q \in Int
          BY <2>5 DEF p, q
        <4> QED
          BY <4>1, MinOfTwo, MaxOfTwo
      <3> QED
        BY <3>1 DEF CoupledPosition
    <2>7. CoupledPosition \in 0 .. cfg.slots - 1
      BY <2>3, <2>6
    <2>8. Transient(ch) = [tran[ch] EXCEPT !.pos = CoupledPosition]
      BY <1>3 DEF Transient
    <2> QED
      BY <1>1, <1>3, <2>7, <2>8 DEF TransientOf
  <1> QED
    BY <1>2, <1>3

(* Shortening the last envelope changes nothing the decoder takes from the   *)
(* grid.                                                                    *)
LEMMA Shortened ==
    ASSUME cfg \in Configurations, NEW g, NEW i, NEW t, NEW first, NEW last,
           Laid(cfg, g, i, first, last)
    PROVE  LET j == ShortenBeforeNext(i, t)
           IN  /\ Laid(cfg, g, j, first, last)
               /\ j.borders = i.borders
               /\ ~cfg.lowDelay => j = i
  <1> DEFINE j == ShortenBeforeNext(i, t)
             l == Len(i.freqRes)
  <1>1. CASE cfg.lowDelay /\ t.ahead
    <2>1. j = [i EXCEPT !.shortEnv = l]
      BY <1>1 DEF ShortenBeforeNext
    <2>2. i = [borders |-> i.borders, freqRes |-> i.freqRes,
               shortEnv |-> i.shortEnv, noise |-> i.noise]
      BY DEF Laid, IsInfo
    <2>3. j = [borders |-> i.borders, freqRes |-> i.freqRes,
               shortEnv |-> l, noise |-> i.noise]
      BY <2>1, <2>2
    <2> HIDE DEF j, l
    <2>4. j.borders = i.borders /\ j.freqRes = i.freqRes /\ j.shortEnv = l /\ j.noise = i.noise
      BY <2>3
    <2>5. IsInfo(j)
      BY <2>3, <2>4 DEF IsInfo
    <2>6. l \in 0 .. l
      <3>1. l \in 1 .. MaxEnvelopes
        BY DEF Laid, FrameInfoType, l
      <3> QED
        BY <3>1 DEF MaxEnvelopes
    <2>7. FrameInfoType(j, MaxEnvelopes)
      <3>1. Len(j.freqRes) = l
        BY <2>4 DEF l
      <3> QED
        BY <2>4, <2>6, <3>1 DEF Laid, FrameInfoType
    <2>8. ReadsBack(cfg, g, j)
      <3>1. Len(j.freqRes) = l
        BY <2>4 DEF l
      <3> QED
        BY <1>1, <2>4, <3>1 DEF Laid, ReadsBack
    <2>9. Laid(cfg, g, j, first, last)
      BY <2>4, <2>5, <2>7, <2>8 DEF Laid
    <2> QED
      BY <1>1, <2>4, <2>9 DEF j
  <1>2. CASE ~(cfg.lowDelay /\ t.ahead)
    BY <1>2 DEF ShortenBeforeNext
  <1> QED
    BY <1>1, <1>2

(* A channel's frame, laid by its own generator or by the left one. *)
LEMMA LaidOf ==
    ASSUME IInv, Lay, NEW ch \in Channels
    PROVE  \E m :
              /\ Made(cfg, gen[OwnOf(ch)], Transient(OwnOf(ch)), m)
              /\ gen'[OwnOf(ch)] = m.gen /\ grid'[ch] = m.grid
              /\ info'[ch].borders = m.info.borders
              /\ ~cfg.lowDelay => info'[ch] = m.info
              /\ Laid(cfg, grid'[ch], info'[ch], Start(gen[OwnOf(ch)]), Start(m.gen))
  <1> DEFINE M(c) == FrameInfoGenerator(cfg, gen[c], Transient(c), preTran[c])
             own == OwnOf(ch)
             t == Transient(own)
  <1>1. /\ Control /\ cfg \in Configurations /\ cfg \in ConfigType
        /\ own \in Channels /\ OwnOf(own) = own
    BY ChannelsAre DEF IInv, Control
  <1>2. /\ gen' = [c \in Channels |-> IF OwnOf(c) = c THEN M(c).gen ELSE gen[c]]
        /\ grid' = [c \in Channels |-> M(OwnOf(c)).grid]
        /\ info' = [c \in Channels |->
                      ShortenBeforeNext(M(OwnOf(c)).info, Transient(OwnOf(c)))]
    <2>1. \A c \in Channels : OwnOf(c) \in Channels
      BY <1>1, ChannelsAre
    <2> QED
      BY <2>1 DEF Lay, OwnOf
  <1>3. t \in TransientOf(cfg)
    BY <1>1, TransientIs
  <1>4. GeneratorOK(cfg, gen[own])
    BY <1>1 DEF IInv, Generators
  <1>5. Made(cfg, gen[own], t, M(own))
    <2> HIDE DEF t
    <2> QED
      BY <1>1, <1>3, <1>4, GeneratorMakes DEF t
  <1>6. /\ gen'[own] = M(own).gen /\ grid'[ch] = M(own).grid
        /\ info'[ch] = ShortenBeforeNext(M(own).info, t)
    BY <1>1, <1>2
  <1>7. Laid(cfg, M(own).grid, M(own).info, Start(gen[own]), Start(M(own).gen))
    BY <1>5 DEF Made
  <1> HIDE DEF M, own, t
  <1>8. /\ Laid(cfg, grid'[ch], info'[ch], Start(gen[own]), Start(M(own).gen))
        /\ info'[ch].borders = M(own).info.borders
        /\ ~cfg.lowDelay => info'[ch] = M(own).info
    BY <1>1, <1>6, <1>7, Shortened
  <1>9. WITNESS M(own)
  <1> QED
    BY <1>5, <1>6, <1>8 DEF own, t

(* The transients of the frame are framed, and one behind its end is         *)
(* planned for.                                                             *)
LEMMA LayOnset ==
    ASSUME IInv, Lay, cfg.static = 0, cfg.stereo # "coupling",
           NEW ch \in Channels, NEW o \in onsets[ch]
    PROVE  /\ o \in Int
           /\ o >= cfg.slots => gen'[ch].old \in LateClasses
                                  /\ o - cfg.slots = gen'[ch].follow.bord[1]
           /\ \E k \in 1 .. Len(info'[ch].borders) :
                 Near(cfg, grid'[ch].class, o, info'[ch].borders[k], k)
  <1>1. phase = "grid" /\ Control /\ cfg \in ConfigType /\ cfg.slots \in Int /\ cfg.slots >= 15
    BY ChannelsAre DEF IInv, Control, Lay
  <1>2. OwnOf(ch) = ch /\ Transient(ch) = tran[ch]
    BY <1>1, TransientIs DEF OwnOf
  <1>3. PICK m : /\ Made(cfg, gen[ch], tran[ch], m)
                 /\ gen'[ch] = m.gen /\ grid'[ch] = m.grid
                 /\ info'[ch].borders = m.info.borders
    BY <1>2, LaidOf
  <1>4. /\ o \in Int
        /\ Planned(ch, o) \/ (tran[ch].flag /\ o = OnsetOf(cfg, tran[ch]))
    BY <1>1 DEF IInv, Onsets
  <1>5. CASE Planned(ch, o)
    <2>1. gen[ch].old \in LateClasses /\ o = gen[ch].follow.bord[1]
      BY <1>5 DEF Planned
    <2>2. GeneratorOK(cfg, gen[ch])
      BY <1>1 DEF IInv, Generators
    <2>3. o \in 0 .. 3
      BY <1>1, <2>1, <2>2, StartsInOverlap
    <2>4. Framed(cfg, m.grid, m.info, o)
      BY <1>3, <2>1 DEF Made
    <2> QED
      BY <1>1, <1>3, <1>4, <2>3, <2>4 DEF Framed
  <1>6. CASE tran[ch].flag /\ o = OnsetOf(cfg, tran[ch])
    <2>1. /\ Framed(cfg, m.grid, m.info, o)
          /\ o >= cfg.slots => m.gen.old \in LateClasses /\ o - cfg.slots = m.gen.follow.bord[1]
      BY <1>3, <1>6 DEF Made
    <2> QED
      BY <1>3, <1>4, <2>1 DEF Framed
  <1> QED
    BY <1>4, <1>5, <1>6

(* A pair that may still be coupled is alike. *)
LEMMA LayPair ==
    ASSUME IInv, Lay, mode' \in {"switch", "coupling"}
    PROVE  /\ Channels = {0, 1} /\ SameGrid(info'[0], info'[1])
           /\ cfg.slots = 15 /\ grid'[0].class \in VariableClasses =>
                 grid'[1].class \in VariableClasses
  <1>0. /\ Control /\ cfg \in Configurations
        /\ cfg.stereo \in {"mono", "left_right", "coupling", "switch"}
        /\ cfg.lowDelay \in BOOLEAN
    BY ChannelsAre DEF IInv, Control
  <1>1. /\ mode' = IF cfg.stereo \in {"left_right", "switch"} /\ ~SameGrid(info'[0], info'[1])
                   THEN "left_right" ELSE cfg.stereo
    BY DEF Lay
  <1>2. cfg.stereo \in {"coupling", "switch"} /\ Channels = {0, 1}
    BY <1>0, <1>1 DEF Channels
  <1>3. CASE cfg.stereo = "coupling"
    <2>1. OwnOf(0) = 0 /\ OwnOf(1) = 0
      BY <1>3 DEF OwnOf
    <2>2. /\ grid' = [c \in Channels |-> FrameInfoGenerator(cfg, gen[0], Transient(0), preTran[0]).grid]
          /\ info' = [c \in Channels |->
                ShortenBeforeNext(FrameInfoGenerator(cfg, gen[0], Transient(0), preTran[0]).info,
                                  Transient(0))]
      BY <1>2, <1>3 DEF Lay
    <2>3. grid'[0] = grid'[1] /\ info'[0] = info'[1]
      BY <1>2, <2>2
    <2> QED
      BY <1>2, <2>3 DEF SameGrid
  <1>4. CASE cfg.stereo = "switch"
    <2>1. SameGrid(info'[0], info'[1])
      BY <1>1, <1>4
    <2>2. info'[0].borders = info'[1].borders /\ info'[0].shortEnv = info'[1].shortEnv
      BY <2>1 DEF SameGrid
    <2>3. \A ch \in {0, 1} : /\ ~cfg.lowDelay => ToldApart(cfg, grid'[ch], info'[ch])
                             /\ cfg.lowDelay => grid'[ch].class \notin VariableClasses
      <3> TAKE ch \in {0, 1}
      <3>1. PICK m : /\ Made(cfg, gen[OwnOf(ch)], Transient(OwnOf(ch)), m)
                     /\ grid'[ch] = m.grid /\ (~cfg.lowDelay => info'[ch] = m.info)
        BY <1>2, LaidOf
      <3>2. ToldApart(cfg, m.grid, m.info)
        BY <3>1 DEF Made
      <3>3. cfg.lowDelay => m.grid.class \notin VariableClasses
        BY <3>2 DEF ToldApart
      <3> QED
        BY <3>1, <3>2, <3>3
    <2>4. ASSUME cfg.slots = 15, grid'[0].class \in VariableClasses
          PROVE  grid'[1].class \in VariableClasses
      <3>1. ~cfg.lowDelay
        BY <2>3, <2>4
      <3>2. ToldApart(cfg, grid'[0], info'[0]) /\ ToldApart(cfg, grid'[1], info'[1])
        BY <2>3, <3>1
      <3>3. CASE cfg.static = 0
        <4>1. info'[0].shortEnv # 0 \/ info'[0].borders \notin Halves(15)
          BY <2>4, <3>1, <3>2, <3>3 DEF ToldApart
        <4>2. info'[1].shortEnv # 0 \/ info'[1].borders \notin Halves(15)
          BY <2>2, <4>1
        <4> QED
          BY <2>4, <3>1, <3>2, <3>3, <4>2 DEF ToldApart
      <3>4. CASE cfg.static # 0
        BY <2>4, <3>2, <3>4 DEF ToldApart
      <3> QED
        BY <3>3, <3>4
    <2> QED
      BY <1>2, <2>1, <2>4
  <1> QED
    BY <1>2, <1>3, <1>4

(* The grids of a frame are laid. *)
LEMMA LayInv ==
    ASSUME IInv, Lay
    PROVE  IInv'
  <1>1. /\ phase = "grid" /\ phase' = "write" /\ cfg' = cfg /\ tran' = tran
        /\ decoded' = decoded /\ stop' = stop /\ onsets' = onsets
        /\ DOMAIN grid' = Channels /\ DOMAIN info' = Channels
    BY DEF Lay
  <1>2. Channels' = Channels /\ TransientInfo' = TransientInfo
    BY <1>1 DEF Channels, TransientInfo, Positions
  <1>3. Control'
    BY <1>1, <1>2 DEF IInv, Control
  <1>4. /\ cfg \in Configurations /\ cfg \in ConfigType
        /\ \A ch \in Channels : OwnOf(ch) \in Channels /\ OwnOf(OwnOf(ch)) = OwnOf(ch)
    BY ChannelsAre DEF IInv, Control
  <1>5. Generators'
    <2>1. SUFFICES ASSUME NEW ch \in Channels
                   PROVE  GeneratorOK(cfg, gen'[ch])
      BY <1>1, <1>2 DEF Generators
    <2>2. CASE OwnOf(ch) = ch
      <3>1. PICK m : Made(cfg, gen[ch], Transient(ch), m) /\ gen'[ch] = m.gen
        BY <2>2, LaidOf
      <3> QED
        BY <3>1 DEF Made
    <2>3. CASE OwnOf(ch) # ch
      <3>1. gen'[ch] = gen[ch]
        BY <2>3 DEF Lay, OwnOf
      <3> QED
        BY <3>1 DEF IInv, Generators
    <2> QED
      BY <2>2, <2>3
  <1>6. \A ch \in Channels : Laid(cfg, grid'[ch], info'[ch], Start(gen[OwnOf(ch)]),
                                  Start(gen'[OwnOf(ch)]))
    <2> TAKE ch \in Channels
    <2>1. PICK m : /\ gen'[OwnOf(ch)] = m.gen
                   /\ Laid(cfg, grid'[ch], info'[ch], Start(gen[OwnOf(ch)]), Start(m.gen))
      BY LaidOf
    <2> QED
      BY <2>1
  <1>7. \A ch \in Channels : info'[ch].borders[1] = Start(gen[OwnOf(ch)])
    BY <1>6 DEF Laid
  <1>8. Stops'
    BY <1>1, <1>2, <1>7 DEF IInv, Stops, OwnOf
  <1>9. FrameOK'
    <2>1. Grids'
      BY <1>1, <1>2, <1>6, <1>7 DEF Grids, OwnOf
    <2> QED
      BY <1>1, <2>1 DEF FrameOK
  <1>10. Pairing'
    <2>1. SUFFICES ASSUME mode' \in {"switch", "coupling"}
                   PROVE  Alike'
      BY DEF Pairing
    <2>2. /\ Channels = {0, 1} /\ SameGrid(info'[0], info'[1])
          /\ cfg.slots = 15 /\ grid'[0].class \in VariableClasses =>
                grid'[1].class \in VariableClasses
      BY <2>1, LayPair
    <2>3. (OddSegments(0) => OddSegments(1))'
      BY <1>1, <2>2 DEF OddSegments, VariableClasses
    <2> QED
      BY <1>2, <2>2, <2>3 DEF Alike, SameGrid
  <1>11. Sent'
    BY <1>1 DEF Sent
  <1>12. Decoding'
    <2>1. decoded' = <<>>
      BY <1>1 DEF IInv, Decoding
    <2> QED
      BY <2>1 DEF Decoding, NothingConcealed, DecoderReadsGrid
  <1>13. Onsets'
    BY <1>1, <1>2, LayOnset DEF Onsets, Planned
  <1>14. OnsetIsBorder'
    <2>1. SUFFICES ASSUME cfg.static = 0, cfg.stereo # "coupling",
                          NEW ch \in Channels, NEW o \in onsets[ch]
                   PROVE  \E k \in 1 .. Len(info'[ch].borders) :
                             LET moved == info'[ch].borders[k] - o
                             IN  CASE grid'[ch].class = "VARVAR" -> moved \in -(DMin - 1) .. DMin - 1
                                   [] cfg.lowDelay /\ o < 2    -> k = 1
                                   [] OTHER                    -> moved = 0
      BY <1>1, <1>2 DEF OnsetIsBorder
    <2>2. \E k \in 1 .. Len(info'[ch].borders) :
             Near(cfg, grid'[ch].class, o, info'[ch].borders[k], k)
      BY <2>1, LayOnset
    <2> QED
      BY <2>2 DEF Near
  <1> QED
    BY <1>3, <1>5, <1>8, <1>9, <1>10, <1>11, <1>12, <1>13, <1>14 DEF IInv

(* Every step preserves the invariant. *)
LEMMA NextInv == IInv /\ [Next]_vars => IInv'
  <1> SUFFICES ASSUME IInv, [Next]_vars
               PROVE  IInv'
    OBVIOUS
  <1>1. CASE Next
    BY <1>1, AnalyseInv, LayInv, WriteInv, ReadInv DEF Next
  <1>2. CASE UNCHANGED vars
    <2>1. /\ cfg' = cfg /\ phase' = phase /\ gen' = gen /\ tran' = tran /\ grid' = grid
          /\ info' = info /\ mode' = mode /\ bits' = bits /\ decoded' = decoded
          /\ stop' = stop /\ onsets' = onsets
      BY <1>2 DEF vars
    <2>2. Channels' = Channels /\ TransientInfo' = TransientInfo
      BY <2>1 DEF Channels, TransientInfo, Positions
    <2>3. Control' /\ Generators'
      BY <2>1, <2>2 DEF IInv, Control, Generators
    <2>4. Stops' /\ FrameOK'
      BY <2>1, <2>2 DEF IInv, Stops, FrameOK, Grids, NoGrids, OwnOf
    <2>5. Pairing' /\ Sent'
      BY <2>1, <2>2 DEF IInv, Pairing, Sent, Alike, SameGrid, OddSegments
    <2>6. Decoding'
      BY <2>1 DEF IInv, Decoding, NothingConcealed, DecoderReadsGrid, ReadRight, OddSegments
    <2>7. Onsets'
      BY <2>1, <2>2 DEF IInv, Onsets, Planned
    <2>8. OnsetIsBorder'
      BY <2>1 DEF IInv, OnsetIsBorder
    <2> QED
      BY <2>3, <2>4, <2>5, <2>6, <2>7, <2>8 DEF IInv
  <1> QED
    BY <1>1, <1>2

(* The invariant holds in every state. *)
THEOREM IInvHolds == Spec => []IInv
  <1>1. Init => IInv
    BY InitInv
  <1> QED
    BY <1>1, NextInv, PTL DEF Spec

(* Every grid and follow-up fits the arrays of the code, for any sequence   *)
(* of transients, and a follow-up starts within the overlap.                *)
THEOREM TypeCorrect == Spec => []TypeOK
  <1>1. IInv => TypeOK
    BY InvType
  <1> QED
    BY <1>1, IInvHolds, PTL

(* The decoder accepts every grid the encoder writes, and each starts where *)
(* it had stopped (extractFrameInfo(), checkFrameInfo(), decodeEnvelope()). *)
THEOREM NothingConcealedHolds == Spec => []NothingConcealed
  <1>1. IInv => NothingConcealed
    BY DEF IInv, Decoding
  <1> QED
    BY <1>1, IInvHolds, PTL

(* The borders, resolutions and noise floors that the decoder reads for a   *)
(* channel are those its energies were measured with, also when a pair is   *)
(* coupled; variable grids of frames of 1920 samples are excepted, as in    *)
(* the property (encodeSbrGrid(), extractFrameInfo()).                      *)
THEOREM DecoderReadsGridHolds == Spec => []DecoderReadsGrid
  <1>1. IInv => DecoderReadsGrid
    BY DEF IInv, Decoding
  <1> QED
    BY <1>1, IInvHolds, PTL

(* Every transient is a border of the frame that spans it, also one found   *)
(* in the frame before (FDKsbrEnc_frameInfoGenerator()).                    *)
THEOREM OnsetIsBorderHolds == Spec => []OnsetIsBorder
  <1>1. IInv => OnsetIsBorder
    BY DEF IInv
  <1> QED
    BY <1>1, IInvHolds, PTL

=============================================================================
