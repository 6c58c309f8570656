-------------------------- MODULE M4afStoreProofs ---------------------------
(***************************************************************************)
(* The file the M4A writer leaves is a sequence of boxes, a player finds   *)
(* every sample through the tables of moov, and so the writer implements   *)
(* the append-only store of SampleStore.                                   *)
(***************************************************************************)
EXTENDS M4afMediaProofs

-----------------------------------------------------------------------------
(* The walk over the boxes of a file *)

(* BoxesFrom[p], from the walk f further on. *)
BoxesStep(f, p) ==
    IF IsBox(p) /\ BoxAt(p).end > p THEN <<BoxAt(p)>> \o f[BoxAt(p).end] ELSE << >>

(* Where there is a box, it begins in the file, and ends at a number. *)
LEMMA BoxEnds ==
    ASSUME IsWords(file), NEW p \in Nat, IsBox(p)
    PROVE  p < Len(file) /\ BoxAt(p).end \in Nat
  <1>1. /\ WordAt(p) = At(file, p) /\ WordAt(p + 2) = At(file, p + 2)
        /\ p + 2 \in Nat /\ Len(file) \in Nat
    BY WordAtIsAt DEF IsWords, IsSeq
  <1>2. ASSUME NEW q \in Nat, At(file, q)[1] = "size"
        PROVE  q < Len(file) /\ At(file, q)[2] \in Nat
    <2>1. q < Len(file)
      <3>1. <<"none", 0>>[1] # "size"
        OBVIOUS
      <3> QED
        BY <1>1, <1>2, <3>1 DEF At
    <2>2. At(file, q) = file[q + 1] /\ q + 1 \in 1 .. Len(file)
      BY <1>1, <2>1 DEF At
    <2> QED
      BY <1>2, <2>1, <2>2 DEF IsWords, SizeOK
  <1>3. At(file, p)[1] = "size"
    BY <1>1 DEF IsBox
  <1>4. p < Len(file) /\ WordAt(p)[2] \in Nat
    BY <1>1, <1>2, <1>3
  <1>5. WordAt(p + 2)[1] = "size" => WordAt(p + 2)[2] \in Nat
    BY <1>1, <1>2
  <1> DEFINE wide == WordAt(p) = <<"size", 1>> /\ WordAt(p + 2)[1] = "size"
  <1>6. BoxAt(p).end = p + (IF wide THEN WordAt(p + 2)[2] ELSE WordAt(p)[2])
    BY DEF BoxAt
  <1> QED
    BY <1>4, <1>5, <1>6

(* A box ends behind its beginning and begins in the file, so the walk *)
(* ends.                                                               *)
LEMMA WalkExists ==
    ASSUME IsWords(file)
    PROVE  \E f : f = [p \in Nat |-> BoxesStep(f, p)]
  <1> DEFINE Walks(f, n) == /\ f = [p \in Nat |-> f[p]]
                            /\ \A p \in Nat : p + n >= Len(file) => f[p] = BoxesStep(f, p)
             T == {n \in Nat : \E f : Walks(f, n)}
  <1>0. Len(file) \in Nat
    BY DEF IsWords, IsSeq
  <1>1. 0 \in T
    <2> DEFINE f == [p \in Nat |-> << >>]
    <2>1. ASSUME NEW p \in Nat, p + 0 >= Len(file)
          PROVE  f[p] = BoxesStep(f, p)
      BY <1>0, <2>1, BoxEnds DEF BoxesStep
    <2> QED
      BY <2>1
  <1>2. ASSUME NEW n \in T
        PROVE  n + 1 \in T
    <2>1. PICK f : Walks(f, n)
      BY <1>2
    <2> DEFINE g == [p \in Nat |-> IF p + n >= Len(file) THEN f[p] ELSE BoxesStep(f, p)]
    <2>2. ASSUME NEW p \in Nat, p + (n + 1) >= Len(file)
          PROVE  g[p] = BoxesStep(g, p)
      <3>1. g[p] = BoxesStep(f, p)
        BY <2>1
      <3>2. CASE IsBox(p) /\ BoxAt(p).end > p
        <4>1. PICK e \in Nat : e = BoxAt(p).end
          BY <3>2, BoxEnds
        <4>2. e + n >= Len(file)
          BY <1>0, <2>2, <3>2, <4>1
        <4>3. g[e] = f[e]
          BY <4>2
        <4> HIDE DEF g
        <4> QED
          BY <3>1, <4>1, <4>3 DEF BoxesStep
      <3>3. CASE ~(IsBox(p) /\ BoxAt(p).end > p)
        BY <3>1, <3>3 DEF BoxesStep
      <3> QED
        BY <3>2, <3>3
    <2>3. g = [p \in Nat |-> g[p]]
      OBVIOUS
    <2> HIDE DEF g
    <2> QED
      BY <1>2, <2>2, <2>3
  <1>3. Nat \subseteq T
    <2>1. T \subseteq Nat
      OBVIOUS
    <2> HIDE DEF T
    <2> QED
      BY <1>1, <1>2, <2>1, NatUpTo
  <1>4. PICK f : Walks(f, Len(file))
    BY <1>0, <1>3
  <1>5. \A p \in Nat : f[p] = BoxesStep(f, p)
    BY <1>0, <1>4
  <1> QED
    BY <1>4, <1>5

(* One step of the walk. *)
LEMMA WalkDefined ==
    ASSUME IsWords(file), NEW p \in Nat
    PROVE  BoxesFrom[p] = BoxesStep(BoxesFrom, p)
  <1>1. BoxesFrom = CHOOSE f : f = [q \in Nat |-> BoxesStep(f, q)]
    BY DEF BoxesFrom, BoxesStep
  <1>2. BoxesFrom = [q \in Nat |-> BoxesStep(BoxesFrom, q)]
    BY <1>1, WalkExists
  <1> QED
    BY <1>2

(* A box of 32-bit size. *)
BoxOf(type, p, size) == [type |-> type, body |-> p + 2, end |-> p + size]

(* A box with a 32-bit size, *)
LEMMA PlainBox ==
    ASSUME IsWords(file), NEW p \in Nat, NEW size \in Nat, size > 1, NEW type,
           At(file, p) = <<"size", size>>, At(file, p + 1) = <<"type", type>>
    PROVE  BoxesFrom[p] = <<BoxOf(type, p, size)>> \o BoxesFrom[p + size]
  <1>1. WordAt(p) = <<"size", size>> /\ WordAt(p + 1) = <<"type", type>>
    BY WordAtIsAt
  <1>2. /\ WordAt(p)[1] = "size" /\ WordAt(p)[2] = size
        /\ WordAt(p + 1)[1] = "type" /\ WordAt(p + 1)[2] = type
        /\ WordAt(p) # <<"size", 1>>
    BY <1>1
  <1>3. IsBox(p) /\ BoxAt(p) = BoxOf(type, p, size)
    BY <1>2 DEF IsBox, BoxAt, BoxOf
  <1>4. BoxAt(p).end = p + size /\ p + size > p
    BY <1>3 DEF BoxOf
  <1>5. BoxesFrom[p] = BoxesStep(BoxesFrom, p)
    BY WalkDefined
  <1> QED
    BY <1>3, <1>4, <1>5 DEF BoxesStep

(* a box with a 64-bit size, *)
LEMMA WideBox ==
    ASSUME IsWords(file), NEW p \in Nat, NEW size \in Nat, size > 0, NEW type,
           At(file, p) = <<"size", 1>>, At(file, p + 1) = <<"type", type>>,
           At(file, p + 2) = <<"size", size>>
    PROVE  BoxesFrom[p] = <<[type |-> type, body |-> p + 4, end |-> p + size]>>
                             \o BoxesFrom[p + size]
  <1>1. /\ WordAt(p) = <<"size", 1>> /\ WordAt(p + 1) = <<"type", type>>
        /\ WordAt(p + 2) = <<"size", size>>
    BY WordAtIsAt
  <1>2. /\ WordAt(p)[1] = "size" /\ WordAt(p + 1)[1] = "type" /\ WordAt(p + 1)[2] = type
        /\ WordAt(p + 2)[1] = "size" /\ WordAt(p + 2)[2] = size
    BY <1>1
  <1>3. IsBox(p) /\ BoxAt(p) = [type |-> type, body |-> p + 4, end |-> p + size]
    BY <1>1, <1>2 DEF IsBox, BoxAt
  <1>4. BoxAt(p).end = p + size /\ p + size > p
    BY <1>3
  <1>5. BoxesFrom[p] = BoxesStep(BoxesFrom, p)
    BY WalkDefined
  <1> QED
    BY <1>3, <1>4, <1>5 DEF BoxesStep

(* and the end of the file. *)
LEMMA WalkEnds ==
    ASSUME IsWords(file)
    PROVE  BoxesFrom[Len(file)] = << >>
  <1>1. Len(file) \in Nat
    BY DEF IsWords, IsSeq
  <1>2. ~IsBox(Len(file))
    BY <1>1, BoxEnds
  <1>3. BoxesFrom[Len(file)] = BoxesStep(BoxesFrom, Len(file))
    BY <1>1, WalkDefined
  <1> QED
    BY <1>2, <1>3 DEF BoxesStep

(* The size of mdat takes 64 bits. *)
Wide == mdatSize + 2 > MaxUint32

(* The mdat box, as the walk sees it with either header. *)
WideMdat == [type |-> "mdat", body |-> mdatPos, end |-> mdatPos + mdatSize]

(* The header before the media data is a box of 64-bit size, or an empty *)
(* free box and a box of 32-bit size.                                    *)
LEMMA MdatWalk ==
    ASSUME IsWords(file), mdatPos \in Nat, mdatPos >= 4, mdatSize \in Nat,
           HeaderDone(file, mdatPos, mdatSize)
    PROVE  LET rest == BoxesFrom[mdatPos + mdatSize]
           IN  BoxesFrom[mdatPos - 4] =
                  IF Wide THEN <<WideMdat>> \o rest
                  ELSE <<BoxOf("free", mdatPos - 4, 2)>> \o (<<WideMdat>> \o rest)
  <1>1. PICK p \in Nat : p = mdatPos - 4
    OBVIOUS
  <1>2. /\ mdatPos = p + 4 /\ mdatPos - 3 = p + 1 /\ mdatPos - 2 = p + 2 /\ mdatPos - 1 = p + 2 + 1
    BY <1>1
  <1>3. CASE Wide
    <2>1. PICK size \in Nat : size = mdatSize + 4
      OBVIOUS
    <2>2. /\ At(file, p) = <<"size", 1>> /\ At(file, p + 1) = <<"type", "mdat">>
          /\ At(file, p + 2) = <<"size", size>> /\ size > 0
      BY <1>1, <1>2, <1>3, <2>1 DEF HeaderDone, Wide
    <2>3. BoxesFrom[p] = <<[type |-> "mdat", body |-> p + 4, end |-> p + size]>>
                            \o BoxesFrom[p + size]
      BY <2>2, WideBox
    <2>4. p + size = mdatPos + mdatSize
      BY <1>1, <2>1
    <2> QED
      BY <1>1, <1>2, <1>3, <2>3, <2>4 DEF WideMdat
  <1>4. CASE ~Wide
    <2>1. PICK size \in Nat : size = mdatSize + 2
      OBVIOUS
    <2>2. PICK q \in Nat : q = p + 2
      OBVIOUS
    <2>3. /\ At(file, p) = <<"size", 2>> /\ At(file, p + 1) = <<"type", "free">>
          /\ At(file, q) = <<"size", size>> /\ At(file, q + 1) = <<"type", "mdat">> /\ size > 1
      BY <1>1, <1>2, <1>4, <2>1, <2>2 DEF HeaderDone, Wide
    <2>4. BoxesFrom[p] = <<BoxOf("free", p, 2)>> \o BoxesFrom[p + 2]
      BY <2>3, PlainBox
    <2>5. BoxesFrom[q] = <<BoxOf("mdat", q, size)>> \o BoxesFrom[q + size]
      BY <2>3, PlainBox
    <2>6. q + size = mdatPos + mdatSize /\ q + 2 = mdatPos
      BY <1>1, <2>1, <2>2
    <2>7. BoxOf("mdat", q, size) = WideMdat
      BY <2>6 DEF BoxOf, WideMdat
    <2> QED
      BY <1>1, <1>4, <2>2, <2>4, <2>5, <2>6, <2>7
  <1> QED
    BY <1>3, <1>4

(* t is g behind f, element by element. *)
Joins(f, g, t) ==
    /\ IsSeq(f) /\ IsSeq(g) /\ IsSeq(t) /\ Len(t) = Len(f) + Len(g)
    /\ \A i \in 1 .. Len(f) + Len(g) : t[i] = IF i <= Len(f) THEN f[i] ELSE g[i - Len(f)]

(* A sequence is known by its elements. *)
LEMMA JoinsIs ==
    ASSUME NEW f, NEW g, NEW t, Joins(f, g, t)
    PROVE  f \o g = t
  <1> DEFINE h == f \o g
  <1>1. IsSeq(f) /\ IsSeq(g) /\ IsSeq(t) /\ Len(t) = Len(f) + Len(g)
    BY DEF Joins
  <1>2. PICK n : n = Len(f) + Len(g)
    OBVIOUS
  <1>3. /\ IsSeq(h) /\ Len(h) = n
        /\ \A i \in 1 .. n : h[i] = IF i <= Len(f) THEN f[i] ELSE g[i - Len(f)]
    BY <1>1, <1>2, ConcatIsSeq
  <1> HIDE DEF h
  <1>4. \A i \in 1 .. n : h[i] = t[i]
    BY <1>2, <1>3 DEF Joins
  <1>5. h = [i \in 1 .. n |-> h[i]] /\ t = [i \in 1 .. n |-> t[i]]
    BY <1>1, <1>2, <1>3 DEF IsSeq
  <1>6. h = t
    BY <1>4, <1>5
  <1> QED
    BY <1>6 DEF h

(* Short tuples, as the concatenations the walk and BoxesTile build them *)
(* from.                                                                 *)
LEMMA TupleOfOne ==
    ASSUME NEW a
    PROVE  <<a>> \o << >> = <<a>>
  <1> DEFINE S == {a}
             f == <<a>>
             g == << >>
             t == <<a>>
  <1>1. /\ f \in Seq(S) /\ g \in Seq(S) /\ t \in Seq(S)
        /\ Len(f) = 1 /\ Len(g) = 0 /\ Len(t) = 1
        /\ \A i \in 1 .. 1 : t[i] = IF i <= 1 THEN f[i] ELSE g[i - 1]
    OBVIOUS
  <1> HIDE DEF S, f, g, t
  <1>2. Joins(f, g, t)
    <2>1. IsSeq(f) /\ IsSeq(g) /\ IsSeq(t)
      BY <1>1, IsSeqOfSeq
    <2>2. Len(t) = Len(f) + Len(g) /\ Len(f) + Len(g) = 1
      BY <1>1
    <2> QED
      BY <1>1, <2>1, <2>2 DEF Joins
  <1>3. f \o g = t
    BY <1>2, JoinsIs
  <1> QED
    BY <1>3 DEF f, g, t

LEMMA TupleOfTwo ==
    ASSUME NEW a, NEW b
    PROVE  <<a>> \o <<b>> = <<a, b>>
  <1> DEFINE S == {a, b}
             f == <<a>>
             g == <<b>>
             t == <<a, b>>
  <1>1. /\ f \in Seq(S) /\ g \in Seq(S) /\ t \in Seq(S)
        /\ Len(f) = 1 /\ Len(g) = 1 /\ Len(t) = 2
        /\ \A i \in 1 .. 2 : t[i] = IF i <= 1 THEN f[i] ELSE g[i - 1]
    OBVIOUS
  <1> HIDE DEF S, f, g, t
  <1>2. Joins(f, g, t)
    BY <1>1, IsSeqOfSeq DEF Joins
  <1>3. f \o g = t
    BY <1>2, JoinsIs
  <1> QED
    BY <1>3 DEF f, g, t

LEMMA TupleOfThree ==
    ASSUME NEW a, NEW b, NEW c
    PROVE  <<a>> \o <<b, c>> = <<a, b, c>>
  <1> DEFINE S == {a, b, c}
             f == <<a>>
             g == <<b, c>>
             t == <<a, b, c>>
  <1>1. /\ f \in Seq(S) /\ g \in Seq(S) /\ t \in Seq(S)
        /\ Len(f) = 1 /\ Len(g) = 2 /\ Len(t) = 3
        /\ \A i \in 1 .. 3 : t[i] = IF i <= 1 THEN f[i] ELSE g[i - 1]
    OBVIOUS
  <1> HIDE DEF S, f, g, t
  <1>2. Joins(f, g, t)
    BY <1>1, IsSeqOfSeq DEF Joins
  <1>3. f \o g = t
    BY <1>2, JoinsIs
  <1> QED
    BY <1>3 DEF f, g, t

LEMMA TupleOfFour ==
    ASSUME NEW a, NEW b, NEW c, NEW d
    PROVE  <<a>> \o <<b, c, d>> = <<a, b, c, d>>
  <1> DEFINE S == {a, b, c, d}
             f == <<a>>
             g == <<b, c, d>>
             t == <<a, b, c, d>>
  <1>1. /\ f \in Seq(S) /\ g \in Seq(S) /\ t \in Seq(S)
        /\ Len(f) = 1 /\ Len(g) = 3 /\ Len(t) = 4
        /\ \A i \in 1 .. 4 : t[i] = IF i <= 1 THEN f[i] ELSE g[i - 1]
    OBVIOUS
  <1> HIDE DEF S, f, g, t
  <1>2. Joins(f, g, t)
    BY <1>1, IsSeqOfSeq DEF Joins
  <1>3. f \o g = t
    BY <1>2, JoinsIs
  <1> QED
    BY <1>3 DEF f, g, t

LEMMA TupleOfFive ==
    ASSUME NEW a, NEW b, NEW c, NEW d, NEW e
    PROVE  <<a>> \o <<b, c, d, e>> = <<a, b, c, d, e>>
  <1> DEFINE S == {a, b, c, d, e}
             f == <<a>>
             g == <<b, c, d, e>>
             t == <<a, b, c, d, e>>
  <1>1. /\ f \in Seq(S) /\ g \in Seq(S) /\ t \in Seq(S)
        /\ Len(f) = 1 /\ Len(g) = 4 /\ Len(t) = 5
        /\ \A i \in 1 .. 5 : t[i] = IF i <= 1 THEN f[i] ELSE g[i - 1]
    OBVIOUS
  <1> HIDE DEF S, f, g, t
  <1>2. Joins(f, g, t)
    BY <1>1, IsSeqOfSeq DEF Joins
  <1>3. f \o g = t
    BY <1>2, JoinsIs
  <1> QED
    BY <1>3 DEF f, g, t

LEMMA MovedWideTypes ==
    <<"ftyp", "moov", "free">> \o <<"mdat">> = <<"ftyp", "moov", "free", "mdat">>
  <1> DEFINE S == {"ftyp", "moov", "free", "mdat"}
             f == <<"ftyp", "moov", "free">>
             g == <<"mdat">>
             t == <<"ftyp", "moov", "free", "mdat">>
  <1>1. /\ f \in Seq(S) /\ g \in Seq(S) /\ t \in Seq(S)
        /\ Len(f) = 3 /\ Len(g) = 1 /\ Len(t) = 4
        /\ \A i \in 1 .. 4 : t[i] = IF i <= 3 THEN f[i] ELSE g[i - 3]
    OBVIOUS
  <1> HIDE DEF S, f, g, t
  <1>2. Joins(f, g, t)
    BY <1>1, IsSeqOfSeq DEF Joins
  <1>3. f \o g = t
    BY <1>2, JoinsIs
  <1> QED
    BY <1>3 DEF f, g, t

LEMMA MovedNarrowTypes ==
    <<"ftyp", "moov", "free">> \o <<"free", "mdat">> = <<"ftyp", "moov", "free", "free", "mdat">>
  <1> DEFINE S == {"ftyp", "moov", "free", "mdat"}
             f == <<"ftyp", "moov", "free">>
             g == <<"free", "mdat">>
             t == <<"ftyp", "moov", "free", "free", "mdat">>
  <1>1. /\ f \in Seq(S) /\ g \in Seq(S) /\ t \in Seq(S)
        /\ Len(f) = 3 /\ Len(g) = 2 /\ Len(t) = 5
        /\ \A i \in 1 .. 5 : t[i] = IF i <= 3 THEN f[i] ELSE g[i - 3]
    OBVIOUS
  <1> HIDE DEF S, f, g, t
  <1>2. Joins(f, g, t)
    BY <1>1, IsSeqOfSeq DEF Joins
  <1>3. f \o g = t
    BY <1>2, JoinsIs
  <1> QED
    BY <1>3 DEF f, g, t

LEMMA WideTypes ==
    <<"ftyp", "mdat">> \o <<"moov">> = <<"ftyp", "mdat", "moov">>
  <1> DEFINE S == {"ftyp", "mdat", "moov"}
             f == <<"ftyp", "mdat">>
             g == <<"moov">>
             t == <<"ftyp", "mdat", "moov">>
  <1>1. /\ f \in Seq(S) /\ g \in Seq(S) /\ t \in Seq(S)
        /\ Len(f) = 2 /\ Len(g) = 1 /\ Len(t) = 3
        /\ \A i \in 1 .. 3 : t[i] = IF i <= 2 THEN f[i] ELSE g[i - 2]
    OBVIOUS
  <1> HIDE DEF S, f, g, t
  <1>2. Joins(f, g, t)
    BY <1>1, IsSeqOfSeq DEF Joins
  <1>3. f \o g = t
    BY <1>2, JoinsIs
  <1> QED
    BY <1>3 DEF f, g, t

LEMMA NarrowTypes ==
    <<"ftyp", "free", "mdat">> \o <<"moov">> = <<"ftyp", "free", "mdat", "moov">>
  <1> DEFINE S == {"ftyp", "free", "mdat", "moov"}
             f == <<"ftyp", "free", "mdat">>
             g == <<"moov">>
             t == <<"ftyp", "free", "mdat", "moov">>
  <1>1. /\ f \in Seq(S) /\ g \in Seq(S) /\ t \in Seq(S)
        /\ Len(f) = 3 /\ Len(g) = 1 /\ Len(t) = 4
        /\ \A i \in 1 .. 4 : t[i] = IF i <= 3 THEN f[i] ELSE g[i - 3]
    OBVIOUS
  <1> HIDE DEF S, f, g, t
  <1>2. Joins(f, g, t)
    BY <1>1, IsSeqOfSeq DEF Joins
  <1>3. f \o g = t
    BY <1>2, JoinsIs
  <1> QED
    BY <1>3 DEF f, g, t

LEMMA ThreeBoxes ==
    ASSUME NEW a, NEW b, NEW c
    PROVE  <<a>> \o (<<b>> \o (<<c>> \o << >>)) = <<a, b, c>>
  <1>1. <<c>> \o << >> = <<c>>
    BY TupleOfOne
  <1>2. <<b>> \o <<c>> = <<b, c>>
    BY TupleOfTwo
  <1>3. <<a>> \o <<b, c>> = <<a, b, c>>
    BY TupleOfThree
  <1> QED
    BY <1>1, <1>2, <1>3, Zenon

LEMMA FourBoxes ==
    ASSUME NEW a, NEW b, NEW c, NEW d
    PROVE  <<a>> \o (<<b>> \o (<<c>> \o (<<d>> \o << >>))) = <<a, b, c, d>>
  <1>1. <<b>> \o (<<c>> \o (<<d>> \o << >>)) = <<b, c, d>>
    BY ThreeBoxes
  <1>2. <<a>> \o <<b, c, d>> = <<a, b, c, d>>
    BY TupleOfFour
  <1> QED
    BY <1>1, <1>2, Zenon

LEMMA FiveBoxes ==
    ASSUME NEW a, NEW b, NEW c, NEW d, NEW e
    PROVE  <<a>> \o (<<b>> \o (<<c>> \o (<<d>> \o (<<e>> \o << >>)))) = <<a, b, c, d, e>>
  <1>1. <<b>> \o (<<c>> \o (<<d>> \o (<<e>> \o << >>))) = <<b, c, d, e>>
    BY FourBoxes
  <1>2. <<a>> \o <<b, c, d, e>> = <<a, b, c, d, e>>
    BY TupleOfFive
  <1> QED
    BY <1>1, <1>2, Zenon

(* The boxes of a file that is done. *)
LEMMA BoxesDone ==
    ASSUME TypeInv, LayoutInv, pc = "done"
    PROVE  LET n == MoovLen(chunks)
               ftyp == BoxOf("ftyp", 0, 8)
               free == BoxOf("free", mdatPos - 4, 2)
           IN  /\ shiftBy = 0 =>
                    /\ MoovIn(file, mdatPos + mdatSize)
                    /\ mdatPos + mdatSize + n = Len(file)
                    /\ Boxes = LET moov == BoxOf("moov", mdatPos + mdatSize, n)
                               IN  IF Wide THEN <<ftyp, WideMdat, moov>>
                                           ELSE <<ftyp, free, WideMdat, moov>>
               /\ shiftBy # 0 =>
                    /\ MoovIn(file, 8)
                    /\ mdatPos + mdatSize = Len(file)
                    /\ Boxes = LET moov == BoxOf("moov", 8, n)
                                   gap == BoxOf("free", 8 + n, Slack)
                               IN  IF Wide THEN <<ftyp, moov, gap, WideMdat>>
                                           ELSE <<ftyp, moov, gap, free, WideMdat>>
  <1> DEFINE ftyp == BoxOf("ftyp", 0, 8)
             free == BoxOf("free", mdatPos - 4, 2)
             n == MoovLen(chunks)
             rest == BoxesFrom[mdatPos + mdatSize]
  <1>1. /\ IsWords(file) /\ mdatPos \in Nat /\ mdatSize \in Nat /\ shiftBy \in Nat
        /\ Len(chunks) \in Nat
        /\ \/ mdatPos = 12 /\ shiftBy = 0
           \/ mdatPos = 12 + shiftBy /\ shiftBy = n + Slack
    <2>1. /\ IsWords(file)
          /\ \/ mdatPos = 12 /\ shiftBy = 0
             \/ mdatPos = 12 + shiftBy /\ shiftBy = n + Slack
      BY DEF TypeInv, Places
    <2>2. TypeOK
      BY DEF TypeInv
    <2> QED
      BY <2>1, <2>2, TypeFacts
  <1>2. Slack \in Nat /\ Slack >= 2 /\ n \in Nat /\ n >= 3
    BY <1>1, MoovFacts, M4afAssumption
  <1>3. mdatPos >= 4 /\ HeaderDone(file, mdatPos, mdatSize)
        /\ At(file, 0) = <<"size", 8>> /\ At(file, 0 + 1) = <<"type", "ftyp">>
    BY <1>1 DEF LayoutInv
  <1>4. BoxesFrom[mdatPos - 4] =
           IF Wide THEN <<WideMdat>> \o rest ELSE <<free>> \o (<<WideMdat>> \o rest)
    BY <1>1, <1>3, MdatWalk
  <1>5. Boxes = <<ftyp>> \o BoxesFrom[8]
    <2>1. BoxesFrom[0] = <<ftyp>> \o BoxesFrom[0 + 8]
      <3> HIDE DEF ftyp
      <3> QED
        BY <1>1, <1>3, PlainBox DEF ftyp
    <2> QED
      BY <2>1 DEF Boxes
  <1> HIDE DEF ftyp, free, n, rest
  <1>6. CASE shiftBy = 0
    <2>1. mdatPos = 12 /\ mdatPos - 4 = 8
      BY <1>1, <1>2, <1>6
    <2>2. PICK p \in Nat : p = mdatPos + mdatSize
      BY <1>1
    <2>3. MoovIn(file, p) /\ Len(file) = p + n
      BY <1>1, <1>6, <2>1, <2>2 DEF LayoutInv, n
    <2>4. BoxesFrom[p] = <<BoxOf("moov", p, n)>> \o BoxesFrom[p + n]
      <3>1. At(file, p) = <<"size", n>> /\ At(file, p + 1) = <<"type", "moov">>
        BY <2>3 DEF MoovIn, n
      <3> QED
        BY <1>1, <1>2, <3>1, PlainBox
    <2>5. rest = <<BoxOf("moov", p, n)>> \o << >>
      BY <1>1, <2>2, <2>3, <2>4, WalkEnds DEF rest
    <2>6. Boxes = <<ftyp>> \o (IF Wide THEN <<WideMdat>> \o rest
                                       ELSE <<free>> \o (<<WideMdat>> \o rest))
      BY <1>4, <1>5, <2>1
    <2>7. Boxes = IF Wide THEN <<ftyp, WideMdat, BoxOf("moov", p, n)>>
                          ELSE <<ftyp, free, WideMdat, BoxOf("moov", p, n)>>
      <3> DEFINE moov == BoxOf("moov", p, n)
      <3> HIDE DEF moov
      <3>1. CASE Wide
        <4>1. Boxes = <<ftyp>> \o (<<WideMdat>> \o (<<moov>> \o << >>))
          BY <2>5, <2>6, <3>1, Zenon DEF moov
        <4>2. Boxes = <<ftyp, WideMdat, moov>>
          BY <4>1, ThreeBoxes
        <4> QED
          BY <3>1, <4>2 DEF moov
      <3>2. CASE ~Wide
        <4>1. Boxes = <<ftyp>> \o (<<free>> \o (<<WideMdat>> \o (<<moov>> \o << >>)))
          BY <2>5, <2>6, <3>2, Zenon DEF moov
        <4>2. Boxes = <<ftyp, free, WideMdat, moov>>
          BY <4>1, FourBoxes
        <4> QED
          BY <3>2, <4>2 DEF moov
      <3> QED
        BY <3>1, <3>2
    <2> QED
      BY <1>6, <2>2, <2>3, <2>7 DEF n, ftyp, free
  <1>7. CASE shiftBy # 0
    <2>1. mdatPos = 12 + (n + Slack) /\ shiftBy > 0
      BY <1>1, <1>7
    <2>2. /\ MoovIn(file, 8) /\ Len(file) = mdatPos + mdatSize
          /\ At(file, 8 + n) = <<"size", Slack>> /\ At(file, 9 + n) = <<"type", "free">>
      BY <2>1 DEF LayoutInv, n
    <2>3. PICK g \in Nat : g = 8 + n
      BY <1>2
    <2>4. 9 + n = g + 1 /\ g + Slack = mdatPos - 4
      BY <1>2, <2>1, <2>3
    <2>5. BoxesFrom[8] = <<BoxOf("moov", 8, n)>> \o BoxesFrom[g]
      <3>1. BoxesFrom[8] = <<BoxOf("moov", 8, n)>> \o BoxesFrom[8 + n]
        <4>1. At(file, 8) = <<"size", n>> /\ At(file, 8 + 1) = <<"type", "moov">>
          BY <2>2 DEF MoovIn, n
        <4> QED
          BY <1>1, <1>2, <4>1, PlainBox
      <3> QED
        BY <2>3, <3>1
    <2>6. BoxesFrom[g] = <<BoxOf("free", g, Slack)>> \o BoxesFrom[mdatPos - 4]
      <3>1. At(file, g) = <<"size", Slack>> /\ At(file, g + 1) = <<"type", "free">>
        BY <2>2, <2>3, <2>4
      <3>2. BoxesFrom[g] = <<BoxOf("free", g, Slack)>> \o BoxesFrom[g + Slack]
        BY <1>1, <1>2, <3>1, PlainBox
      <3> QED
        BY <2>4, <3>2
    <2>7. rest = << >>
      BY <1>1, <2>2, WalkEnds DEF rest
    <2>8. Boxes = <<ftyp>> \o (<<BoxOf("moov", 8, n)>> \o (<<BoxOf("free", g, Slack)>> \o
                     (IF Wide THEN <<WideMdat>> \o rest
                              ELSE <<free>> \o (<<WideMdat>> \o rest))))
      BY <1>4, <1>5, <2>5, <2>6
    <2>9. Boxes = IF Wide
                    THEN <<ftyp, BoxOf("moov", 8, n), BoxOf("free", g, Slack), WideMdat>>
                    ELSE <<ftyp, BoxOf("moov", 8, n), BoxOf("free", g, Slack), free, WideMdat>>
      <3> DEFINE moov == BoxOf("moov", 8, n)
                 gap == BoxOf("free", g, Slack)
      <3> HIDE DEF moov, gap
      <3>1. CASE Wide
        <4>1. Boxes = <<ftyp>> \o (<<moov>> \o (<<gap>> \o (<<WideMdat>> \o << >>)))
          BY <2>7, <2>8, <3>1, Zenon DEF moov, gap
        <4>2. Boxes = <<ftyp, moov, gap, WideMdat>>
          BY <4>1, FourBoxes
        <4> QED
          BY <3>1, <4>2 DEF moov, gap
      <3>2. CASE ~Wide
        <4>1. Boxes = <<ftyp>> \o (<<moov>> \o (<<gap>> \o (<<free>> \o
                                       (<<WideMdat>> \o << >>))))
          BY <2>7, <2>8, <3>2, Zenon DEF moov, gap
        <4>2. Boxes = <<ftyp, moov, gap, free, WideMdat>>
          BY <4>1, FiveBoxes
        <4> QED
          BY <3>2, <4>2 DEF moov, gap
      <3> QED
        BY <3>1, <3>2
    <2> QED
      BY <1>7, <2>2, <2>3, <2>9 DEF n, ftyp, free
  <1> QED
    BY <1>6, <1>7

(* The only box of a type. *)
LEMMA TheBoxIs ==
    ASSUME NEW type, NEW i \in DOMAIN Boxes, Boxes[i].type = type,
           \A j \in DOMAIN Boxes : Boxes[j].type = type => j = i
    PROVE  TheBox(type) = Boxes[i]
  <1>1. (CHOOSE j \in DOMAIN Boxes : Boxes[j].type = type) = i
    OBVIOUS
  <1> QED
    BY <1>1 DEF TheBox

(* What a player finds in a file that is done. *)
LEMMA BoxesFound ==
    ASSUME TypeInv, LayoutInv, pc = "done"
    PROVE  /\ Boxes[Len(Boxes)].end = Len(file)
           /\ TheBox("mdat") = WideMdat
           /\ LET mdat == IF Wide THEN <<"mdat">> ELSE <<"free", "mdat">>
              IN  Types = IF shiftBy > 0 THEN <<"ftyp", "moov", "free">> \o mdat
                                         ELSE <<"ftyp">> \o mdat \o <<"moov">>
           /\ \E p \in Nat : /\ MoovIn(file, p)
                             /\ TheBox("moov") = BoxOf("moov", p, MoovLen(chunks))
  <1> DEFINE n == MoovLen(chunks)
             p == IF shiftBy = 0 THEN mdatPos + mdatSize ELSE 8
             a == BoxOf("ftyp", 0, 8)
             m == BoxOf("moov", p, n)
             g == BoxOf("free", 8 + n, Slack)
             h == BoxOf("free", mdatPos - 4, 2)
             d == WideMdat
  <1>1. mdatPos \in Nat /\ mdatSize \in Nat /\ shiftBy \in Nat
    BY TypeFacts DEF TypeInv
  <1>2. /\ a.type = "ftyp" /\ m.type = "moov" /\ g.type = "free" /\ h.type = "free"
        /\ d.type = "mdat" /\ m.end = p + n /\ d.end = mdatPos + mdatSize
    BY DEF BoxOf, WideMdat
  <1>3. shiftBy = 0 => /\ MoovIn(file, p) /\ p + n = Len(file)
                       /\ Boxes = IF Wide THEN <<a, d, m>> ELSE <<a, h, d, m>>
    <2> HIDE DEF MoovIn
    <2> QED
      BY BoxesDone
  <1>4. shiftBy # 0 => /\ MoovIn(file, p) /\ mdatPos + mdatSize = Len(file)
                       /\ Boxes = IF Wide THEN <<a, m, g, d>> ELSE <<a, m, g, h, d>>
    <2> HIDE DEF MoovIn
    <2> QED
      BY BoxesDone
  <1>5. p \in Nat /\ MoovIn(file, p)
    BY <1>1, <1>3, <1>4
  <1>6. shiftBy > 0 <=> shiftBy # 0
    BY <1>1
  <1> HIDE DEF n, p, a, m, g, h, d
  <1>7. CASE shiftBy = 0 /\ Wide
    <2>1. Boxes = <<a, d, m>>
      BY <1>3, <1>7
    <2>2. DOMAIN Boxes = {1, 2, 3} /\ Boxes[1] = a /\ Boxes[2] = d /\ Boxes[3] = m
          /\ Len(Boxes) = 3
      BY <2>1
    <2>3. TheBox("mdat") = Boxes[2] /\ TheBox("moov") = Boxes[3]
      BY <1>2, <2>2, TheBoxIs
    <2>4. Types = <<"ftyp", "mdat", "moov">>
      BY <1>2, <2>1 DEF Types
    <2>5. Types = <<"ftyp">> \o <<"mdat">> \o <<"moov">>
      BY <2>4, TupleOfTwo, WideTypes
    <2> QED
      BY <1>2, <1>3, <1>5, <1>6, <1>7, <2>2, <2>3, <2>5 DEF d, m, n
  <1>8. CASE shiftBy = 0 /\ ~Wide
    <2>1. Boxes = <<a, h, d, m>>
      BY <1>3, <1>8
    <2>2. DOMAIN Boxes = {1, 2, 3, 4} /\ Boxes[1] = a /\ Boxes[2] = h /\ Boxes[3] = d
          /\ Boxes[4] = m /\ Len(Boxes) = 4
      BY <2>1
    <2>3. TheBox("mdat") = Boxes[3] /\ TheBox("moov") = Boxes[4]
      BY <1>2, <2>2, TheBoxIs
    <2>4. Types = <<"ftyp", "free", "mdat", "moov">>
      BY <1>2, <2>1 DEF Types
    <2>5. Types = <<"ftyp">> \o <<"free", "mdat">> \o <<"moov">>
      BY <2>4, TupleOfThree, NarrowTypes
    <2> QED
      BY <1>2, <1>3, <1>5, <1>6, <1>8, <2>2, <2>3, <2>5 DEF d, m, n
  <1>9. CASE shiftBy # 0 /\ Wide
    <2>1. Boxes = <<a, m, g, d>>
      BY <1>4, <1>9
    <2>2. DOMAIN Boxes = {1, 2, 3, 4} /\ Boxes[1] = a /\ Boxes[2] = m /\ Boxes[3] = g
          /\ Boxes[4] = d /\ Len(Boxes) = 4
      BY <2>1
    <2>3. TheBox("mdat") = Boxes[4] /\ TheBox("moov") = Boxes[2]
      BY <1>2, <2>2, TheBoxIs
    <2>4. Types = <<"ftyp", "moov", "free", "mdat">>
      BY <1>2, <2>1 DEF Types
    <2>5. Types = <<"ftyp", "moov", "free">> \o <<"mdat">>
      BY <2>4, MovedWideTypes
    <2> QED
      BY <1>2, <1>4, <1>5, <1>6, <1>9, <2>2, <2>3, <2>5 DEF d, m, n
  <1>10. CASE shiftBy # 0 /\ ~Wide
    <2>1. Boxes = <<a, m, g, h, d>>
      BY <1>4, <1>10
    <2>2. DOMAIN Boxes = {1, 2, 3, 4, 5} /\ Boxes[1] = a /\ Boxes[2] = m /\ Boxes[3] = g
          /\ Boxes[4] = h /\ Boxes[5] = d /\ Len(Boxes) = 5
      BY <2>1
    <2>3. TheBox("mdat") = Boxes[5] /\ TheBox("moov") = Boxes[2]
      BY <1>2, <2>2, TheBoxIs
    <2>4. Types = <<"ftyp", "moov", "free", "free", "mdat">>
      BY <1>2, <2>1 DEF Types
    <2>5. Types = <<"ftyp", "moov", "free">> \o <<"free", "mdat">>
      BY <2>4, MovedNarrowTypes
    <2> QED
      BY <1>2, <1>4, <1>5, <1>6, <1>10, <2>2, <2>3, <2>5 DEF d, m, n
  <1> QED
    BY <1>7, <1>8, <1>9, <1>10

(* A file m4af_finalize() reports as written consists of boxes from its    *)
(* first to its last byte, whether moov comes first or last and with       *)
(* either header of mdat, and the body of mdat is the media data.          *)
THEOREM BoxesTileAlways == Spec => []BoxesTile
  <1>1. TypeInv /\ MediaInv => BoxesTile
    <2> SUFFICES ASSUME TypeInv, MediaInv, pc = "done", ~Failed
                 PROVE  BoxesTile
      BY DEF BoxesTile
    <2>1. LayoutInv
      BY DEF MediaInv
    <2>2. TheBox("mdat").body = mdatPos /\ TheBox("mdat").end = mdatPos + mdatSize
      BY <2>1, BoxesFound DEF WideMdat
    <2> QED
      BY <2>1, <2>2, BoxesFound DEF BoxesTile, Wide
  <1> QED
    BY <1>1, MediaInvAlways, PTL

-----------------------------------------------------------------------------
(* The tables of moov *)

(* The runs of stsc give back the number of samples of every chunk: the     *)
(* last run that begins at chunk j or before has as many as chunk j.       *)
LEMMA LastRun ==
    ASSUME NEW t \in Seq(Chunk), NEW j \in 1 .. Len(t)
    PROVE  \E r \in RunStarts(t) : /\ r <= j /\ t[r].n = t[j].n
                                   /\ \A s \in RunStarts(t) : s <= j => s <= r
  <1> DEFINE P(k) == \E r \in RunStarts(t) : /\ r <= k /\ t[r].n = t[k].n
                                             /\ \A s \in RunStarts(t) : s <= k => s <= r
             T == {k \in Nat : k \in 1 .. Len(t) => P(k)}
  <1>1. Len(t) \in Nat
    BY ColumnFacts
  <1>2. 0 \in T
    OBVIOUS
  <1>3. ASSUME NEW k \in T
        PROVE  k + 1 \in T
    <2> SUFFICES ASSUME k + 1 \in 1 .. Len(t) PROVE P(k + 1)
      OBVIOUS
    <2>1. CASE k + 1 \in RunStarts(t)
      BY <1>1, <2>1 DEF RunStarts
    <2>2. CASE k + 1 \notin RunStarts(t)
      <3>1. k + 1 # 1 /\ t[k + 1].n = t[k].n
        <4>1. k + 1 - 1 = k
          OBVIOUS
        <4> QED
          BY <1>1, <2>2, <4>1 DEF RunStarts
      <3>2. k \in 1 .. Len(t)
        BY <1>1, <3>1
      <3>3. PICK r \in RunStarts(t) : /\ r <= k /\ t[r].n = t[k].n
                                      /\ \A s \in RunStarts(t) : s <= k => s <= r
        BY <3>2
      <3>4. r \in Nat /\ r <= k + 1
        BY <1>1, <3>3 DEF RunStarts
      <3>5. \A s \in RunStarts(t) : s <= k + 1 => s <= k
        <4>1. \A s \in RunStarts(t) : s \in Nat /\ s # k + 1
          BY <1>1, <2>2 DEF RunStarts
        <4> QED
          BY <4>1
      <3> QED
        BY <3>1, <3>3, <3>4, <3>5
    <2> QED
      BY <2>1, <2>2
  <1>4. T = Nat
    <2>1. T \subseteq Nat
      OBVIOUS
    <2> HIDE DEF T
    <2> QED
      BY <1>2, <1>3, <2>1, NatUpTo
  <1> QED
    BY <1>1, <1>4

(* The last run that begins at chunk j or before. *)
IsLastRun(runs, j, e) == e.first <= j /\ \A d \in runs : d.first <= j => d.first <= e.first

(* The run a player looks up has the number of samples of the chunk. *)
LEMMA RunsCount ==
    ASSUME NEW t \in Seq(Chunk), NEW j \in 1 .. Len(t),
           NEW runs, runs = {[first |-> k, n |-> t[k].n] : k \in RunStarts(t)}
    PROVE  (CHOOSE e \in runs : IsLastRun(runs, j, e)).n = t[j].n
  <1> DEFINE e == CHOOSE x \in runs : IsLastRun(runs, j, x)
  <1>1. PICK r \in RunStarts(t) : /\ r <= j /\ t[r].n = t[j].n
                                  /\ \A s \in RunStarts(t) : s <= j => s <= r
    BY LastRun
  <1>2. /\ [first |-> r, n |-> t[r].n] \in runs
        /\ IsLastRun(runs, j, [first |-> r, n |-> t[r].n])
    BY <1>1 DEF IsLastRun
  <1>3. e \in runs /\ IsLastRun(runs, j, e)
    BY <1>2
  <1> HIDE DEF e
  <1>4. PICK k \in RunStarts(t) : e = [first |-> k, n |-> t[k].n]
    BY <1>3
  <1>5. k <= j /\ r <= k
    BY <1>1, <1>2, <1>3, <1>4 DEF IsLastRun
  <1>6. k = r
    <2>1. k <= r
      BY <1>1, <1>5
    <2>2. k \in Nat /\ r \in Nat
      BY ColumnFacts DEF RunStarts
    <2> QED
      BY <1>5, <2>1, <2>2
  <1>7. e.n = t[j].n
    BY <1>1, <1>4, <1>6
  <1> QED
    BY <1>7 DEF e

(* A player finds the number of samples of every chunk. *)
LEMMA PlayerCountsFacts ==
    ASSUME chunks \in Seq(Chunk)
    PROVE  PlayerCounts(Tables(chunks)) = Counts
  <1> DEFINE t == Tables(chunks)
  <1>1. /\ t.stsc = {[first |-> k, n |-> chunks[k].n] : k \in RunStarts(chunks)}
        /\ DOMAIN t.stco = 1 .. Len(chunks) /\ DOMAIN chunks = 1 .. Len(chunks)
    BY DEF Tables
  <1> HIDE DEF t
  <1>2. ASSUME NEW j \in 1 .. Len(chunks)
        PROVE  (CHOOSE e \in t.stsc :
                  /\ e.first <= j
                  /\ \A d \in t.stsc : d.first <= j => d.first <= e.first).n = chunks[j].n
    <2>1. (CHOOSE e \in t.stsc : IsLastRun(t.stsc, j, e)).n = chunks[j].n
      BY <1>1, RunsCount
    <2> QED
      BY <2>1 DEF IsLastRun
  <1> QED
    BY <1>1, <1>2 DEF PlayerCounts, Counts, t

(* The offsets a player reads are those of the chunk table, unless they are *)
(* too large for it.                                                       *)
LEMMA StoredFacts ==
    ASSUME chunks \in Seq(Chunk), ~TableTooNarrow, NEW j \in 1 .. Len(chunks)
    PROVE  Tables(chunks).stco[j] = chunks[j].offset
  <1>1. chunks[j].offset \in Nat /\ MaxUint32 \in Nat
    BY ColumnFacts, M4afAssumption
  <1>2. Tables(chunks).stco[j] = Stored(chunks[j].offset, Is64(chunks))
    BY DEF Tables
  <1>3. CASE Is64(chunks)
    BY <1>2, <1>3 DEF Stored
  <1>4. CASE ~Is64(chunks)
    <2>1. ~(chunks[j].offset > MaxUint32)
      BY <1>4 DEF TableTooNarrow
    <2>2. \A a, b \in Nat : ~(a > b) => a % (b + 1) = a
      OBVIOUS
    <2> QED
      BY <1>1, <1>2, <1>4, <2>1, <2>2 DEF Stored
  <1> QED
    BY <1>3, <1>4

(* What moov holds are tables. *)
LEMMA TablesFacts ==
    ASSUME chunks \in Seq(Chunk), samples \in Seq(Nat)
    PROVE  Tables(chunks) \in TablesSet /\ Tables(chunks).stsz = samples
  <1>1. \A j \in 1 .. Len(chunks) : /\ chunks[j].offset \in Nat /\ chunks[j].n \in Nat
                                    /\ Stored(chunks[j].offset, Is64(chunks)) \in Nat
    <2>1. MaxUint32 \in Nat
      BY M4afAssumption
    <2>2. \A a \in Nat : a % (MaxUint32 + 1) \in Nat
      BY <2>1
    <2>3. \A j \in 1 .. Len(chunks) : chunks[j].offset \in Nat /\ chunks[j].n \in Nat
      BY ColumnFacts
    <2> QED
      BY <2>2, <2>3 DEF Stored
  <1>2. [j \in 1 .. Len(chunks) |-> Stored(chunks[j].offset, Is64(chunks))] \in Seq(Nat)
    <2>1. Len(chunks) \in Nat
      BY ColumnFacts
    <2> QED
      BY <1>1, <2>1
  <1>3. {[first |-> j, n |-> chunks[j].n] : j \in RunStarts(chunks)}
           \in SUBSET [first : Nat, n : Nat]
    <2>1. RunStarts(chunks) \subseteq 1 .. Len(chunks) /\ Len(chunks) \in Nat
      BY ColumnFacts DEF RunStarts
    <2>2. \A j \in RunStarts(chunks) : j \in Nat /\ chunks[j].n \in Nat
      BY <1>1, <2>1
    <2> QED
      BY <2>2
  <1> QED
    BY <1>2, <1>3 DEF Tables, TablesSet

(* What a player finds in a file that is done are the samples held. *)
LEMMA PlayIsHeld ==
    ASSUME TypeInv, TableInv, PlaceInv, LayoutInv, pc = "done", ~TableTooNarrow
    PROVE  Play(PlayerTables) = [i \in DOMAIN samples |-> Held(i)]
  <1> DEFINE t == Tables(chunks)
  <1>1. /\ chunks \in Seq(Chunk) /\ samples \in Seq(Nat) /\ Chain(chunks, samples)
        /\ IsWords(file) /\ DOMAIN samples = 1 .. Len(samples)
    BY TypeFacts, SizesAreNat DEF TypeInv, TableInv
  <1>2. PlayerTables = t
    <2>1. PICK p \in Nat : /\ MoovIn(file, p)
                           /\ TheBox("moov") = BoxOf("moov", p, MoovLen(chunks))
      BY BoxesFound
    <2>2. TheBox("moov").body = p + 2
      BY <2>1 DEF BoxOf
    <2>3. At(file, p + 2) = <<"tables", t>>
      BY <2>1 DEF MoovIn
    <2>4. WordAt(p + 2) = At(file, p + 2)
      BY <1>1, <2>1, WordAtIsAt
    <2>5. WordAt(TheBox("moov").body)[2] = t
      BY <2>2, <2>3, <2>4
    <2> QED
      BY <2>5 DEF PlayerTables
  <1>3. t \in TablesSet /\ t.stsz = samples /\ PlayerCounts(t) = Counts
    BY <1>1, TablesFacts, PlayerCountsFacts
  <1>4. \A j \in 1 .. Len(chunks) : t.stco[j] = chunks[j].offset
    BY <1>1, StoredFacts
  <1> HIDE DEF t
  <1>5. SampleOffsets[t] = [i \in DOMAIN samples |->
                              LET p == Place(Counts, samples, i)
                              IN  t.stco[p.chunk] + p.skip]
    BY <1>3 DEF SampleOffsets
  <1>6. ASSUME NEW i \in DOMAIN samples
        PROVE  WordsAt(SampleOffsets[t][i], t.stsz[i]) = Held(i)
    <2> DEFINE p == Place(Counts, samples, i)
               at == chunks[p.chunk].offset + p.skip
    <2>1. p.chunk \in 1 .. Len(chunks)
      <3>1. Counts = CountsOf(chunks)
        BY DEF Counts, CountsOf
      <3> QED
        BY <1>1, <1>6, <3>1, PlaceFacts
    <2>2. SampleOffsets[t][i] = at
      BY <1>4, <1>5, <2>1
    <2>3. buffer = << >>
      BY DEF PlaceInv, Pending
    <2>4. Held(i) = [k \in 1 .. samples[i] |-> WordAt(Located(at + k - 1))]
      BY <2>3 DEF Held
    <2>5. Held(i) = [k \in 1 .. samples[i] |-> WordAt(at + k - 1)]
      BY <2>4 DEF Located
    <2> HIDE DEF at
    <2> QED
      BY <1>3, <2>2, <2>5 DEF WordsAt
  <1>7. Play(t) = [i \in DOMAIN samples |-> WordsAt(SampleOffsets[t][i], t.stsz[i])]
    BY <1>3 DEF Play
  <1> QED
    BY <1>2, <1>6, <1>7

-----------------------------------------------------------------------------
(* The writer implements the store *)

(* The samples accepted. *)
Accepted == [i \in DOMAIN samples |-> Data(i, samples[i])]

(* The inductive invariant. *)
IInv == TypeInv /\ ChunkInv /\ MediaInv

(* Unless the writer has given up, what it stores are the samples accepted, *)
LEMMA StoredAccepted == IInv /\ ~GivenUp => StoredSamples = Accepted
  <1> SUFFICES ASSUME IInv, ~GivenUp PROVE StoredSamples = Accepted
    OBVIOUS
  <1>1. TypeInv /\ ChunkInv /\ MediaInv /\ ~Failed /\ (pc = "done" => ~TableTooNarrow)
    BY DEF IInv, GivenUp
  <1>2. [i \in DOMAIN samples |-> Held(i)] = Accepted
    BY <1>1, MediaInvHeld DEF HeldInv, Accepted
  <1>3. CASE pc = "done"
    <2>1. TableInv /\ PlaceInv /\ LayoutInv
      BY <1>1, <1>3 DEF ChunkInv, MediaInv
    <2> QED
      BY <1>1, <1>2, <1>3, <2>1, PlayIsHeld DEF StoredSamples
  <1>4. CASE pc # "done"
    BY <1>2, <1>4 DEF StoredSamples
  <1> QED
    BY <1>3, <1>4

(* and after a step. *)
LEMMA StoredAcceptedNext == IInv' /\ ~GivenUp' => StoredSamples' = Accepted'
  <1>1. (IInv /\ ~GivenUp => StoredSamples = Accepted)'
    BY StoredAccepted, PTL
  <1> QED
    BY <1>1

(* The status of the store. *)
Status == IF GivenUp THEN "failed" ELSE IF pc = "done" THEN "closed" ELSE "open"

(* The initial states map to the initial state of the store. *)
LEMMA StoreInit == Init => Store!Init
  <1> SUFFICES ASSUME Init PROVE Store!Init
    OBVIOUS
  <1>1. samples = << >> /\ pc = "begin" /\ ~Failed
    BY DEF Init, NoSamples, Failed
  <1>2. StoredSamples = [i \in DOMAIN samples |-> Held(i)] /\ ~GivenUp
    BY <1>1 DEF GivenUp, StoredSamples
  <1>3. StoredSamples = << >>
    BY <1>1, <1>2
  <1> QED
    BY <1>1, <1>2, <1>3 DEF Store!Init

(* Nothing changes once the writer is done. *)
LEMMA DoneStays == pc = "done" /\ [Next]_vars => UNCHANGED <<GivenUp, samples, pc>>
  <1> SUFFICES ASSUME pc = "done", [Next]_vars PROVE UNCHANGED <<GivenUp, samples, pc>>
    OBVIOUS
  <1>1. UNCHANGED vars
    BY DEF Next, BeginWrite, WriteSample, FinalizeFlush, FinalizeMdat, WriteMoov, PatchMoov,
       ShiftBlock, ShiftHeader, WriteMoovFront, Stopped
  <1> QED
    BY <1>1 DEF vars, GivenUp, Failed, TableTooNarrow, Is64

(* What is given up stays given up. *)
LEMMA GivenUpStays == TypeInv /\ GivenUp /\ [Next]_vars => GivenUp'
  <1> SUFFICES ASSUME TypeInv, GivenUp, [Next]_vars PROVE GivenUp'
    OBVIOUS
  <1>1. CASE pc = "done"
    BY <1>1, DoneStays
  <1>2. CASE UNCHANGED vars
    BY <1>2 DEF vars, GivenUp, Failed, TableTooNarrow, Is64
  <1>3. CASE Next /\ pc # "done"
    <2>1. Failed
      BY <1>3 DEF GivenUp
    <2>2. Failed'
      BY <1>3, <2>1, FailedStays
    <2> QED
      BY <2>2 DEF GivenUp
  <1> QED
    BY <1>1, <1>2, <1>3

(* The samples accepted change only when one is written. *)
LEMMA AcceptedNext ==
    ASSUME TypeInv, TypeInv', [Next]_vars, ~GivenUp, ~GivenUp'
    PROVE  \/ UNCHANGED samples
           \/ /\ pc # "done" /\ pc' # "done"
              /\ \E size \in SampleSizes \union {0} : samples' = Append(samples, size)
  <1>1. ~lastError
    <2>1. lastError \in BOOLEAN
      BY TypeFacts DEF TypeInv
    <2> QED
      BY <2>1 DEF GivenUp, Failed
  <1>2. CASE pc = "begin"
    <2>1. samples = << >>
      BY <1>2 DEF TypeInv, Places, NoSamples
    <2> QED
      BY <1>2 DEF Next, BeginWrite, WriteSample, FinalizeFlush, FinalizeMdat, WriteMoov,
         PatchMoov, ShiftBlock, ShiftHeader, WriteMoovFront, Stopped, vars
  <1>3. CASE \E size \in SampleSizes \union {0} : WriteSample(size)
    <2>1. PICK size \in SampleSizes \union {0} : WriteSample(size)
      BY <1>3
    <2>2. samples' = Append(samples, size) /\ pc # "done" /\ pc' # "done"
      BY <1>1, <2>1 DEF WriteSample
    <2> QED
      BY <2>2
  <1>4. CASE ~(\E size \in SampleSizes \union {0} : WriteSample(size))
    BY <1>4 DEF Next, BeginWrite, FinalizeFlush, FinalizeMdat, WriteMoov,
       PatchMoov, ShiftBlock, ShiftHeader, WriteMoovFront, Stopped, vars
  <1> QED
    BY <1>2, <1>3, <1>4

(* A sample more is one more element of the store. *)
LEMMA DataAppend ==
    ASSUME NEW s \in Seq(Nat), NEW size \in Nat, NEW t, t = Append(s, size),
           NEW f, f = [i \in DOMAIN s |-> Data(i, s[i])]
    PROVE  [i \in DOMAIN t |-> Data(i, t[i])] = Append(f, Data(Len(f) + 1, size))
  <1> DEFINE g == [i \in DOMAIN t |-> Data(i, t[i])]
             d == Data(Len(s) + 1, size)
             S == {f[i] : i \in 1 .. Len(s)} \union {d}
             h == Append(f, d)
  <1>1. /\ Len(s) \in Nat /\ DOMAIN s = 1 .. Len(s) /\ DOMAIN t = 1 .. Len(s) + 1
        /\ (\A i \in 1 .. Len(s) : t[i] = s[i]) /\ t[Len(s) + 1] = size
    OBVIOUS
  <1> HIDE DEF d
  <1>2. f \in Seq(S) /\ Len(f) = Len(s)
    <2>1. \A i \in 1 .. Len(s) : f[i] \in S
      OBVIOUS
    <2>2. f = [i \in 1 .. Len(s) |-> f[i]]
      BY <1>1
    <2> HIDE DEF S
    <2>3. IsSeq(f) /\ Len(f) = Len(s)
      BY <1>1, <2>2, IsSeqOfFunction
    <2> QED
      BY <2>1, <2>3, SeqOfIsSeq
  <1>3. d \in S
    OBVIOUS
  <1>4. /\ h \in Seq(S) /\ Len(h) = Len(s) + 1
        /\ (\A i \in 1 .. Len(s) : h[i] = f[i]) /\ h[Len(s) + 1] = d
    <2> HIDE DEF S
    <2> QED
      BY <1>2, <1>3, AppendProperties
  <1>5. h = [i \in 1 .. Len(s) + 1 |-> h[i]]
    BY <1>4
  <1> HIDE DEF h, S
  <1>6. \A i \in 1 .. Len(s) + 1 : h[i] = Data(i, t[i])
    <2>1. ASSUME NEW i \in 1 .. Len(s) + 1
          PROVE  h[i] = Data(i, t[i])
      <3>1. CASE i \in 1 .. Len(s)
        BY <1>1, <1>4, <3>1
      <3>2. CASE i = Len(s) + 1
        BY <1>1, <1>4, <3>2 DEF d
      <3> QED
        BY <1>1, <3>1, <3>2
    <2> QED
      BY <2>1
  <1>7. g = h
    BY <1>1, <1>5, <1>6
  <1> QED
    BY <1>2, <1>7 DEF d, h

(* A step maps to one of the store, or to none. *)
LEMMA StoreNext ==
    IInv /\ IInv' /\ [Next]_vars => [Store!Next]_<<StoredSamples, Status>>
  <1> SUFFICES ASSUME IInv, IInv', [Next]_vars
               PROVE  [Store!Next]_<<StoredSamples, Status>>
    OBVIOUS
  <1>1. TypeInv /\ TypeInv' /\ samples \in Seq(Nat)
    BY TypeFacts, SizesAreNat DEF IInv, TypeInv
  <1>2. CASE GivenUp
    <2>1. GivenUp'
      BY <1>1, <1>2, GivenUpStays
    <2> QED
      BY <1>2, <2>1 DEF StoredSamples, Status
  <1>3. CASE ~GivenUp /\ GivenUp'
    <2>1. pc # "done"
      BY <1>3, DoneStays
    <2>2. StoredSamples' = << >> /\ Status = "open" /\ Status' = "failed"
      BY <1>3, <2>1 DEF StoredSamples, Status
    <2>3. Store!Fail
      BY <2>2 DEF Store!Fail, Status
    <2> QED
      BY <2>3 DEF Store!Next
  <1>4. CASE ~GivenUp /\ ~GivenUp'
    <2>1. StoredSamples = Accepted /\ StoredSamples' = Accepted'
      BY <1>4, StoredAccepted, StoredAcceptedNext
    <2>2. /\ Status = IF pc = "done" THEN "closed" ELSE "open"
          /\ Status' = IF pc' = "done" THEN "closed" ELSE "open"
      BY <1>4 DEF Status
    <2>3. CASE UNCHANGED samples
      <3>1. StoredSamples' = StoredSamples
        BY <2>1, <2>3 DEF Accepted
      <3>2. CASE pc = "done" \/ pc' # "done"
        <4>1. Status' = Status
          BY <2>2, <3>2, DoneStays
        <4> QED
          BY <3>1, <4>1
      <3>3. CASE pc # "done" /\ pc' = "done"
        <4>1. Status = "open" /\ Status' = "closed"
          BY <2>2, <3>3
        <4>2. Store!Close
          BY <3>1, <4>1 DEF Store!Close, Status
        <4> QED
          BY <4>2 DEF Store!Next
      <3> QED
        BY <3>2, <3>3
    <2>4. CASE ~UNCHANGED samples
      <3>1. /\ pc # "done" /\ pc' # "done"
            /\ \E size \in SampleSizes \union {0} : samples' = Append(samples, size)
        BY <1>1, <1>4, <2>4, AcceptedNext
      <3>2. PICK size \in SampleSizes \union {0} : samples' = Append(samples, size)
        BY <3>1
      <3>3. Accepted' = Append(Accepted, Data(Len(Accepted) + 1, size))
        <4>1. PICK s \in Seq(Nat) : s = samples
          BY <1>1
        <4>2. PICK t : t = samples' /\ t = Append(s, size)
          BY <3>2, <4>1
        <4>3. size \in Nat
          BY SizesAreNat
        <4>4. PICK f : f = Accepted /\ f = [i \in DOMAIN s |-> Data(i, s[i])]
          BY <4>1 DEF Accepted
        <4>5. [i \in DOMAIN t |-> Data(i, t[i])] = Append(f, Data(Len(f) + 1, size))
          BY <4>2, <4>3, <4>4, DataAppend
        <4>6. Accepted' = [i \in DOMAIN t |-> Data(i, t[i])]
          BY <4>2 DEF Accepted
        <4> QED
          BY <4>4, <4>5, <4>6
      <3>4. Status = "open" /\ Status' = Status
        BY <2>2, <3>1
      <3>5. Store!Accept
        BY <2>1, <3>3, <3>4 DEF Store!Accept, Status
      <3> QED
        BY <3>5 DEF Store!Next
    <2> QED
      BY <2>3, <2>4
  <1> QED
    BY <1>2, <1>3, <1>4

(* The writer implements the append-only store: what it accepted stays     *)
(* readable until it is closed, and a player then finds each sample        *)
(* through moov; when anything fails the store is given up as a whole.     *)
THEOREM StoreImplemented == Spec => ImplementsStore
  <1>1. Init => Store!Init
    BY StoreInit
  <1>2. IInv /\ IInv' /\ [Next]_vars => [Store!Next]_<<StoredSamples, Status>>
    BY StoreNext
  <1>3. Spec => []IInv
    BY MediaInvAlways DEF IInv
  <1> QED
    BY <1>1, <1>2, <1>3, PTL DEF Spec, ImplementsStore, Store!Spec, Status

=============================================================================
