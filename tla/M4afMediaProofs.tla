-------------------------- MODULE M4afMediaProofs ---------------------------
(***************************************************************************)
(* The media data of the M4A writer are those of the samples it accepted,  *)
(* in order and without a gap: in the chunk buffer, in the file, and       *)
(* while they are moved to make room for moov.                             *)
(***************************************************************************)
EXTENDS M4afProofs

-----------------------------------------------------------------------------
(* Words of the file *)

(* A word read is a word of the file. *)
LEMMA WordAtIsAt ==
    ASSUME IsWords(file), NEW p \in Nat
    PROVE  WordAt(p) = At(file, p)
  <1>1. Len(file) \in Nat
    BY DEF IsWords, IsSeq
  <1>2. p + 1 \in 1 .. Len(file) <=> p < Len(file)
    BY <1>1
  <1> QED
    BY <1>2 DEF WordAt, At

(* The same after a step. *)
LEMMA WordAtIsAtNext ==
    ASSUME IsWords(file'), NEW p \in Nat
    PROVE  WordAt(p)' = At(file', p)
  <1>1. Len(file') \in Nat
    BY DEF IsWords, IsSeq
  <1>2. p + 1 \in 1 .. Len(file') <=> p < Len(file')
    BY <1>1
  <1> QED
    BY <1>2 DEF WordAt, At

(* The words of a file after ws has been written at position p. *)
LEMMA OverlayWord ==
    ASSUME NEW f, IsWords(f), NEW ws, IsWords(ws), NEW p \in Nat
    PROVE  /\ IsWords(Overlay(f, p, ws)) /\ Len(f) \in Nat /\ Len(ws) \in Nat
           /\ Len(Overlay(f, p, ws)) =
                 IF Len(f) >= p + Len(ws) THEN Len(f) ELSE p + Len(ws)
           /\ \A q \in Nat : (q < p \/ p + Len(ws) <= q) /\ q < Len(f) =>
                                At(Overlay(f, p, ws), q) = At(f, q)
           /\ \A q \in Nat : p <= q /\ q < p + Len(ws) =>
                                At(Overlay(f, p, ws), q) = ws[q - p + 1]
  <1> DEFINE g == Overlay(f, p, ws)
  <1>1. IsSeq(f) /\ IsSeq(ws) /\ Len(f) \in Nat /\ Len(ws) \in Nat /\ IsWords(g)
    BY OverlayIsWords DEF IsWords, IsSeq
  <1>2. /\ Len(g) = IF Len(f) >= p + Len(ws) THEN Len(f) ELSE p + Len(ws)
        /\ \A q \in Nat : 
              At(g, q) = IF p <= q /\ q < p + Len(ws) THEN ws[q - p + 1]
                         ELSE IF q < Len(f) THEN f[q + 1]
                         ELSE IF q < p THEN <<"fill", 0>> ELSE <<"none", 0>>
    BY <1>1, OverlayFacts
  <1> HIDE DEF g
  <1>3. ASSUME NEW q \in Nat, q < p \/ p + Len(ws) <= q, q < Len(f)
        PROVE  At(g, q) = At(f, q)
    <2>1. ~(p <= q /\ q < p + Len(ws))
      BY <1>1, <1>3
    <2> QED
      BY <1>2, <1>3, <2>1 DEF At
  <1>4. ASSUME NEW q \in Nat, p <= q, q < p + Len(ws)
        PROVE  At(g, q) = ws[q - p + 1]
    BY <1>2, <1>4
  <1> QED
    BY <1>1, <1>2, <1>3, <1>4 DEF g

(* The four words of a header before the media data at p, as begun and as  *)
(* finished.                                                               *)
HeaderBegun(f, p) ==
    /\ At(f, p - 4) = <<"size", 2>> /\ At(f, p - 3) = <<"type", "free">>
    /\ At(f, p - 2) = <<"size", 0>> /\ At(f, p - 1) = <<"type", "mdat">>

HeaderDone(f, p, size) ==
    IF size + 2 > MaxUint32
      THEN /\ At(f, p - 4) = <<"size", 1>> /\ At(f, p - 3) = <<"type", "mdat">>
           /\ At(f, p - 2) = <<"size", size + 4>>
      ELSE /\ At(f, p - 4) = <<"size", 2>> /\ At(f, p - 3) = <<"type", "free">>
           /\ At(f, p - 2) = <<"size", size + 2>> /\ At(f, p - 1) = <<"type", "mdat">>

(* m4af_finalize_mdat() turns a header that was begun into a finished one *)
(* and leaves the words behind it alone.                                  *)
LEMMA SizedFacts ==
    ASSUME NEW f, IsWords(f), NEW p \in Nat, p >= 4, p <= Len(f), HeaderBegun(f, p),
           mdatSize \in Nat
    PROVE  /\ IsWords(SizedMdat(f, p)) /\ Len(SizedMdat(f, p)) = Len(f)
           /\ HeaderDone(SizedMdat(f, p), p, mdatSize)
           /\ \A q \in Nat : (q < p - 4 \/ p <= q) /\ q < Len(f) =>
                 At(SizedMdat(f, p), q) = At(f, q)
  <1> DEFINE a == <<<<"size", 1>>, <<"type", "mdat">>, <<"size", mdatSize + 4>>, <<"fill", 0>>>>
             b == <<<<"size", mdatSize + 2>>>>
             g == SizedMdat(f, p)
  <1>0. p - 4 \in Nat /\ p - 3 \in Nat /\ p - 2 \in Nat /\ p - 1 \in Nat /\ Len(f) \in Nat
    BY DEF IsWords, IsSeq
  <1>1. IsWords(g)
    BY SizedMdatIsWords
  <1>2. /\ IsSeq(a) /\ Len(a) = 4 /\ IsSeq(b) /\ Len(b) = 1
    BY ShortSeqs
  <1>3. /\ a[1] = <<"size", 1>> /\ a[2] = <<"type", "mdat">> /\ a[3] = <<"size", mdatSize + 4>>
        /\ a[4] = <<"fill", 0>> /\ b[1] = <<"size", mdatSize + 2>>
    OBVIOUS
  <1>4. IsWords(a) /\ IsWords(b)
    <2>1. \A w \in {<<"size", 1>>, <<"type", "mdat">>, <<"size", mdatSize + 4>>, <<"fill", 0>>,
                    <<"size", mdatSize + 2>>} : SizeOK(w)
      BY DEF SizeOK
    <2>2. (\A i \in 1 .. 4 : i \in {1, 2, 3, 4}) /\ (\A i \in 1 .. 1 : i = 1)
      OBVIOUS
    <2> HIDE DEF a, b
    <2> QED
      BY <1>2, <1>3, <2>1, <2>2 DEF IsWords
  <1>5. g = IF mdatSize + 2 > MaxUint32 THEN Overlay(f, p - 4, a) ELSE Overlay(f, p - 2, b)
    BY DEF SizedMdat
  <1> HIDE DEF a, b, g
  <1>6. CASE mdatSize + 2 > MaxUint32
    <2>1. /\ Len(g) = IF Len(f) >= p - 4 + 4 THEN Len(f) ELSE p - 4 + 4
          /\ \A q \in Nat : (q < p - 4 \/ p - 4 + 4 <= q) /\ q < Len(f) => At(g, q) = At(f, q)
          /\ \A q \in Nat : p - 4 <= q /\ q < p - 4 + 4 => At(g, q) = a[q - (p - 4) + 1]
      <3> DEFINE lo == p - 4
      <3>1. lo \in Nat
        BY <1>0
      <3>2. g = Overlay(f, lo, a)
        BY <1>5, <1>6
      <3> HIDE DEF lo
      <3>3. /\ Len(g) = IF Len(f) >= lo + Len(a) THEN Len(f) ELSE lo + Len(a)
            /\ \A q \in Nat : (q < lo \/ lo + Len(a) <= q) /\ q < Len(f) => At(g, q) = At(f, q)
            /\ \A q \in Nat : lo <= q /\ q < lo + Len(a) => At(g, q) = a[q - lo + 1]
        BY <1>4, <3>1, <3>2, OverlayWord
      <3> QED
        BY <1>2, <3>3 DEF lo
    <2>2. p - 4 + 4 = p
      OBVIOUS
    <2>3. Len(g) = Len(f)
      BY <1>0, <2>1, <2>2
    <2>4. /\ At(g, p - 4) = a[p - 4 - (p - 4) + 1]
          /\ At(g, p - 3) = a[p - 3 - (p - 4) + 1]
          /\ At(g, p - 2) = a[p - 2 - (p - 4) + 1]
      BY <1>0, <2>1
    <2>5. p - 4 - (p - 4) + 1 = 1 /\ p - 3 - (p - 4) + 1 = 2 /\ p - 2 - (p - 4) + 1 = 3
      OBVIOUS
    <2>6. HeaderDone(g, p, mdatSize)
      BY <1>3, <1>6, <2>4, <2>5 DEF HeaderDone
    <2> QED
      BY <1>1, <2>1, <2>2, <2>3, <2>6 DEF g
  <1>7. CASE ~(mdatSize + 2 > MaxUint32)
    <2>1. /\ Len(g) = IF Len(f) >= p - 2 + 1 THEN Len(f) ELSE p - 2 + 1
          /\ \A q \in Nat : (q < p - 2 \/ p - 2 + 1 <= q) /\ q < Len(f) => At(g, q) = At(f, q)
          /\ \A q \in Nat : p - 2 <= q /\ q < p - 2 + 1 => At(g, q) = b[q - (p - 2) + 1]
      <3> DEFINE lo == p - 2
      <3>1. lo \in Nat
        BY <1>0
      <3>2. g = Overlay(f, lo, b)
        BY <1>5, <1>7
      <3> HIDE DEF lo
      <3>3. /\ Len(g) = IF Len(f) >= lo + Len(b) THEN Len(f) ELSE lo + Len(b)
            /\ \A q \in Nat : (q < lo \/ lo + Len(b) <= q) /\ q < Len(f) => At(g, q) = At(f, q)
            /\ \A q \in Nat : lo <= q /\ q < lo + Len(b) => At(g, q) = b[q - lo + 1]
        BY <1>4, <3>1, <3>2, OverlayWord
      <3> QED
        BY <1>2, <3>3 DEF lo
    <2>2. p - 2 + 1 = p - 1 /\ p - 2 - (p - 2) + 1 = 1
      OBVIOUS
    <2>3. Len(g) = Len(f)
      BY <1>0, <2>1, <2>2
    <2>4. At(g, p - 2) = b[1]
      BY <1>0, <2>1, <2>2
    <2>5. /\ At(g, p - 4) = At(f, p - 4) /\ At(g, p - 3) = At(f, p - 3) /\ At(g, p - 1) = At(f, p - 1)
      BY <1>0, <2>1
    <2>6. HeaderDone(g, p, mdatSize)
      BY <1>3, <1>7, <2>4, <2>5 DEF HeaderDone, HeaderBegun
    <2>7. \A q \in Nat : (q < p - 4 \/ p <= q) /\ q < Len(f) => At(g, q) = At(f, q)
      BY <1>0, <2>1
    <2> QED
      BY <1>1, <2>3, <2>6, <2>7 DEF g
  <1> QED
    BY <1>6, <1>7

(* A moov box at p with the tables as they are now. *)
MoovIn(f, p) ==
    /\ At(f, p) = <<"size", MoovLen(chunks)>>
    /\ At(f, p + 1) = <<"type", "moov">>
    /\ At(f, p + 2) = <<"tables", Tables(chunks)>>

(* What the file consists of, and how long it is. *)
LayoutInv ==
    /\ At(file, 0) = <<"size", 8>> /\ At(file, 1) = <<"type", "ftyp">>
    /\ pc \in {"write", "finalize", "mdat"} => HeaderBegun(file, 12)
    /\ pc \in {"write", "finalize", "mdat", "moov"} => Len(file) = 12 + mdatSize
    /\ pc \in {"moov", "patch", "front", "done"} => HeaderDone(file, mdatPos, mdatSize)
    /\ pc = "patch" => Len(file) = 12 + mdatSize + MoovLen(chunks)
    /\ pc = "done" /\ shiftBy = 0 =>
          /\ MoovIn(file, 12 + mdatSize)
          /\ Len(file) = 12 + mdatSize + MoovLen(chunks)
    /\ pc = "shift" =>
          /\ 12 + mdatSize <= Len(file) /\ Len(file) <= 12 + shiftBy + mdatSize
          /\ shiftEnd < 12 + mdatSize => Len(file) = 12 + shiftBy + mdatSize
    /\ pc \in {"front", "done"} /\ shiftBy > 0 => Len(file) = mdatPos + mdatSize
    /\ pc = "done" /\ shiftBy > 0 =>
          /\ MoovIn(file, 8)
          /\ At(file, 8 + MoovLen(chunks)) = <<"size", Slack>>
          /\ At(file, 9 + MoovLen(chunks)) = <<"type", "free">>

(* Word q of the media data, where it is now. *)
Media(q) ==
    IF q < mdatSize THEN At(file, Located(Base + q)) ELSE buffer[q - mdatSize + 1]

(* The media data are those of the samples, in order. *)
DataInv ==
    \A i \in 1 .. Len(samples) : \A k \in 1 .. samples[i] : \A q \in Nat :
        q = SumTo(samples, i - 1) + k - 1 => Media(q) = <<"data", i, k>>

(* Both hold as long as nothing has failed. *)
MediaInv ==
    /\ pc = "begin" => file = << >>
    /\ ~Failed /\ pc # "begin" => LayoutInv /\ DataInv

(* The words of a sample lie behind those of the samples before it, and *)
(* within those of all.                                                 *)
LEMMA SampleRange ==
    ASSUME NEW s \in Seq(Nat), NEW i \in 1 .. Len(s)
    PROVE  /\ s[i] \in Nat /\ SumTo(s, i - 1) \in Nat /\ SumTo(s, i) \in Nat
           /\ SumTo(s, i) = SumTo(s, i - 1) + s[i]
           /\ SumTo(s, i) <= SumTo(s, Len(s)) /\ SumTo(s, Len(s)) \in Nat
           /\ \A k \in 1 .. s[i] : /\ SumTo(s, i - 1) + k - 1 \in Nat
                                  /\ SumTo(s, i - 1) + k - 1 < SumTo(s, Len(s))
  <1>1. Len(s) \in Nat /\ i - 1 \in 0 .. Len(s) /\ i \in 0 .. Len(s) /\ Len(s) \in 0 .. Len(s)
        /\ s[i] \in Nat
    OBVIOUS
  <1>2. SumTo(s, i - 1) \in Nat /\ SumTo(s, i) \in Nat /\ SumTo(s, Len(s)) \in Nat
    BY <1>1, SumIsNat
  <1>3. SumTo(s, i) = SumTo(s, i - 1) + s[i]
    BY SumOfOneMore
  <1>4. SumTo(s, i) <= SumTo(s, Len(s))
    BY <1>1, SumGrows
  <1>5. ASSUME NEW k \in 1 .. s[i]
        PROVE  SumTo(s, i - 1) + k - 1 \in Nat /\ SumTo(s, i - 1) + k - 1 < SumTo(s, Len(s))
    <2>1. k \in Nat /\ 1 <= k /\ k <= s[i]
      BY <1>1
    <2>2. \A a, b, c, t \in Nat :
             1 <= b /\ b <= c /\ a + c <= t => a + b - 1 \in Nat /\ a + b - 1 < t
      OBVIOUS
    <2>3. SumTo(s, i - 1) + s[i] <= SumTo(s, Len(s))
      BY <1>3, <1>4
    <2> QED
      BY <1>1, <1>2, <2>1, <2>2, <2>3
  <1> QED
    BY <1>1, <1>2, <1>3, <1>4, <1>5

(* The media data are as long as the samples. *)
LEMMA Total ==
    ASSUME TypeInv, TableInv
    PROVE  SumTo(samples, Len(samples)) = mdatSize + Len(buffer)
  <1>1. /\ chunks \in Seq(Chunk) /\ samples \in Seq(Nat) /\ Len(chunks) \in Nat
        /\ Chain(chunks, samples)
    BY TypeFacts, SizesAreNat DEF TypeInv, TableInv
  <1>2. SumTo(SizesOf(chunks), Len(chunks)) = mdatSize + Len(buffer)
    BY DEF TableInv
  <1>3. CASE Len(chunks) = 0
    <2>1. CountsOf(chunks) \in Seq(Nat) /\ SizesOf(chunks) \in Seq(Nat)
      BY <1>1, ColumnFacts
    <2>2. SumTo(CountsOf(chunks), 0) = 0 /\ SumTo(SizesOf(chunks), 0) = 0 /\ SumTo(samples, 0) = 0
      BY <1>1, <2>1, SumOfNone
    <2> QED
      BY <1>1, <1>2, <1>3, <2>2 DEF Chain
  <1>4. CASE Len(chunks) # 0
    <2>1. Len(chunks) \in 1 .. Len(chunks)
      BY <1>1, <1>4
    <2> QED
      BY <1>1, <1>2, <2>1 DEF Chain
  <1> QED
    BY <1>3, <1>4

(* The media data are those of the same samples when no word of them *)
(* changes.                                                          *)
LEMMA MediaStays ==
    ASSUME TypeInv, TableInv, DataInv, samples' = samples,
           \A q \in Nat : q < mdatSize + Len(buffer) => Media(q)' = Media(q)
    PROVE  DataInv'
  <1>1. samples \in Seq(Nat)
    BY TypeFacts, SizesAreNat DEF TypeInv
  <1>2. ASSUME NEW i \in 1 .. Len(samples), NEW k \in 1 .. samples[i],
               NEW q \in Nat, q = SumTo(samples, i - 1) + k - 1
        PROVE  Media(q)' = <<"data", i, k>>
    <2>1. q < SumTo(samples, Len(samples))
      BY <1>1, <1>2, SampleRange
    <2>2. SumTo(samples, Len(samples)) = mdatSize + Len(buffer)
      BY Total
    <2>3. Media(q) = <<"data", i, k>>
      BY <1>2 DEF DataInv
    <2>4. Media(q)' = Media(q)
      BY <2>1, <2>2
    <2> QED
      BY <2>3, <2>4
  <1>3. \A i \in 1 .. Len(samples') : \A k \in 1 .. samples'[i] : \A q \in Nat :
           q = SumTo(samples', i - 1) + k - 1 => Media(q)' = <<"data", i, k>>
    BY <1>2
  <1> QED
    BY <1>3 DEF DataInv

(* Where a word of the media data is while they are not being moved, *)
LEMMA MediaPlain ==
    ASSUME TypeInv, pc # "shift", NEW q \in Nat
    PROVE  Media(q) = IF q < mdatSize THEN At(file, mdatPos + q)
                      ELSE buffer[q - mdatSize + 1]
  BY DEF Media, Located, Base

(* and after a step. *)
LEMMA MediaPlainNext ==
    ASSUME TypeInv', pc' # "shift", NEW q \in Nat
    PROVE  Media(q)' = IF q < mdatSize' THEN At(file', mdatPos' + q)
                       ELSE buffer'[q - mdatSize' + 1]
  BY DEF Media, Located, Base

(* Where it is while they are: not moved yet, or moved by shiftBy, *)
LEMMA MediaShift ==
    ASSUME TypeInv, pc = "shift", NEW q \in Nat, q < mdatSize
    PROVE  Media(q) = IF 12 + q < shiftEnd THEN At(file, 12 + q)
                      ELSE At(file, 12 + q + shiftBy)
  <1>1. mdatPos = 12 /\ shiftBy \in Nat
    BY TypeFacts DEF TypeInv, Places
  <1>2. \A b \in Nat : 12 + b + q - b = 12 + q /\ 12 + b + q = 12 + q + b
    OBVIOUS
  <1> DEFINE a == Base + q
  <1>3. a = 12 + q + shiftBy /\ a - shiftBy = 12 + q
    BY <1>1, <1>2 DEF Base
  <1>4. Media(q) = At(file, Located(a))
    BY DEF Media
  <1>5. Located(a) = IF pc = "shift" /\ a - shiftBy < shiftEnd THEN a - shiftBy ELSE a
    BY DEF Located
  <1> HIDE DEF a
  <1> QED
    BY <1>3, <1>4, <1>5

(* and after a step. *)
LEMMA MediaShiftNext ==
    ASSUME TypeInv', pc' = "shift", NEW q \in Nat, q < mdatSize'
    PROVE  Media(q)' = IF 12 + q < shiftEnd' THEN At(file', 12 + q)
                       ELSE At(file', 12 + q + shiftBy')
  <1>1. mdatPos' = 12 /\ shiftBy' \in Nat
    <2>1. /\ {pos', mdatPos', mdatSize', moovSize', shiftBy'} \subseteq Nat
          /\ mdatPos' = 12
      BY DEF TypeInv, TypeOK, Places
    <2> QED
      BY <2>1
  <1> DEFINE a == Base + q
  <1>b. PICK b \in Nat : b = shiftBy'
    BY <1>1
  <1>c. PICK c : c = a'
    OBVIOUS
  <1>2. b = shiftBy' /\ c = a'
    BY <1>b, <1>c
  <1>3. c = 12 + b + q
    <2>1. a' = mdatPos' + shiftBy' + q
      BY DEF Base
    <2> QED
      BY <1>1, <1>2, <2>1, Zenon
  <1>4. c = 12 + q + b /\ c - b = 12 + q
    BY <1>3
  <1>5. Located(a)' = IF pc' = "shift" /\ a' - shiftBy' < shiftEnd' THEN a' - shiftBy' ELSE a'
    BY DEF Located
  <1>6. Located(a)' = IF c - b < shiftEnd' THEN c - b ELSE c
    BY <1>2, <1>5, Zenon
  <1>7. Media(q)' = At(file', Located(a)')
    BY DEF Media
  <1>8. Located(a)' = IF 12 + q < shiftEnd' THEN 12 + q ELSE 12 + q + shiftBy'
    BY <1>2, <1>4, <1>6, Zenon
  <1> QED
    BY <1>7, <1>8, Zenon

(* A sample more. *)
LEMMA MediaGrows ==
    ASSUME TypeInv, TableInv, DataInv, NEW size \in Nat, samples' = Append(samples, size),
           \A q \in Nat : q < mdatSize + Len(buffer) => Media(q)' = Media(q),
           \A k \in 1 .. size : \A q \in Nat :
              q = mdatSize + Len(buffer) + k - 1 => Media(q)' = <<"data", Len(samples) + 1, k>>
    PROVE  DataInv'
  <1>1. samples \in Seq(Nat) /\ Len(samples) \in Nat
    BY TypeFacts, SizesAreNat DEF TypeInv
  <1>2. /\ Len(samples') = Len(samples) + 1
        /\ \A i \in 1 .. Len(samples) : samples'[i] = samples[i]
        /\ samples'[Len(samples) + 1] = size
    BY <1>1, AppendProperties
  <1>3. \A n \in 0 .. Len(samples) : SumTo(samples', n) = SumTo(samples, n)
    BY <1>1, SumAppend
  <1>4. SumTo(samples, Len(samples)) = mdatSize + Len(buffer)
    BY Total
  <1>5. ASSUME NEW i \in 1 .. Len(samples) + 1, NEW k \in 1 .. samples'[i],
               NEW q \in Nat, q = SumTo(samples', i - 1) + k - 1
        PROVE  Media(q)' = <<"data", i, k>>
    <2>1. CASE i = Len(samples) + 1
      <3>1. SumTo(samples', i - 1) = mdatSize + Len(buffer) /\ k \in 1 .. size
        BY <1>1, <1>2, <1>3, <1>4, <2>1
      <3>2. q = mdatSize + Len(buffer) + k - 1
        BY <1>5, <3>1
      <3> QED
        BY <2>1, <3>1, <3>2
    <2>2. CASE i # Len(samples) + 1
      <3>1. i \in 1 .. Len(samples) /\ i - 1 \in 0 .. Len(samples)
        BY <1>1, <2>2
      <3>2. k \in 1 .. samples[i] /\ q = SumTo(samples, i - 1) + k - 1
        BY <1>2, <1>3, <1>5, <3>1
      <3>3. q < SumTo(samples, Len(samples))
        BY <1>1, <3>1, <3>2, SampleRange
      <3>4. q < mdatSize + Len(buffer)
        BY <1>4, <3>3
      <3>5. Media(q) = <<"data", i, k>>
        BY <3>1, <3>2 DEF DataInv
      <3> QED
        BY <3>4, <3>5
    <2> QED
      BY <2>1, <2>2
  <1>6. \A i \in 1 .. Len(samples') : \A k \in 1 .. samples'[i] : \A q \in Nat :
           q = SumTo(samples', i - 1) + k - 1 => Media(q)' = <<"data", i, k>>
    BY <1>2, <1>5
  <1> QED
    BY <1>6 DEF DataInv

-----------------------------------------------------------------------------
(* The media data, step by step *)

(* The initial state. *)
LEMMA InitMedia == Init => MediaInv
  BY DEF Init, MediaInv

(* Each action keeps the media data and the layout of the file. *)
LEMMA BeginWriteMedia ==
    ASSUME TypeInv, TypeInv', MediaInv, BeginWrite, ~Failed, ~lastError'
    PROVE  LayoutInv' /\ DataInv'
  <1>1. /\ file = << >> /\ samples' = << >> /\ pc' = "write" /\ mdatSize' = 0
    BY DEF TypeInv, Places, NoSamples, BeginWrite, MediaInv
  <1>2. file' = Overlay(file, 0, Head0)
    BY DEF BeginWrite, Commit, Head0
  <1>3. IsWords(file) /\ Len(file) = 0
    BY <1>1, EmptyIsWords
  <1>4. /\ IsWords(Head0) /\ Len(Head0) = 12
        /\ Head0[1] = <<"size", 8>> /\ Head0[2] = <<"type", "ftyp">>
        /\ Head0[9] = <<"size", 2>> /\ Head0[10] = <<"type", "free">>
        /\ Head0[11] = <<"size", 0>> /\ Head0[12] = <<"type", "mdat">>
    <2>1. /\ Head0[1 + 8] = FreeAndMdat[1] /\ Head0[2 + 8] = FreeAndMdat[2]
          /\ Head0[3 + 8] = FreeAndMdat[3] /\ Head0[4 + 8] = FreeAndMdat[4]
      BY HeadFacts
    <2> QED
      BY <2>1, HeadFacts, HeaderFacts
  <1>5. /\ Len(file') = IF Len(file) >= 0 + Len(Head0) THEN Len(file) ELSE 0 + Len(Head0)
        /\ \A q \in Nat : 0 <= q /\ q < 0 + Len(Head0) => At(file', q) = Head0[q - 0 + 1]
    <2> DEFINE z == 0
    <2>1. z \in Nat /\ file' = Overlay(file, z, Head0)
      BY <1>2
    <2> HIDE DEF z
    <2> DEFINE g == Overlay(file, z, Head0)
    <2>4. g = Overlay(file, z, Head0)
      OBVIOUS
    <2> HIDE DEF g
    <2>2. /\ Len(g) = IF Len(file) >= z + Len(Head0) THEN Len(file) ELSE z + Len(Head0)
          /\ \A q \in Nat : z <= q /\ q < z + Len(Head0) => At(g, q) = Head0[q - z + 1]
      <3>1. IsWords(file) /\ IsWords(Head0) /\ z \in Nat
        BY <1>3, <1>4, <2>1
      <3> QED
        BY <2>4, <3>1, OverlayWord
    <2>3. file' = g
      BY <2>1 DEF g
    <2> QED
      BY <2>2, <2>3 DEF z
  <1> HIDE DEF Head0
  <1>6. Len(file') = 12 /\ \A q \in Nat : q < 12 => At(file', q) = Head0[q + 1]
    BY <1>3, <1>4, <1>5
  <1>7. /\ At(file', 0) = Head0[1] /\ At(file', 1) = Head0[2]
        /\ At(file', 8) = Head0[9] /\ At(file', 9) = Head0[10]
        /\ At(file', 10) = Head0[11] /\ At(file', 11) = Head0[12]
    BY <1>6
  <1>8. 12 - 4 = 8 /\ 12 - 3 = 9 /\ 12 - 2 = 10 /\ 12 - 1 = 11
    OBVIOUS
  <1>9. LayoutInv'
    BY <1>1, <1>4, <1>6, <1>7, <1>8 DEF LayoutInv, HeaderBegun
  <1>10. DataInv'
    BY <1>1, EmptyIsWords DEF DataInv
  <1> QED
    BY <1>9, <1>10

(* m4af_flush_chunk(): the buffer goes to the end of the file. *)
LEMMA FlushMedia ==
    ASSUME TypeInv, TypeInv', PlaceInv, LayoutInv, Pending, FlushChunk,
           ~Failed, ~lastError', pc' # "shift", mdatPos' = mdatPos
    PROVE  /\ mdatSize' = mdatSize + Len(buffer) /\ Len(buffer) \in Nat
           /\ Len(file') = 12 + mdatSize'
           /\ \A q \in Nat : q < 12 => At(file', q) = At(file, q)
           /\ \A q \in Nat : q < mdatSize + Len(buffer) => Media(q)' = Media(q)
  <1>1. /\ IsWords(file) /\ mdatSize \in Nat /\ mdatPos = 12
        /\ buffer \in Seq(BufferWords(samples))
        /\ pos = 12 + mdatSize /\ Len(file) = 12 + mdatSize
    BY TypeFacts DEF TypeInv, Places, Pending, PlaceInv, LayoutInv
  <1>2. IsWords(buffer)
    BY <1>1, BufferIsWords
  <1>3. /\ Len(buffer) \in Nat /\ mdatSize' = mdatSize + Len(buffer)
        /\ file' = Overlay(file, pos, buffer)
    BY FlushChunkFacts
  <1>4. pos \in Nat
    BY <1>1
  <1>5. /\ Len(file') = IF Len(file) >= pos + Len(buffer) THEN Len(file) ELSE pos + Len(buffer)
        /\ \A q \in Nat : (q < pos \/ pos + Len(buffer) <= q) /\ q < Len(file) =>
                             At(file', q) = At(file, q)
        /\ \A q \in Nat : pos <= q /\ q < pos + Len(buffer) => At(file', q) = buffer[q - pos + 1]
    BY <1>1, <1>2, <1>3, <1>4, OverlayWord
  <1>6. Len(file') = 12 + mdatSize'
    BY <1>1, <1>3, <1>5
  <1>7. \A q \in Nat : q < 12 + mdatSize => At(file', q) = At(file, q)
    BY <1>1, <1>5
  <1>8. ASSUME NEW q \in Nat, q < mdatSize + Len(buffer)
        PROVE  Media(q)' = Media(q)
    <2>1. Media(q)' = At(file', 12 + q)
      BY <1>1, <1>3, <1>8, MediaPlainNext
    <2>2. Media(q) = IF q < mdatSize THEN At(file, 12 + q) ELSE buffer[q - mdatSize + 1]
      BY <1>1, MediaPlain DEF Pending
    <2>3. CASE q < mdatSize
      <3>1. 12 + q \in Nat /\ 12 + q < 12 + mdatSize
        BY <1>1, <2>3
      <3> QED
        BY <1>7, <2>1, <2>2, <2>3, <3>1
    <2>4. CASE ~(q < mdatSize)
      <3>1. 12 + q \in Nat /\ pos <= 12 + q /\ 12 + q < pos + Len(buffer)
            /\ 12 + q - pos + 1 = q - mdatSize + 1
        BY <1>1, <1>3, <1>8, <2>4
      <3>2. At(file', 12 + q) = buffer[12 + q - pos + 1]
        <4>1. PICK c \in Nat : c = 12 + q
          OBVIOUS
        <4>2. pos <= c /\ c < pos + Len(buffer)
          BY <3>1, <4>1
        <4>3. At(file', c) = buffer[c - pos + 1]
          BY <1>5, <4>2
        <4>4. c - pos + 1 = q - mdatSize + 1
          BY <1>1, <4>1
        <4>5. At(file', 12 + q) = buffer[q - mdatSize + 1]
          BY <4>1, <4>3, <4>4, Zenon
        <4> QED
          BY <3>1, <4>5, Zenon
      <3> QED
        BY <2>1, <2>2, <2>4, <3>1, <3>2
    <2> QED
      BY <2>3, <2>4
  <1> QED
    BY <1>1, <1>3, <1>6, <1>7, <1>8

(* A sample in the last chunk leaves the file alone; one in a new chunk *)
(* flushes the chunk before it.                                         *)
LEMMA WriteSampleMedia ==
    ASSUME TypeInv, TypeInv', TableInv, PlaceInv, LayoutInv, DataInv,
           NEW size \in SampleSizes \union {0}, WriteSample(size),
           ~Failed, ~lastError'
    PROVE  LayoutInv' /\ DataInv'
  <1>1. /\ IsWords(file) /\ mdatSize \in Nat /\ mdatPos = 12
        /\ buffer \in Seq(BufferWords(samples)) /\ Len(buffer) \in Nat
        /\ samples \in Seq(Nat) /\ size \in Nat /\ Pending /\ pc = "write"
    <2>1. pc = "write" /\ Pending
      BY DEF WriteSample, Pending
    <2>2. TypeOK /\ IsWords(file) /\ mdatPos = 12
      BY <2>1 DEF TypeInv, Places
    <2> QED
      BY <2>1, <2>2, TypeFacts, SizesAreNat
  <1> DEFINE data == Data(Len(samples) + 1, size)
  <1>2. /\ samples' = Append(samples, size) /\ mdatPos' = mdatPos
        /\ IF StartsChunk THEN FlushChunk /\ buffer' = data
           ELSE buffer' = buffer \o data /\ UNCHANGED <<file, pos, mdatSize>>
        /\ pc' \in {"write", "finalize"}
    BY DEF WriteSample, Failed
  <1>3. /\ Len(data) = size
        /\ \A k \in 1 .. size : data[k] = <<"data", Len(samples) + 1, k>>
        /\ data \in Seq(BufferWords(samples')) /\ BufferWords(samples) \subseteq BufferWords(samples')
    BY <1>1, <1>2, BufferFacts
  <1> HIDE DEF data
  <1>4. mdatPos' = 12 /\ pc' # "shift"
    BY <1>1, <1>2
  <1>5. CASE StartsChunk
    <2>1. FlushChunk /\ buffer' = data
      BY <1>2, <1>5
    <2>2. /\ mdatSize' = mdatSize + Len(buffer)
          /\ Len(file') = 12 + mdatSize'
          /\ \A q \in Nat : q < 12 => At(file', q) = At(file, q)
          /\ \A q \in Nat : q < mdatSize + Len(buffer) => Media(q)' = Media(q)
      BY <1>1, <1>2, <1>4, <2>1, FlushMedia
    <2>3. ASSUME NEW k \in 1 .. size, NEW q \in Nat, q = mdatSize + Len(buffer) + k - 1
          PROVE  Media(q)' = <<"data", Len(samples) + 1, k>>
      <3>1. ~(q < mdatSize') /\ q - mdatSize' + 1 = k
        BY <1>1, <2>2, <2>3
      <3>2. Media(q)' = IF q < mdatSize' THEN At(file', mdatPos' + q)
                        ELSE buffer'[q - mdatSize' + 1]
        BY <1>4, MediaPlainNext
      <3>3. Media(q)' = data[k]
        BY <2>1, <3>1, <3>2
      <3> QED
        BY <1>3, <3>3
    <2>4. DataInv'
      BY <1>1, <1>2, <2>2, <2>3, MediaGrows
    <2>5. LayoutInv'
      BY <1>1, <1>2, <2>2 DEF LayoutInv, HeaderBegun
    <2> QED
      BY <2>4, <2>5
  <1>6. CASE ~StartsChunk
    <2>1. buffer' = buffer \o data /\ UNCHANGED <<file, pos, mdatSize>>
      BY <1>2, <1>6
    <2>2. /\ \A i \in 1 .. Len(buffer) : buffer'[i] = buffer[i]
          /\ \A k \in 1 .. size : buffer'[Len(buffer) + k] = data[k]
      <3>1. buffer \in Seq(BufferWords(samples'))
        BY <1>1, <1>3, SeqMonotonic
      <3>2. IsSeq(buffer) /\ IsSeq(data)
        BY <1>3, <3>1, IsSeqOfSeq
      <3>3. \A i \in 1 .. Len(buffer) + size :
               (buffer \o data)[i] = IF i <= Len(buffer) THEN buffer[i] ELSE data[i - Len(buffer)]
        BY <1>1, <1>3, <3>2, ConcatOfLen
      <3>4. ASSUME NEW k \in 1 .. size
            PROVE  /\ Len(buffer) + k \in 1 .. Len(buffer) + size /\ ~(Len(buffer) + k <= Len(buffer))
                   /\ Len(buffer) + k - Len(buffer) = k
        BY <1>1
      <3>5. ASSUME NEW k \in 1 .. size
            PROVE  buffer'[Len(buffer) + k] = data[k]
        <4> DEFINE j == Len(buffer) + k
        <4>1. j \in 1 .. Len(buffer) + size /\ ~(j <= Len(buffer)) /\ j - Len(buffer) = k
          BY <3>4
        <4> HIDE DEF j
        <4>2. buffer'[j] = data[k]
          BY <2>1, <3>3, <4>1
        <4> QED
          BY <4>2 DEF j
      <3>6. ASSUME NEW i \in 1 .. Len(buffer)
            PROVE  buffer'[i] = buffer[i]
        <4>1. i \in 1 .. Len(buffer) + size /\ i <= Len(buffer)
          BY <1>1
        <4> QED
          BY <2>1, <3>3, <4>1
      <3> QED
        BY <3>5, <3>6
    <2>3. ASSUME NEW q \in Nat
          PROVE  /\ Media(q)' = IF q < mdatSize THEN At(file, 12 + q) ELSE buffer'[q - mdatSize + 1]
                 /\ Media(q) = IF q < mdatSize THEN At(file, 12 + q) ELSE buffer[q - mdatSize + 1]
      BY <1>1, <1>4, <2>1, MediaPlain, MediaPlainNext
    <2>4. ASSUME NEW q \in Nat, q < mdatSize + Len(buffer)
          PROVE  Media(q)' = Media(q)
      <3>1. ~(q < mdatSize) => q - mdatSize + 1 \in 1 .. Len(buffer)
        BY <1>1, <2>4
      <3> QED
        BY <2>2, <2>3, <3>1
    <2>5. ASSUME NEW k \in 1 .. size, NEW q \in Nat, q = mdatSize + Len(buffer) + k - 1
          PROVE  Media(q)' = <<"data", Len(samples) + 1, k>>
      <3>1. ~(q < mdatSize) /\ q - mdatSize + 1 = Len(buffer) + k
        BY <1>1, <2>5
      <3> QED
        BY <1>3, <2>2, <2>3, <3>1
    <2>6. DataInv'
      BY <1>1, <1>2, <2>4, <2>5, MediaGrows
    <2>7. LayoutInv'
      BY <1>1, <1>2, <2>1 DEF LayoutInv
    <2> QED
      BY <2>6, <2>7
  <1> QED
    BY <1>5, <1>6

(* The last chunk is flushed. *)
LEMMA FinalizeFlushMedia ==
    ASSUME TypeInv, TypeInv', TableInv, PlaceInv, LayoutInv, DataInv,
           FinalizeFlush, ~Failed, ~lastError'
    PROVE  LayoutInv' /\ DataInv'
  <1>1. /\ Pending /\ FlushChunk /\ samples' = samples /\ mdatPos' = mdatPos /\ pc' = "mdat"
    BY DEF FinalizeFlush, Pending
  <1>2. /\ mdatSize' = mdatSize + Len(buffer) /\ Len(file') = 12 + mdatSize'
        /\ \A q \in Nat : q < 12 => At(file', q) = At(file, q)
        /\ \A q \in Nat : q < mdatSize + Len(buffer) => Media(q)' = Media(q)
    BY <1>1, FlushMedia
  <1>3. DataInv'
    BY <1>1, <1>2, MediaStays
  <1>4. LayoutInv'
    BY <1>1, <1>2 DEF LayoutInv, HeaderBegun, Pending
  <1> QED
    BY <1>3, <1>4

(* Nothing is in the buffer any more. *)
LEMMA MediaStaysInFile ==
    ASSUME TypeInv, TableInv, PlaceInv, DataInv, ~Pending, samples' = samples,
           \A q \in Nat : q < mdatSize => Media(q)' = Media(q)
    PROVE  DataInv'
  <1>1. Len(buffer) = 0 /\ mdatSize \in Nat
    BY EmptyIsWords, TypeFacts DEF PlaceInv, TypeInv
  <1>2. \A q \in Nat : q < mdatSize + Len(buffer) => Media(q)' = Media(q)
    BY <1>1
  <1> QED
    BY <1>2, MediaStays

(* The header of mdat is in front of the media data. *)
LEMMA FinalizeMdatMedia ==
    ASSUME TypeInv, TypeInv', TableInv, PlaceInv, LayoutInv, DataInv,
           FinalizeMdat, ~Failed, ~lastError'
    PROVE  LayoutInv' /\ DataInv'
  <1>1. /\ IsWords(file) /\ mdatSize \in Nat /\ mdatPos = 12
        /\ HeaderBegun(file, mdatPos) /\ Len(file) = 12 + mdatSize
        /\ ~Pending /\ pc # "shift"
    BY TypeFacts DEF TypeInv, Places, FinalizeMdat, LayoutInv, Pending
  <1>2. /\ file' = SizedMdat(file, mdatPos) /\ pc' = "moov"
        /\ UNCHANGED <<mdatPos, mdatSize, samples, buffer>>
    BY DEF FinalizeMdat, Commit
  <1>3. mdatPos \in Nat /\ mdatPos >= 4 /\ mdatPos <= Len(file)
    BY <1>1
  <1>4. /\ Len(file') = Len(file) /\ HeaderDone(file', mdatPos, mdatSize)
        /\ \A q \in Nat : (q < mdatPos - 4 \/ mdatPos <= q) /\ q < Len(file) =>
              At(file', q) = At(file, q)
    BY <1>1, <1>2, <1>3, SizedFacts
  <1>5. ASSUME NEW q \in Nat, q < mdatSize
        PROVE  Media(q)' = Media(q)
    <2>1. Media(q)' = At(file', 12 + q) /\ Media(q) = At(file, 12 + q)
      BY <1>1, <1>2, <1>5, MediaPlain, MediaPlainNext
    <2>2. 12 + q \in Nat /\ mdatPos <= 12 + q /\ 12 + q < Len(file)
      BY <1>1, <1>5
    <2> QED
      BY <1>4, <2>1, <2>2
  <1>6. At(file', 0) = At(file, 0) /\ At(file', 1) = At(file, 1)
    BY <1>1, <1>4
  <1>7. DataInv'
    BY <1>1, <1>2, <1>5, MediaStaysInFile
  <1>8. LayoutInv'
    BY <1>1, <1>2, <1>4, <1>6 DEF LayoutInv
  <1> QED
    BY <1>7, <1>8

(* A header of which no word changes. *)
LEMMA HeaderStays ==
    ASSUME NEW f, NEW g, NEW p \in Nat, NEW size, HeaderDone(f, p, size),
           \A j \in 1 .. 4 : At(g, p - j) = At(f, p - j)
    PROVE  HeaderDone(g, p, size)
  BY DEF HeaderDone

(* moov is written behind the media data. *)
LEMMA WriteMoovMedia ==
    ASSUME TypeInv, TypeInv', TableInv, PlaceInv, LayoutInv, DataInv,
           WriteMoov, ~Failed, ~lastError'
    PROVE  LayoutInv' /\ DataInv'
  <1>1. /\ IsWords(file) /\ mdatSize \in Nat /\ mdatPos = 12 /\ shiftBy = 0
        /\ HeaderDone(file, mdatPos, mdatSize) /\ Len(file) = 12 + mdatSize
        /\ ~Pending /\ pc # "shift" /\ pos = 12 + mdatSize
        /\ Len(chunks) \in Nat
    BY TypeFacts DEF TypeInv, Places, WriteMoov, LayoutInv, Pending, PlaceInv
  <1> DEFINE m == Moov(chunks)
             n == MoovLen(chunks)
  <1>2. /\ file' = Overlay(file, pos, m) /\ pc' \in {"patch", "done"}
        /\ UNCHANGED <<mdatPos, mdatSize, samples, buffer, chunks, shiftBy>>
    BY DEF WriteMoov, Commit
  <1>3. /\ IsWords(m) /\ Len(m) = n /\ n \in Nat /\ n >= 3
        /\ m[1] = <<"size", n>> /\ m[2] = <<"type", "moov">>
        /\ m[3] = <<"tables", Tables(chunks)>>
    BY <1>1, MoovFacts
  <1>4. pos \in Nat
    BY <1>1
  <1> HIDE DEF m, n
  <1>5. /\ Len(file') = IF Len(file) >= pos + Len(m) THEN Len(file) ELSE pos + Len(m)
        /\ \A q \in Nat : (q < pos \/ pos + Len(m) <= q) /\ q < Len(file) =>
                             At(file', q) = At(file, q)
        /\ \A q \in Nat : pos <= q /\ q < pos + Len(m) => At(file', q) = m[q - pos + 1]
    <2>1. IsWords(file) /\ IsWords(m) /\ file' = Overlay(file, pos, m)
      BY <1>1, <1>2, <1>3
    <2> QED
      BY <1>4, <2>1, OverlayWord
  <1>6. Len(file') = 12 + mdatSize + n
    BY <1>1, <1>3, <1>5
  <1>7. \A q \in Nat : q < 12 + mdatSize => At(file', q) = At(file, q)
    BY <1>1, <1>5
  <1>8. ASSUME NEW q \in Nat, q < mdatSize
        PROVE  Media(q)' = Media(q)
    <2>1. Media(q)' = At(file', 12 + q) /\ Media(q) = At(file, 12 + q)
      BY <1>1, <1>2, <1>8, MediaPlain, MediaPlainNext
    <2>2. 12 + q \in Nat /\ 12 + q < 12 + mdatSize
      BY <1>1, <1>8
    <2> QED
      BY <1>7, <2>1, <2>2
  <1>9. \A j \in 0 .. 11 : At(file', j) = At(file, j)
    BY <1>1, <1>7
  <1>10. HeaderDone(file', 12, mdatSize)
    <2>1. \A j \in 1 .. 4 : 12 - j \in 0 .. 11
      OBVIOUS
    <2>2. \A j \in 1 .. 4 : At(file', 12 - j) = At(file, 12 - j)
      BY <1>9, <2>1
    <2>3. HeaderDone(file, 12, mdatSize)
      BY <1>1
    <2> QED
      BY <2>2, <2>3, HeaderStays
  <1>11. MoovIn(file, 12 + mdatSize)'
    <2>1. /\ At(file', pos) = m[1] /\ At(file', pos + 1) = m[2] /\ At(file', pos + 2) = m[3]
      <3>1. /\ pos \in Nat /\ pos <= pos /\ pos < pos + Len(m) /\ pos - pos + 1 = 1
            /\ pos + 1 \in Nat /\ pos <= pos + 1 /\ pos + 1 < pos + Len(m) /\ pos + 1 - pos + 1 = 2
            /\ pos + 2 \in Nat /\ pos <= pos + 2 /\ pos + 2 < pos + Len(m) /\ pos + 2 - pos + 1 = 3
        BY <1>3, <1>4
      <3> QED
        BY <1>5, <3>1
    <2>2. MoovLen(chunks)' = n /\ Tables(chunks)' = Tables(chunks)
      BY <1>2 DEF n, MoovLen, Is64, Tables, RunStarts, Stored
    <2>3. pos = 12 + mdatSize /\ mdatSize' = mdatSize
      BY <1>1, <1>2
    <2>4. /\ At(file', 12 + mdatSize') = <<"size", MoovLen(chunks)'>>
          /\ At(file', 12 + mdatSize' + 1) = <<"type", "moov">>
          /\ At(file', 12 + mdatSize' + 2) = <<"tables", Tables(chunks)'>>
      BY <1>3, <2>1, <2>2, <2>3
    <2> QED
      BY <2>4 DEF MoovIn
  <1>12. DataInv'
    BY <1>1, <1>2, <1>8, MediaStaysInFile
  <1>13. MoovLen(chunks') = n
    BY <1>2 DEF n
  <1>15. At(file', 0) = At(file, 0) /\ At(file', 1) = At(file, 1)
    BY <1>9
  <1>16. At(file, 0) = <<"size", 8>> /\ At(file, 1) = <<"type", "ftyp">>
    BY DEF LayoutInv
  <1>17. shiftBy' = 0 /\ mdatPos' = 12 /\ mdatSize' = mdatSize
    BY <1>1, <1>2
  <1> HIDE DEF MoovIn, HeaderDone
  <1>14. LayoutInv'
    BY <1>2, <1>6, <1>10, <1>11, <1>13, <1>15, <1>16, <1>17 DEF LayoutInv
  <1> QED
    BY <1>12, <1>14

(* Nothing has been moved yet when the offsets are changed. *)
LEMMA PatchMoovMedia ==
    ASSUME TypeInv, TypeInv', TableInv, PlaceInv, LayoutInv, DataInv,
           PatchMoov, ~Failed
    PROVE  LayoutInv' /\ DataInv'
  <1>1. /\ IsWords(file) /\ mdatSize \in Nat /\ mdatPos = 12
        /\ Len(file) = 12 + mdatSize + MoovLen(chunks)
        /\ ~Pending /\ pc # "shift" /\ TypeOK /\ Len(chunks) \in Nat
    BY TypeFacts DEF TypeInv, Places, PatchMoov, LayoutInv, Pending
  <1>2. /\ pc' = "shift" /\ shiftEnd' = mdatPos + mdatSize
        /\ UNCHANGED <<file, mdatPos, mdatSize, samples, buffer>>
    BY DEF PatchMoov
  <1>3. /\ shiftBy' \in Nat /\ shiftBy' = MoovLen(chunks') + Slack /\ Len(chunks') = Len(chunks)
        /\ MoovLen(chunks) <= MoovLen(chunks')
    BY <1>1, PatchFacts, PatchMovesAsFar
  <1>4. MoovLen(chunks) \in Nat /\ MoovLen(chunks') \in Nat /\ Slack \in Nat
    <2>1. MoovLen(chunks) \in Nat
      BY <1>1, MoovFacts
    <2>2. MoovLen(chunks') \in Nat
      BY <1>1, <1>3, MoovFacts
    <2> QED
      BY <2>1, <2>2, M4afAssumption
  <1>5. MoovLen(chunks) <= shiftBy'
    BY <1>3, <1>4
  <1>6. ASSUME NEW q \in Nat, q < mdatSize
        PROVE  Media(q)' = Media(q)
    <2>1. Media(q) = At(file, 12 + q)
      BY <1>1, <1>6, MediaPlain
    <2>2. 12 + q < shiftEnd'
      BY <1>1, <1>2, <1>6
    <2>3. Media(q)' = At(file', 12 + q)
      BY <1>2, <1>6, <2>2, MediaShiftNext
    <2> QED
      BY <1>2, <2>1, <2>3
  <1>7. DataInv'
    BY <1>1, <1>2, <1>6, MediaStaysInFile
  <1>8. 12 + mdatSize <= Len(file) /\ Len(file) <= 12 + shiftBy' + mdatSize
        /\ ~(shiftEnd' < 12 + mdatSize)
    BY <1>1, <1>2, <1>3, <1>4, <1>5
  <1>9. LayoutInv'
    BY <1>2, <1>8 DEF LayoutInv
  <1> QED
    BY <1>7, <1>9

(* A block is read before any of its words is overwritten: the words from   *)
(* shiftEnd on have been moved, those before the start of the block are not *)
(* reached by the write.                                                    *)
LEMMA ShiftBlockMedia ==
    ASSUME TypeInv, TypeInv', TableInv, PlaceInv, LayoutInv, DataInv,
           ShiftBlock, ~Failed, ~Failed'
    PROVE  LayoutInv' /\ DataInv'
  <1> DEFINE s == BlockStart
             e == shiftEnd
             by == shiftBy
             size == mdatSize
             ws == WordsAt(s, e - s)
             f == file
  <1>1. /\ IsWords(f) /\ size \in Nat /\ mdatPos = 12 /\ by \in Nat /\ TypeOK
        /\ e \in Nat /\ e <= 12 + size /\ ~Pending
        /\ by = MoovLen(chunks) + Slack /\ pc = "shift" /\ Len(chunks) \in Nat
    <2>1. pc = "shift" /\ ~Pending
      BY DEF ShiftBlock, Pending
    <2>2. TypeOK /\ IsWords(f) /\ mdatPos = 12 /\ by = MoovLen(chunks) + Slack
      BY <2>1 DEF TypeInv, Places
    <2>3. size \in Nat /\ by \in Nat /\ shiftEnd \in 0 .. mdatPos + mdatSize /\ Len(chunks) \in Nat
      BY <2>2, TypeFacts
    <2> QED
      BY <2>1, <2>2, <2>3
  <1>2. /\ 12 + size <= Len(f) /\ Len(f) <= 12 + by + size
        /\ e < 12 + size => Len(f) = 12 + by + size
        /\ At(f, 0) = <<"size", 8>> /\ At(f, 1) = <<"type", "ftyp">>
    BY <1>1 DEF LayoutInv
  <1>3. s \in Nat /\ 12 <= s /\ s < e /\ e - s \in Nat
    <2>1. s \in Nat /\ 12 <= s
      BY <1>1, BlockStartFacts
    <2>2. s < e
      BY DEF ShiftBlock
    <2> QED
      BY <1>1, <2>1, <2>2
  <1>4. /\ file' = Overlay(f, s + by, ws) /\ pc' = "shift" /\ shiftEnd' = s
        /\ UNCHANGED <<mdatPos, mdatSize, samples, buffer, shiftBy>>
    BY DEF ShiftBlock, Commit, Failed
  <1>5. /\ IsWords(ws) /\ Len(ws) = e - s
        /\ \A k \in 1 .. e - s : ws[k] = WordAt(s + k - 1)
    <2> HIDE DEF s, e
    <2> QED
      BY <1>1, <1>3, WordsAtFacts DEF f
  <1>6. \A k \in 1 .. e - s : ws[k] = At(f, s + k - 1)
    <2>1. ASSUME NEW k \in 1 .. e - s
          PROVE  ws[k] = At(f, s + k - 1)
      <3>1. PICK p \in Nat : p = s + k - 1
        BY <1>3
      <3>2. WordAt(p) = At(file, p)
        BY <1>1, WordAtIsAt
      <3> HIDE DEF s, e, ws
      <3> QED
        BY <1>5, <3>1, <3>2, Zenon DEF f
    <2> QED
      BY <2>1
  <1>7. by > 0
    <2>1. MoovLen(chunks) \in Nat /\ MoovLen(chunks) >= 3
      BY <1>1, MoovFacts
    <2> QED
      BY <1>1, <2>1, M4afAssumption
  <1> HIDE DEF s, e, by, ws, f, size
  <1>8. PICK to \in Nat : to = s + by
    BY <1>1, <1>3
  <1>9. /\ Len(f) \in Nat
        /\ Len(file') = IF Len(f) >= to + Len(ws) THEN Len(f) ELSE to + Len(ws)
        /\ \A q \in Nat : (q < to \/ to + Len(ws) <= q) /\ q < Len(f) => At(file', q) = At(f, q)
        /\ \A q \in Nat : to <= q /\ q < to + Len(ws) => At(file', q) = ws[q - to + 1]
    <2>1. file' = Overlay(f, to, ws) /\ IsWords(f) /\ IsWords(ws)
      BY <1>1, <1>4, <1>5, <1>8
    <2> QED
      BY <2>1, OverlayWord
  <1>10. to + Len(ws) = e + by
    BY <1>1, <1>3, <1>5, <1>8
  <1>11. Len(file') = 12 + by + size
    <2>1. e + by <= 12 + by + size
      BY <1>1
    <2>2. CASE e < 12 + size
      <3>1. Len(f) >= e + by
        BY <1>1, <1>2, <2>1, <2>2
      <3> QED
        BY <1>2, <1>9, <1>10, <2>2, <3>1
    <2>3. CASE ~(e < 12 + size)
      <3>1. e + by = 12 + by + size
        BY <1>1, <2>3
      <3>2. Len(file') = IF Len(f) >= 12 + by + size THEN Len(f) ELSE 12 + by + size
        BY <1>9, <1>10, <3>1, Zenon
      <3>3. Len(f) \in Nat /\ Len(f) <= 12 + by + size /\ 12 + by + size \in Nat
        BY <1>1, <1>2, <1>9
      <3> QED
        BY <3>2, <3>3
    <2> QED
      BY <2>2, <2>3
  <1>12. \A q \in Nat : q < s + by /\ q < Len(f) => At(file', q) = At(f, q)
    BY <1>8, <1>9
  <1>13. \A q \in Nat : e + by <= q /\ q < Len(f) => At(file', q) = At(f, q)
    BY <1>9, <1>10
  <1>14. ASSUME NEW a \in Nat, s <= a, a < e
         PROVE  At(file', a + by) = At(f, a)
    <2>1. PICK q \in Nat : q = a + by
      BY <1>1
    <2>2. to <= q /\ q < to + Len(ws)
      <3>1. to = s + by /\ Len(ws) = e - s
        BY <1>5, <1>8
      <3>2. s \in Nat /\ e \in Nat /\ by \in Nat
        BY <1>1, <1>3
      <3> QED
        BY <1>14, <2>1, <3>1, <3>2
    <2>3. At(file', q) = ws[q - to + 1]
      BY <1>9, <2>2
    <2>4. PICK k \in 1 .. e - s : k = a - s + 1
      BY <1>1, <1>3, <1>14
    <2>5. q - to + 1 = k /\ s + k - 1 = a
      BY <1>1, <1>3, <1>8, <2>1, <2>4
    <2>6. ws[k] = At(f, s + k - 1)
      BY <1>6
    <2> QED
      BY <2>1, <2>3, <2>5, <2>6, Zenon
  <1>15. ASSUME NEW q \in Nat, q < size
         PROVE  Media(q)' = Media(q)
    <2>1. Media(q) = IF 12 + q < e THEN At(f, 12 + q) ELSE At(f, 12 + q + by)
      BY <1>1, <1>15, MediaShift DEF e, f, by, size
    <2>2. Media(q)' = IF 12 + q < s THEN At(file', 12 + q) ELSE At(file', 12 + q + by)
      <3>1. pc' = "shift" /\ q < mdatSize' /\ shiftEnd' = s /\ shiftBy' = by
        BY <1>4, <1>15 DEF size, by
      <3>2. Media(q)' = IF 12 + q < shiftEnd' THEN At(file', 12 + q) ELSE At(file', 12 + q + shiftBy')
        BY <3>1, MediaShiftNext
      <3> QED
        BY <3>1, <3>2
    <2>3. PICK a \in Nat : a = 12 + q
      OBVIOUS
    <2>4. /\ Media(q) = IF a < e THEN At(f, a) ELSE At(f, a + by)
          /\ Media(q)' = IF a < s THEN At(file', a) ELSE At(file', a + by)
      BY <2>1, <2>2, <2>3
    <2>5. a < 12 + size
      BY <1>1, <1>15, <2>3
    <2>6. CASE a < s
      <3>1. a < e /\ a < s + by /\ a < Len(f)
        BY <1>1, <1>2, <1>3, <1>9, <2>5, <2>6
      <3>2. At(file', a) = At(f, a)
        BY <1>12, <3>1
      <3> QED
        BY <2>4, <2>6, <3>1, <3>2
    <2>7. CASE ~(a < s) /\ a < e
      <3>1. s <= a
        BY <1>3, <2>7
      <3>2. At(file', a + by) = At(f, a)
        BY <1>14, <2>7, <3>1
      <3> QED
        BY <2>4, <2>7, <3>2
    <2>8. CASE ~(a < s) /\ ~(a < e)
      <3>1. PICK b \in Nat : b = a + by
        BY <1>1
      <3>2. e < 12 + size
        BY <1>1, <2>5, <2>8
      <3>3. Len(f) = 12 + by + size
        BY <1>2, <3>2
      <3>4. e + by <= b /\ b < Len(f)
        BY <1>1, <2>5, <2>8, <3>1, <3>3
      <3>5. At(file', b) = At(f, b)
        BY <1>13, <3>4
      <3> QED
        BY <2>4, <2>8, <3>1, <3>5
    <2> QED
      BY <2>6, <2>7, <2>8
  <1>16. DataInv'
    <2>1. samples' = samples /\ \A q \in Nat : q < mdatSize => Media(q)' = Media(q)
      BY <1>4, <1>15 DEF size
    <2> QED
      BY <1>1, <2>1, MediaStaysInFile
  <1>17. LayoutInv'
    <2>1. 0 < s + by /\ 0 < Len(f) /\ 1 < s + by /\ 1 < Len(f)
      BY <1>1, <1>2, <1>3, <1>9
    <2>2. At(file', 0) = <<"size", 8>> /\ At(file', 1) = <<"type", "ftyp">>
      BY <1>2, <1>12, <2>1
    <2>3. mdatSize' = size /\ shiftBy' = by /\ pc' = "shift"
      BY <1>4 DEF size, by
    <2>4. 12 + size <= 12 + by + size /\ 12 + by + size <= 12 + by + size
      BY <1>1
    <2> QED
      BY <1>11, <2>2, <2>3, <2>4 DEF LayoutInv
  <1> QED
    BY <1>16, <1>17

(* Everything has been moved when the new header is written in front of it. *)
LEMMA ShiftHeaderMedia ==
    ASSUME TypeInv, TypeInv', TableInv, PlaceInv, LayoutInv, DataInv,
           ShiftHeader, ~Failed, ~lastError'
    PROVE  LayoutInv' /\ DataInv'
  <1> DEFINE p == mdatPos + shiftBy
             by == shiftBy
             size == mdatSize
             f == Overlay(file, p - 4, FreeAndMdat)
  <1>1. /\ IsWords(file) /\ size \in Nat /\ mdatPos = 12 /\ by \in Nat /\ TypeOK
        /\ shiftEnd \in Nat /\ ~Pending
        /\ by = MoovLen(chunks) + Slack /\ pc = "shift" /\ Len(chunks) \in Nat
    <2>1. pc = "shift" /\ ~Pending
      BY DEF ShiftHeader, Pending
    <2>2. TypeOK /\ IsWords(file) /\ mdatPos = 12 /\ by = MoovLen(chunks) + Slack
      BY <2>1 DEF TypeInv, Places
    <2>3. size \in Nat /\ by \in Nat /\ shiftEnd \in 0 .. mdatPos + mdatSize /\ Len(chunks) \in Nat
      BY <2>2, TypeFacts
    <2> QED
      BY <2>1, <2>2, <2>3
  <1>2. /\ 12 + size <= Len(file) /\ Len(file) <= 12 + by + size
        /\ shiftEnd < 12 + size => Len(file) = 12 + by + size
        /\ At(file, 0) = <<"size", 8>> /\ At(file, 1) = <<"type", "ftyp">>
    BY <1>1 DEF LayoutInv
  <1>3. shiftEnd <= 12
    <2>1. ~(mdatPos < shiftEnd)
      <3>1. BlockStart >= shiftEnd /\ BlockStart \in Nat
        BY <1>1, BlockStartFacts DEF ShiftHeader
      <3>2. mdatPos < shiftEnd => BlockStart < shiftEnd
        BY <1>1, BlockStartFacts
      <3> QED
        BY <1>1, <3>1, <3>2
    <2> QED
      BY <1>1, <2>1
  <1>4. /\ file' = SizedMdat(f, p) /\ pc' = "front" /\ mdatPos' = p
        /\ UNCHANGED <<mdatSize, samples, buffer, shiftBy, chunks>>
    BY DEF ShiftHeader, Commit
  <1>5. by > 0
    <2>1. MoovLen(chunks) \in Nat /\ MoovLen(chunks) >= 3
      BY <1>1, MoovFacts
    <2> QED
      BY <1>1, <2>1, M4afAssumption
  <1>6. p = 12 + by /\ p \in Nat /\ p >= 4
    BY <1>1
  <1> HIDE DEF p, by, size
  <1>7. PICK lo \in Nat : lo = p - 4
    BY <1>6
  <1>8. /\ IsWords(f) /\ Len(file) \in Nat
        /\ Len(f) = IF Len(file) >= lo + 4 THEN Len(file) ELSE lo + 4
        /\ \A q \in Nat : (q < lo \/ lo + 4 <= q) /\ q < Len(file) => At(f, q) = At(file, q)
        /\ \A q \in Nat : lo <= q /\ q < lo + 4 => At(f, q) = FreeAndMdat[q - lo + 1]
    <2>1. f = Overlay(file, lo, FreeAndMdat)
      BY <1>7
    <2>2. IsWords(FreeAndMdat) /\ Len(FreeAndMdat) = 4
      BY HeaderFacts
    <2> HIDE DEF f
    <2>3. /\ IsWords(f) /\ Len(file) \in Nat
          /\ Len(f) = IF Len(file) >= lo + Len(FreeAndMdat) THEN Len(file) ELSE lo + Len(FreeAndMdat)
          /\ \A q \in Nat : (q < lo \/ lo + Len(FreeAndMdat) <= q) /\ q < Len(file) =>
                At(f, q) = At(file, q)
          /\ \A q \in Nat : lo <= q /\ q < lo + Len(FreeAndMdat) => At(f, q) = FreeAndMdat[q - lo + 1]
      <3>1. IsWords(file) /\ IsWords(FreeAndMdat)
        BY <1>1, <2>2
      <3> QED
        BY <2>1, <3>1, OverlayWord
    <2> QED
      BY <2>2, <2>3
  <1> HIDE DEF f
  <1>9. lo + 4 = p
    BY <1>6, <1>7
  <1>10. Len(f) = 12 + by + size
    <2>1. CASE Len(file) = 12 + by + size
      BY <1>1, <1>6, <1>8, <1>9, <2>1
    <2>2. CASE Len(file) # 12 + by + size
      <3>1. ~(shiftEnd < 12 + size)
        BY <1>2, <2>2
      <3>2. size = 0
        BY <1>1, <1>3, <3>1
      <3>3. Len(file) <= p
        BY <1>1, <1>2, <1>6, <3>2
      <3> QED
        BY <1>1, <1>6, <1>8, <1>9, <3>2, <3>3
    <2> QED
      BY <2>1, <2>2
  <1>11. HeaderBegun(f, p)
    <2>1. /\ p - 4 \in Nat /\ lo <= p - 4 /\ p - 4 < lo + 4 /\ p - 4 - lo + 1 = 1
          /\ p - 3 \in Nat /\ lo <= p - 3 /\ p - 3 < lo + 4 /\ p - 3 - lo + 1 = 2
          /\ p - 2 \in Nat /\ lo <= p - 2 /\ p - 2 < lo + 4 /\ p - 2 - lo + 1 = 3
          /\ p - 1 \in Nat /\ lo <= p - 1 /\ p - 1 < lo + 4 /\ p - 1 - lo + 1 = 4
      <3>1. \A l \in Nat :
               /\ l + 4 - 4 = l /\ l + 4 - 3 = l + 1 /\ l + 4 - 2 = l + 2 /\ l + 4 - 1 = l + 3
               /\ l - l + 1 = 1 /\ l + 1 - l + 1 = 2 /\ l + 2 - l + 1 = 3 /\ l + 3 - l + 1 = 4
        OBVIOUS
      <3>2. p - 4 = lo /\ p - 3 = lo + 1 /\ p - 2 = lo + 2 /\ p - 1 = lo + 3
        BY <1>9, <3>1
      <3> QED
        BY <3>1, <3>2
    <2>2. /\ At(f, p - 4) = FreeAndMdat[1] /\ At(f, p - 3) = FreeAndMdat[2]
          /\ At(f, p - 2) = FreeAndMdat[3] /\ At(f, p - 1) = FreeAndMdat[4]
      BY <1>8, <2>1
    <2> QED
      BY <2>2, HeaderFacts DEF HeaderBegun
  <1>12. p <= Len(f)
    BY <1>1, <1>6, <1>10
  <1>13. /\ Len(file') = Len(f) /\ HeaderDone(file', p, size)
         /\ \A q \in Nat : (q < p - 4 \/ p <= q) /\ q < Len(f) => At(file', q) = At(f, q)
    <2>1. mdatSize \in Nat
      BY <1>1 DEF size
    <2> QED
      BY <1>4, <1>6, <1>8, <1>11, <1>12, <2>1, SizedFacts DEF size
  <1>14. ASSUME NEW q \in Nat, q < lo \/ p <= q, q < Len(file), q < Len(f)
         PROVE  At(file', q) = At(file, q)
    <2>1. At(f, q) = At(file, q)
      BY <1>8, <1>9, <1>14
    <2>2. At(file', q) = At(f, q)
      BY <1>7, <1>13, <1>14
    <2> QED
      BY <2>1, <2>2
  <1>15. ASSUME NEW q \in Nat, q < size
         PROVE  Media(q)' = Media(q)
    <2>1. PICK a \in Nat : a = 12 + q + by
      BY <1>1
    <2>2. Media(q) = At(file, a)
      <3>1. ~(12 + q < shiftEnd)
        BY <1>1, <1>3
      <3>2. Media(q) = IF 12 + q < shiftEnd THEN At(file, 12 + q) ELSE At(file, 12 + q + shiftBy)
        BY <1>1, <1>15, MediaShift DEF size
      <3> QED
        BY <2>1, <3>1, <3>2 DEF by
    <2>3. Media(q)' = At(file', a)
      <3>1. mdatPos' + q = a
        BY <1>1, <1>4, <1>6, <2>1
      <3>2. q < mdatSize' /\ pc' # "shift"
        BY <1>4, <1>15 DEF size
      <3>3. Media(q)' = IF q < mdatSize' THEN At(file', mdatPos' + q)
                        ELSE buffer'[q - mdatSize' + 1]
        BY <3>2, MediaPlainNext
      <3> QED
        BY <3>1, <3>2, <3>3, Zenon
    <2>4. Len(file) = 12 + by + size
      <3>1. shiftEnd < 12 + size
        BY <1>1, <1>3, <1>15
      <3> QED
        BY <1>2, <3>1
    <2>5. p <= a /\ a < Len(file) /\ a < Len(f)
      <3>1. size \in Nat /\ by \in Nat /\ q < size
        BY <1>1, <1>15
      <3>2. a = p + q /\ p = 12 + by
        BY <1>6, <2>1, <3>1
      <3>3. p <= a /\ a < Len(file)
        BY <2>4, <3>1, <3>2
      <3>4. Len(f) = Len(file)
        BY <1>10, <2>4
      <3> QED
        BY <3>3, <3>4
    <2> QED
      BY <1>14, <2>2, <2>3, <2>5
  <1>16. DataInv'
    <2>1. samples' = samples /\ \A q \in Nat : q < mdatSize => Media(q)' = Media(q)
      BY <1>4, <1>15 DEF size
    <2> QED
      BY <1>1, <2>1, MediaStaysInFile
  <1>17. LayoutInv'
    <2>1. /\ 0 < lo /\ 0 < Len(file) /\ 0 < Len(f)
          /\ 1 < lo /\ 1 < Len(file) /\ 1 < Len(f)
      <3>1. 8 <= lo /\ 12 <= Len(f)
        <4>1. lo = 8 + by
          BY <1>1, <1>6, <1>9
        <4> QED
          BY <1>1, <1>10, <4>1
      <3>2. 12 <= Len(file) /\ Len(file) \in Nat /\ Len(f) \in Nat
        <4>1. Len(file) \in Nat /\ IsWords(f)
          BY <1>8
        <4>2. Len(f) \in Nat
          BY <4>1 DEF IsWords, IsSeq
        <4> QED
          BY <1>1, <1>2, <4>1, <4>2
      <3> QED
        BY <3>1, <3>2
    <2>2. At(file', 0) = <<"size", 8>> /\ At(file', 1) = <<"type", "ftyp">>
      BY <1>2, <1>14, <2>1
    <2>3. /\ mdatSize' = size /\ mdatPos' = p /\ pc' = "front"
          /\ Len(file') = p + size
      BY <1>1, <1>4, <1>6, <1>10, <1>13 DEF size
    <2> HIDE DEF HeaderDone
    <2> QED
      BY <1>13, <2>2, <2>3 DEF LayoutInv
  <1> QED
    BY <1>16, <1>17

(* moov and the free box end before the header of the moved mdat. *)
LEMMA WriteMoovFrontMedia ==
    ASSUME TypeInv, TypeInv', TableInv, PlaceInv, LayoutInv, DataInv,
           WriteMoovFront, ~Failed, ~lastError'
    PROVE  LayoutInv' /\ DataInv'
  <1> DEFINE n == MoovLen(chunks)
             m == Moov(chunks)
             free == 8 + MoovLen(chunks)
             f == Overlay(file, 8, Moov(chunks))
             w == <<<<"size", FreeLen(free)>>, <<"type", "free">>>>
  <1>1. /\ IsWords(file) /\ mdatSize \in Nat /\ mdatPos \in Nat /\ Len(chunks) \in Nat
        /\ mdatPos = 12 + shiftBy /\ shiftBy = n + Slack /\ shiftBy \in Nat
        /\ pc = "front" /\ ~Pending
    <2>1. pc = "front" /\ ~Pending
      BY DEF WriteMoovFront, Pending
    <2>2. TypeOK /\ IsWords(file) /\ mdatPos = 12 + shiftBy /\ shiftBy = n + Slack
      BY <2>1 DEF TypeInv, Places
    <2> QED
      BY <2>1, <2>2, TypeFacts
  <1>2. /\ n \in Nat /\ n >= 3 /\ IsWords(m) /\ Len(m) = n
        /\ m[1] = <<"size", n>> /\ m[2] = <<"type", "moov">>
        /\ m[3] = <<"tables", Tables(chunks)>>
    BY <1>1, MoovFacts
  <1>3. Slack \in Nat /\ Slack >= 2
    BY M4afAssumption
  <1>4. FreeLen(free) = Slack
    <2>1. FreeLen(free) = mdatPos - free - 4
      BY DEF FreeLen
    <2>2. \A a, b \in Nat : 12 + (a + b) - (8 + a) - 4 = b
      OBVIOUS
    <2>3. mdatPos = 12 + (n + Slack)
      BY <1>1
    <2> QED
      BY <1>2, <1>3, <2>1, <2>2, <2>3
  <1>5. /\ file' = Overlay(f, free, w) /\ pc' = "done"
        /\ UNCHANGED <<mdatPos, mdatSize, samples, buffer, shiftBy, chunks>>
    BY DEF WriteMoovFront, Commit
  <1>6. IsWords(w) /\ Len(w) = 2 /\ w[1] = <<"size", Slack>> /\ w[2] = <<"type", "free">>
    <2>1. IsSeq(w) /\ Len(w) = 2
      BY ShortSeqs
    <2>2. w[1] = <<"size", Slack>> /\ w[2] = <<"type", "free">>
      BY <1>4
    <2>3. SizeOK(<<"size", Slack>>) /\ SizeOK(<<"type", "free">>)
      BY <1>3 DEF SizeOK
    <2>4. \A i \in 1 .. 2 : i \in {1, 2}
      OBVIOUS
    <2> HIDE DEF w
    <2> QED
      BY <2>1, <2>2, <2>3, <2>4 DEF IsWords
  <1>7. Len(file) = mdatPos + mdatSize /\ HeaderDone(file, mdatPos, mdatSize)
        /\ At(file, 0) = <<"size", 8>> /\ At(file, 1) = <<"type", "ftyp">>
    <2>1. shiftBy > 0
      BY <1>1, <1>2, <1>3
    <2> HIDE DEF HeaderDone
    <2> QED
      BY <1>1, <2>1 DEF LayoutInv
  <1>8. free = 8 + n /\ free \in Nat
    BY <1>2
  <1> HIDE DEF free, w
  <1>9. PICK e \in Nat : e = 8
    OBVIOUS
  <1>10. f = Overlay(file, e, m)
    BY <1>9
  <1> HIDE DEF n, m, f
  <1>11. /\ IsWords(f) /\ Len(file) \in Nat
         /\ Len(f) = IF Len(file) >= e + Len(m) THEN Len(file) ELSE e + Len(m)
         /\ \A q \in Nat : (q < e \/ e + Len(m) <= q) /\ q < Len(file) => At(f, q) = At(file, q)
         /\ \A q \in Nat : e <= q /\ q < e + Len(m) => At(f, q) = m[q - e + 1]
    <2>1. IsWords(file) /\ IsWords(m)
      BY <1>1, <1>2
    <2> QED
      BY <1>10, <2>1, OverlayWord
  <1>12. e + Len(m) = free /\ free + 2 <= mdatPos - 4 /\ mdatPos - 4 \in Nat /\ 11 <= free
    <2>1. e + Len(m) = 8 + n
      BY <1>2, <1>9
    <2>2. mdatPos = 12 + (n + Slack)
      BY <1>1
    <2> QED
      BY <1>2, <1>3, <1>8, <2>1, <2>2
  <1>b. /\ free + 6 <= mdatPos /\ free \in Nat /\ mdatPos \in Nat /\ mdatSize \in Nat
        /\ Len(file) = mdatPos + mdatSize /\ 11 <= free
    <2>1. mdatPos - 4 \in Nat /\ mdatPos \in Nat /\ mdatSize \in Nat
      BY <1>1, <1>12
    <2>2. free + 2 <= mdatPos - 4 /\ free \in Nat /\ 11 <= free
      BY <1>8, <1>12
    <2>3. free + 6 <= mdatPos
      BY <2>1, <2>2
    <2> QED
      BY <1>7, <2>1, <2>2, <2>3
  <1>c. e + Len(m) <= Len(file) /\ free + 2 <= Len(file) /\ Len(file) \in Nat
    <2>1. e + Len(m) = free
      BY <1>12
    <2> QED
      BY <1>b, <2>1
  <1>13. Len(f) = Len(file)
    <2>1. Len(f) = IF Len(file) >= e + Len(m) THEN Len(file) ELSE e + Len(m)
      BY <1>11
    <2>2. Len(file) >= e + Len(m)
      <3>1. e + Len(m) \in Nat
        BY <1>8, <1>12
      <3> QED
        BY <1>c, <3>1
    <2> QED
      BY <2>1, <2>2
  <1>14. /\ Len(file') = IF Len(f) >= free + Len(w) THEN Len(f) ELSE free + Len(w)
         /\ \A q \in Nat : (q < free \/ free + Len(w) <= q) /\ q < Len(f) =>
                              At(file', q) = At(f, q)
         /\ \A q \in Nat : free <= q /\ q < free + Len(w) => At(file', q) = w[q - free + 1]
    <2>1. IsWords(f) /\ IsWords(w) /\ free \in Nat /\ file' = Overlay(f, free, w)
      BY <1>5, <1>6, <1>8, <1>11
    <2> QED
      BY <2>1, OverlayWord
  <1>15. Len(file') = Len(file)
    <2>1. Len(file') = IF Len(file) >= free + 2 THEN Len(file) ELSE free + 2
      BY <1>6, <1>13, <1>14
    <2> QED
      BY <1>b, <1>c, <2>1
  <1>16. ASSUME NEW q \in Nat, q < 8 \/ free + 2 <= q, q < Len(file)
         PROVE  At(file', q) = At(file, q)
    <2>1. q < e \/ e + Len(m) <= q
      BY <1>9, <1>12, <1>16, <1>b
    <2>2. q < free \/ free + Len(w) <= q
      BY <1>6, <1>16, <1>b
    <2>3. At(f, q) = At(file, q)
      BY <1>11, <1>16, <2>1
    <2>4. At(file', q) = At(f, q)
      BY <1>13, <1>14, <1>16, <2>2
    <2> QED
      BY <2>3, <2>4
  <1>17. ASSUME NEW q \in Nat, 8 <= q, q < free
         PROVE  At(file', q) = m[q - 8 + 1]
    <2>1. q < Len(f)
      BY <1>13, <1>17, <1>b, <1>c
    <2>2. At(file', q) = At(f, q)
      BY <1>14, <1>17, <2>1
    <2>3. At(f, q) = m[q - e + 1]
      BY <1>9, <1>11, <1>12, <1>17
    <2> QED
      BY <1>9, <2>2, <2>3
  <1>18. ASSUME NEW q \in Nat, q < mdatSize
         PROVE  Media(q)' = Media(q)
    <2>1. PICK a \in Nat : a = mdatPos + q
      BY <1>1
    <2>2. Media(q) = At(file, a)
      <3>1. Media(q) = IF q < mdatSize THEN At(file, mdatPos + q) ELSE buffer[q - mdatSize + 1]
        BY <1>1, MediaPlain
      <3> QED
        BY <1>18, <2>1, <3>1
    <2>3. Media(q)' = At(file', a)
      <3>1. pc' # "shift"
        BY <1>5
      <3>2. Media(q)' = IF q < mdatSize' THEN At(file', mdatPos' + q)
                        ELSE buffer'[q - mdatSize' + 1]
        BY <3>1, MediaPlainNext
      <3> QED
        BY <1>5, <1>18, <2>1, <3>2
    <2>4. free + 2 <= a /\ a < Len(file)
      BY <1>18, <1>b, <2>1
    <2> QED
      BY <1>16, <2>2, <2>3, <2>4
  <1>19. DataInv'
    BY <1>1, <1>5, <1>18, MediaStaysInFile
  <1>20. HeaderDone(file', mdatPos, mdatSize)
    <2>1. ASSUME NEW j \in 1 .. 4
          PROVE  At(file', mdatPos - j) = At(file, mdatPos - j)
      <3>1. /\ mdatPos - j \in Nat /\ free + 2 <= mdatPos - j /\ mdatPos - j < Len(file)
        BY <1>b
      <3> QED
        BY <1>16, <3>1
    <2> QED
      BY <1>1, <1>7, <2>1, HeaderStays
  <1>21. At(file', 0) = <<"size", 8>> /\ At(file', 1) = <<"type", "ftyp">>
    <2>1. 0 < Len(file) /\ 1 < Len(file)
      BY <1>b
    <2> HIDE DEF HeaderDone
    <2>2. At(file', 0) = At(file, 0) /\ At(file', 1) = At(file, 1)
      BY <1>16, <2>1
    <2> QED
      BY <1>7, <2>2
  <1>22. MoovIn(file, 8)'
    <2>1. 8 < free /\ 9 < free /\ 10 < free
      BY <1>8, <1>12
    <2>2. At(file', 8) = m[1] /\ At(file', 9) = m[2] /\ At(file', 10) = m[3]
      BY <1>17, <2>1
    <2>3. MoovLen(chunks)' = n /\ Tables(chunks)' = Tables(chunks)
      BY <1>5 DEF n, MoovLen, Is64, Tables, RunStarts, Stored
    <2>4. /\ At(file', 8) = <<"size", MoovLen(chunks)'>>
          /\ At(file', 8 + 1) = <<"type", "moov">>
          /\ At(file', 8 + 2) = <<"tables", Tables(chunks)'>>
      BY <1>2, <2>2, <2>3
    <2> QED
      BY <2>4 DEF MoovIn
  <1>23. At(file', 8 + n) = <<"size", Slack>> /\ At(file', 9 + n) = <<"type", "free">>
    <2>1. /\ free - free + 1 = 1 /\ free + 1 - free + 1 = 2 /\ free + 1 \in Nat
          /\ free < free + Len(w) /\ free <= free + 1 /\ free + 1 < free + Len(w)
      BY <1>6, <1>8
    <2>2. At(file', free) = w[1] /\ At(file', free + 1) = w[2]
      <3>1. PICK g \in Nat : g = free + 1
        BY <2>1
      <3>2. \A q \in Nat : free <= q /\ q < free + Len(w) => At(file', q) = w[q - free + 1]
        BY <1>14
      <3>3. At(file', free) = w[free - free + 1]
        <4>1. free \in Nat /\ free <= free /\ free < free + Len(w)
          BY <1>8, <2>1
        <4> QED
          BY <3>2, <4>1
      <3>4. At(file', g) = w[g - free + 1]
        <4>1. free <= g /\ g < free + Len(w)
          BY <2>1, <3>1
        <4> QED
          BY <3>2, <4>1
      <3>5. free - free + 1 = 1 /\ g - free + 1 = 2
        BY <1>8, <3>1
      <3> QED
        BY <3>1, <3>3, <3>4, <3>5
    <2>3. free + 1 = 9 + n
      BY <1>2, <1>8
    <2> QED
      BY <1>6, <1>8, <2>2, <2>3
  <1>24. MoovLen(chunks') = n /\ mdatPos' = mdatPos /\ mdatSize' = mdatSize
    BY <1>5 DEF n
  <1>25. shiftBy' # 0 /\ shiftBy' = shiftBy
    BY <1>1, <1>2, <1>3, <1>5
  <1> HIDE DEF MoovIn, HeaderDone
  <1>26. LayoutInv'
    BY <1>5, <1>7, <1>15, <1>20, <1>21, <1>22, <1>23, <1>24, <1>25 DEF LayoutInv
  <1> QED
    BY <1>19, <1>26

(* A step keeps MediaInv, *)
LEMMA NextMediaInv ==
    TypeInv /\ ChunkInv /\ MediaInv /\ [Next]_vars => MediaInv'
  <1> SUFFICES ASSUME TypeInv, ChunkInv, MediaInv, [Next]_vars PROVE MediaInv'
    OBVIOUS
  <1>1. TypeInv'
    BY NextTypeInv
  <1>2. CASE UNCHANGED vars
    <2>1. UNCHANGED <<LayoutInv, DataInv>>
      <3>1. UNCHANGED LayoutInv
        BY <1>2 DEF LayoutInv, HeaderBegun, HeaderDone, MoovIn, Tables, RunStarts, Stored,
           Is64, MoovLen, vars
      <3>2. \A q : Media(q)' = Media(q)
        BY <1>2 DEF Media, Located, Base, vars
      <3>3. samples' = samples
        BY <1>2 DEF vars
      <3>4. UNCHANGED DataInv
        BY <3>2, <3>3 DEF DataInv
      <3> QED
        BY <3>1, <3>4
    <2>2. UNCHANGED <<pc, file, Failed>>
      BY <1>2 DEF Failed, vars
    <2> QED
      BY <2>1, <2>2 DEF MediaInv
  <1>3. CASE Next /\ pc = "begin" /\ ~BeginWrite
    <2>1. UNCHANGED vars
      BY <1>3 DEF Next, WriteSample, FinalizeFlush, FinalizeMdat, WriteMoov, PatchMoov,
         ShiftBlock, ShiftHeader, WriteMoovFront, Stopped
    <2> QED
      BY <1>2, <2>1
  <1>4. CASE Next /\ (pc # "begin" \/ BeginWrite)
    <2>1. pc' # "begin"
      BY <1>4 DEF Next, BeginWrite, WriteSample, FinalizeFlush, FinalizeMdat, WriteMoov,
         PatchMoov, ShiftBlock, ShiftHeader, WriteMoovFront, Stopped, vars
    <2>2. ASSUME ~Failed'
          PROVE  LayoutInv' /\ DataInv'
      <3>1. ~Failed /\ ~lastError' /\ ~readFailed'
        BY <1>4, <2>2, FailedStays
      <3>2. CASE BeginWrite
        BY <1>1, <3>1, <3>2, BeginWriteMedia
      <3>3. CASE ~BeginWrite
        <4>1. TableInv /\ PlaceInv /\ LayoutInv /\ DataInv
          BY <1>4, <3>1, <3>3 DEF ChunkInv, MediaInv
        <4>2. CASE \E size \in SampleSizes \union {0} : WriteSample(size)
          BY <1>1, <3>1, <4>1, <4>2, WriteSampleMedia
        <4>3. CASE FinalizeFlush
          BY <1>1, <3>1, <4>1, <4>3, FinalizeFlushMedia
        <4>4. CASE FinalizeMdat
          BY <1>1, <3>1, <4>1, <4>4, FinalizeMdatMedia
        <4>5. CASE WriteMoov
          BY <1>1, <3>1, <4>1, <4>5, WriteMoovMedia
        <4>6. CASE PatchMoov
          BY <1>1, <3>1, <4>1, <4>6, PatchMoovMedia
        <4>7. CASE ShiftBlock
          BY <1>1, <2>2, <3>1, <4>1, <4>7, ShiftBlockMedia
        <4>8. CASE ShiftHeader
          BY <1>1, <3>1, <4>1, <4>8, ShiftHeaderMedia
        <4>9. CASE WriteMoovFront
          BY <1>1, <3>1, <4>1, <4>9, WriteMoovFrontMedia
        <4>10. CASE Stopped
          <5>1. MediaInv' /\ pc # "begin"
            BY <1>2, <4>10 DEF Stopped
          <5> QED
            BY <2>1, <2>2, <5>1 DEF MediaInv
        <4> QED
          BY <1>4, <3>3, <4>2, <4>3, <4>4, <4>5, <4>6, <4>7, <4>8, <4>9, <4>10 DEF Next
      <3> QED
        BY <3>2, <3>3
    <2> QED
      BY <2>1, <2>2 DEF MediaInv
  <1> QED
    BY <1>2, <1>3, <1>4

(* so it always holds. *)
LEMMA MediaInvAlways == Spec => [](TypeInv /\ ChunkInv /\ MediaInv)
  <1>1. Init => MediaInv
    BY InitMedia
  <1>2. TypeInv /\ ChunkInv /\ MediaInv /\ [Next]_vars => MediaInv'
    BY NextMediaInv
  <1> QED
    BY <1>1, <1>2, ChunkInvAlways, PTL DEF Spec

(* The data of the first j chunks are those of the samples in them. *)
LEMMA SizesAndSamples ==
    ASSUME NEW t \in Seq(Chunk), NEW s \in Seq(Nat), Chain(t, s), NEW j \in 0 .. Len(t)
    PROVE  SumTo(SizesOf(t), j) = SumTo(s, SumTo(CountsOf(t), j))
  <1>1. CountsOf(t) \in Seq(Nat) /\ SizesOf(t) \in Seq(Nat) /\ Len(t) \in Nat
    BY ColumnFacts
  <1>2. CASE j = 0
    <2>1. SumTo(CountsOf(t), 0) = 0 /\ SumTo(SizesOf(t), 0) = 0 /\ SumTo(s, 0) = 0
      BY <1>1, SumOfNone
    <2> QED
      BY <1>2, <2>1
  <1>3. CASE j # 0
    <2>1. j \in 1 .. Len(t)
      BY <1>1, <1>3
    <2> QED
      BY <2>1 DEF Chain
  <1> QED
    BY <1>2, <1>3

(* The chunk a sample is in, and how far into it the sample begins. *)
LEMMA PlaceFacts ==
    ASSUME NEW t \in Seq(Chunk), NEW s \in Seq(Nat), Chain(t, s), NEW i \in 1 .. Len(s)
    PROVE  LET p == Place(CountsOf(t), s, i)
           IN  /\ p.chunk \in 1 .. Len(t)
               /\ p.skip = SumTo(s, i - 1) - SumTo(SizesOf(t), p.chunk - 1)
               /\ SumTo(SizesOf(t), p.chunk - 1) <= SumTo(s, i - 1)
               /\ SumTo(s, i) <= SumTo(SizesOf(t), p.chunk)
  <1> DEFINE counts == CountsOf(t)
             T == {j \in DOMAIN counts : SumTo(counts, j) >= i}
             c == Min(T)
             before == SumTo(counts, c - 1)
             upto == SumTo(counts, c)
  <1>1. /\ Len(t) \in Nat /\ Len(s) \in Nat /\ counts \in Seq(Nat) /\ Len(counts) = Len(t)
        /\ DOMAIN counts = 1 .. Len(t) /\ i \in Nat /\ 1 <= i /\ i <= Len(s) /\ i - 1 \in Nat
    BY ColumnFacts
  <1>2. SumTo(counts, Len(t)) = Len(s) /\ SumTo(counts, 0) = 0
    BY <1>1, SumOfNone DEF Chain
  <1>3. Len(t) \in T
    <2>1. Len(t) # 0
      BY <1>1, <1>2
    <2> QED
      BY <1>1, <1>2, <2>1
  <1>4. c \in 1 .. Len(t) /\ upto >= i /\ \A y \in T : c <= y
    <2>1. T \subseteq Nat /\ T # {}
      BY <1>1, <1>3
    <2>2. c \in T /\ \A y \in T : c <= y
      BY <2>1, MinFacts
    <2> QED
      BY <1>1, <2>2
  <1>5. c \in Nat /\ c - 1 \in 0 .. c /\ c - 1 \in 0 .. Len(t) /\ c \in 0 .. Len(t)
        /\ Len(t) \in 0 .. Len(t)
    BY <1>1, <1>4
  <1>6. before \in Nat /\ upto \in Nat
    BY <1>1, <1>5, SumIsNat
  <1>7. before <= i - 1
    <2>1. CASE c = 1
      BY <1>1, <1>2, <2>1
    <2>2. CASE c # 1
      <3>1. c - 1 \in 1 .. Len(t) /\ ~(c <= c - 1)
        BY <1>1, <1>4, <2>2
      <3>2. ~(before >= i)
        BY <1>1, <1>4, <3>1
      <3> QED
        BY <1>1, <1>6, <3>2
    <2> QED
      BY <2>1, <2>2
  <1>8. upto <= Len(s)
    BY <1>1, <1>2, <1>5, SumGrows
  <1>9. SumTo(s, before) <= SumTo(s, i - 1)
    BY <1>1, <1>6, <1>7, SumGrows
  <1>10. SumTo(s, i) <= SumTo(s, upto)
    BY <1>1, <1>4, <1>6, <1>8, SumGrows
  <1>11. SumTo(SizesOf(t), c - 1) = SumTo(s, before) /\ SumTo(SizesOf(t), c) = SumTo(s, upto)
    BY <1>5, SizesAndSamples
  <1>12. /\ Place(counts, s, i).chunk = c
         /\ Place(counts, s, i).skip = SumTo(s, i - 1) - SumTo(s, before)
    BY DEF Place
  <1> HIDE DEF c, counts, before, upto, T
  <1>13. Place(counts, s, i).chunk \in 1 .. Len(t)
    BY <1>4, <1>12
  <1> QED
    BY <1>9, <1>10, <1>11, <1>12, <1>13 DEF counts

(* Some consecutive elements of a sequence. *)
LEMMA SliceFacts ==
    ASSUME NEW S, NEW s \in Seq(S), NEW a \in Nat, NEW n \in Nat, a + n <= Len(s)
    PROVE  SubSeq(s, a + 1, a + n) = [k \in 1 .. n |-> s[a + k]]
  <1>1. PICK lo \in Nat : lo = a + 1
    OBVIOUS
  <1>2. PICK hi \in Nat : hi = a + n
    OBVIOUS
  <1>3. /\ Len(s) \in Nat /\ \A k \in lo .. hi : k \in 1 .. Len(s)
        /\ lo \in Int /\ hi \in Int /\ (IF lo <= hi THEN hi - lo + 1 ELSE 0) = n
        /\ hi - lo + 1 = n /\ \A k \in 1 .. n : lo + k - 1 = a + k
    BY <1>1, <1>2
  <1>4. \A k \in lo .. hi : s[k] \in S
    BY <1>3
  <1> DEFINE b == SubSeq(s, lo, hi)
  <1>5. /\ b \in Seq(S) /\ Len(b) = IF lo <= hi THEN hi - lo + 1 ELSE 0
        /\ \A k \in 1 .. hi - lo + 1 : b[k] = s[lo + k - 1]
    BY <1>3, <1>4, SubSeqProperties
  <1>6. b = SubSeq(s, a + 1, a + n)
    BY <1>1, <1>2
  <1> HIDE DEF b
  <1>7. Len(b) = n /\ \A k \in 1 .. n : b[k] = s[a + k]
    BY <1>3, <1>5
  <1>8. b = [k \in 1 .. Len(b) |-> b[k]]
    BY <1>5
  <1> QED
    BY <1>6, <1>7, <1>8

(* A word of the media data is at some position. *)
LEMMA LocatedIsNat ==
    ASSUME TypeInv, NEW q \in Nat
    PROVE  Located(Base + q) \in Nat
  <1>1. mdatPos \in Nat /\ shiftBy \in Nat
    BY TypeFacts DEF TypeInv
  <1>2. \A a, b, c \in Nat : a + b + c - b = a + c /\ a + b + c \in Nat /\ a + c \in Nat
    OBVIOUS
  <1> DEFINE a == Base + q
  <1>3. a \in Nat /\ (pc = "shift" => a - shiftBy = mdatPos + q /\ mdatPos + q \in Nat)
    BY <1>1, <1>2 DEF Base
  <1>4. Located(a) = IF pc = "shift" /\ a - shiftBy < shiftEnd THEN a - shiftBy ELSE a
    BY DEF Located
  <1> HIDE DEF a
  <1>5. Located(a) \in Nat
    BY <1>3, <1>4
  <1> QED
    BY <1>5 DEF a

(* Where a sample is, read off the two tables: its words are words of the   *)
(* media data, one behind the other.                                       *)
LEMMA HeldIsMedia ==
    ASSUME TypeInv, TableInv, PlaceInv, NEW i \in 1 .. Len(samples)
    PROVE  Held(i) = [k \in 1 .. samples[i] |-> Media(SumTo(samples, i - 1) + k - 1)]
  <1> DEFINE p == Place(Counts, samples, i)
             before == SumTo(samples, i - 1)
             c == p.chunk
             skip == p.skip
             start == SumTo(SizesOf(chunks), c - 1)
             end == SumTo(SizesOf(chunks), c)
             last == Len(chunks)
             size == samples[i]
             at == chunks[c].offset + skip
  <1>1. /\ chunks \in Seq(Chunk) /\ samples \in Seq(Nat) /\ Chain(chunks, samples)
        /\ mdatSize \in Nat /\ mdatPos \in Nat /\ shiftBy \in Nat /\ IsWords(file)
        /\ last \in Nat /\ SizesOf(chunks) \in Seq(Nat) /\ Len(SizesOf(chunks)) = last
    BY TypeFacts, SizesAreNat, ColumnFacts DEF TypeInv, TableInv
  <1>2. Counts = CountsOf(chunks)
    BY DEF Counts, CountsOf
  <1>3. /\ c \in 1 .. last /\ skip = before - start /\ start <= before
        /\ SumTo(samples, i) <= end
    BY <1>1, <1>2, PlaceFacts
  <1>4. /\ size \in Nat /\ before \in Nat /\ SumTo(samples, i) = before + size
    BY <1>1, SampleRange
  <1>5. /\ chunks[c].size \in Nat /\ SizesOf(chunks)[c] = chunks[c].size
        /\ chunks[c].offset \in Nat
        /\ chunks[last].size \in Nat /\ SizesOf(chunks)[last] = chunks[last].size
    <2>1. last \in 1 .. last
      BY <1>1, <1>3
    <2> QED
      BY <1>1, <1>3, <2>1, ColumnFacts
  <1>6. /\ start \in Nat /\ end \in Nat /\ end = start + chunks[c].size
        /\ SumTo(SizesOf(chunks), last - 1) \in Nat
        /\ SumTo(SizesOf(chunks), last - 1) + chunks[last].size = mdatSize + Len(buffer)
    <2>1. /\ c - 1 \in 0 .. last /\ c \in 0 .. last /\ last - 1 \in 0 .. last
          /\ last \in 1 .. last
      BY <1>1, <1>3
    <2>2. SumTo(SizesOf(chunks), c) = SumTo(SizesOf(chunks), c - 1) + SizesOf(chunks)[c]
      BY <1>1, <1>3, SumOfOneMore
    <2>3. SumTo(SizesOf(chunks), last) =
             SumTo(SizesOf(chunks), last - 1) + SizesOf(chunks)[last]
      BY <1>1, <2>1, SumOfOneMore
    <2>4. SumTo(SizesOf(chunks), last) = mdatSize + Len(buffer)
      BY DEF TableInv
    <2> QED
      BY <1>1, <1>5, <2>1, <2>2, <2>3, <2>4, SumIsNat
  <1>7. Len(buffer) \in Nat
    BY TypeFacts, LenProperties DEF TypeInv
  <1>8. Held(i) = IF c = last /\ buffer # << >>
                    THEN SubSeq(buffer, skip + 1, skip + size)
                    ELSE [k \in 1 .. size |-> WordAt(Located(at + k - 1))]
    BY DEF Held
  <1> HIDE DEF c, skip, before, start, end, p, size
  <1>9. skip \in Nat /\ skip + size <= chunks[c].size
    <2>1. before + size <= start + chunks[c].size
      BY <1>3, <1>4, <1>6
    <2>2. \A a, b, s, d \in Nat : a <= b /\ b + s <= a + d => b - a \in Nat /\ b - a + s <= d
      OBVIOUS
    <2> QED
      BY <1>3, <1>4, <1>5, <1>6, <2>1, <2>2
  <1>10. buffer # << >> => Pending
    BY DEF PlaceInv
  <1>11. CASE c = last /\ buffer # << >>
    <2>1. Len(buffer) = chunks[last].size
      BY <1>1, <1>3, <1>10, <1>11 DEF PlaceInv
    <2>2. start = mdatSize
      <3>1. start = SumTo(SizesOf(chunks), last - 1)
        BY <1>11 DEF start
      <3>2. \A a, b, m \in Nat : a + b = m + b => a = m
        OBVIOUS
      <3> QED
        BY <1>1, <1>5, <1>6, <2>1, <3>1, <3>2
    <2>3. /\ SubSeq(buffer, skip + 1, skip + size) =
                [k \in 1 .. size |-> buffer[skip + k]]
      <3>1. buffer \in Seq(BufferWords(samples)) /\ skip + size <= Len(buffer)
        BY <1>9, <1>11, <2>1, TypeFacts DEF TypeInv
      <3> QED
        BY <1>4, <1>9, <3>1, SliceFacts
    <2>4. ASSUME NEW k \in 1 .. size
          PROVE  Media(before + k - 1) = buffer[skip + k]
      <3>1. PICK q \in Nat : q = before + k - 1
        BY <1>4
      <3>2. ~(q < mdatSize) /\ q - mdatSize + 1 = skip + k
        BY <1>1, <1>3, <1>4, <2>2, <3>1
      <3> QED
        BY <3>1, <3>2 DEF Media
    <2>5. Held(i) = [k \in 1 .. size |-> Media(before + k - 1)]
      BY <1>8, <1>11, <2>3, <2>4
    <2> QED
      BY <2>5 DEF before, size
  <1>12. CASE ~(c = last /\ buffer # << >>)
    <2>1. ASSUME NEW k \in 1 .. size
          PROVE  Media(before + k - 1) = WordAt(Located(at + k - 1))
      <3>1. PICK q \in Nat : q = before + k - 1
        BY <1>4
      <3>2. chunks[c].size > 0 /\ q < end
        <4>1. k \in Nat /\ 1 <= k /\ k <= size
          BY <1>4
        <4>2. size <= chunks[c].size /\ before + size <= end
          BY <1>3, <1>4, <1>5, <1>9
        <4> QED
          <5>1. chunks[c].size > 0
            BY <1>4, <1>5, <4>1, <4>2
          <5>2. q < end
            BY <1>4, <1>6, <3>1, <4>1, <4>2
          <5> QED
            BY <5>1, <5>2
      <3>3. c < last \/ ~Pending
        <4>1. CASE buffer = << >> /\ Pending /\ c = last
          <5>1. Len(buffer) = chunks[last].size
            BY <1>1, <1>3, <4>1 DEF PlaceInv
          <5>2. Len(buffer) = 0
            BY <4>1
          <5> QED
            BY <1>5, <3>2, <4>1, <5>1, <5>2
        <4> QED
          BY <1>1, <1>3, <1>12, <4>1
      <3>4. chunks[c].offset = Base + start
        BY <1>3, <3>2, <3>3 DEF PlaceInv, start
      <3>5. q < mdatSize
        <4>1. CASE Pending
          <5>1. c < last /\ end <= SumTo(SizesOf(chunks), last - 1)
            <6>1. c \in 0 .. last - 1 /\ last - 1 \in 0 .. Len(SizesOf(chunks)) /\ c < last
              BY <1>1, <1>3, <3>3, <4>1
            <6> QED
              BY <1>1, <6>1, SumGrows DEF end
          <5>2. Len(buffer) = chunks[last].size
            BY <1>1, <1>3, <4>1 DEF PlaceInv
          <5> QED
            <6>1. \A a, b, m \in Nat : a + b = m + b => a = m
              OBVIOUS
            <6>2. SumTo(SizesOf(chunks), last - 1) = mdatSize
              BY <1>1, <1>5, <1>6, <5>2, <6>1
            <6>3. end <= mdatSize
              BY <5>1, <6>2
            <6>4. end \in Nat /\ mdatSize \in Nat
              BY <1>1, <1>6
            <6> QED
              BY <3>2, <6>3, <6>4
        <4>2. CASE ~Pending
          <5>1. Len(buffer) = 0
            BY <4>2 DEF PlaceInv
          <5>2. end <= mdatSize
            <6>1. c \in 0 .. last /\ last \in 0 .. last
              BY <1>1, <1>3
            <6>2. end <= SumTo(SizesOf(chunks), last)
              <7>1. Len(SizesOf(chunks)) = last
                BY <1>1
              <7>2. last \in 0 .. Len(SizesOf(chunks)) /\ c \in 0 .. last
                BY <6>1, <7>1
              <7> QED
                BY <1>1, <7>2, SumGrows DEF end
            <6>3. SumTo(SizesOf(chunks), last) = mdatSize + Len(buffer)
              BY DEF TableInv
            <6> QED
              BY <1>1, <5>1, <6>2, <6>3
          <5> QED
            <6>1. end \in Nat /\ mdatSize \in Nat
              BY <1>1, <1>6
            <6> QED
              BY <3>2, <5>2, <6>1
        <4> QED
          BY <4>1, <4>2
      <3>6. PICK b \in Nat : b = Base
        BY <1>1 DEF Base
      <3>7. at + k - 1 = Base + q
        BY <1>3, <1>4, <1>6, <1>9, <3>1, <3>4, <3>6
      <3>8. Media(q) = At(file, Located(Base + q))
        BY <3>5 DEF Media
      <3>9. Located(Base + q) \in Nat
        BY LocatedIsNat
      <3>10. WordAt(Located(Base + q)) = At(file, Located(Base + q))
        BY <1>1, <3>9, WordAtIsAt
      <3> HIDE DEF at
      <3> QED
        BY <3>1, <3>7, <3>8, <3>10
    <2> QED
      BY <1>8, <1>12, <2>1 DEF before, size
  <1> QED
    BY <1>11, <1>12

(* The writer holds each sample it accepted: its words are where the two   *)
(* tables say, in the chunk buffer or in the file, also between two blocks *)
(* of the move.                                                            *)
HeldInv == ~Failed => \A i \in DOMAIN samples : Held(i) = Data(i, samples[i])

(* When the media data are those of the samples, each sample is found. *)
LEMMA MediaInvHeld ==
    TypeInv /\ ChunkInv /\ MediaInv => HeldInv
  <1> SUFFICES ASSUME TypeInv, ChunkInv, MediaInv, ~Failed, NEW i \in DOMAIN samples
               PROVE  Held(i) = Data(i, samples[i])
    BY DEF HeldInv
  <1>1. samples \in Seq(Nat) /\ i \in 1 .. Len(samples)
    BY TypeFacts, SizesAreNat DEF TypeInv
  <1>2. pc # "begin"
    <2>1. pc = "begin" => samples = << >>
      BY DEF TypeInv, Places, NoSamples
    <2> QED
      BY <1>1, <2>1
  <1>3. TableInv /\ PlaceInv /\ DataInv
    BY <1>2 DEF ChunkInv, MediaInv
  <1>4. Held(i) = [k \in 1 .. samples[i] |-> Media(SumTo(samples, i - 1) + k - 1)]
    BY <1>1, <1>3, HeldIsMedia
  <1>5. \A k \in 1 .. samples[i] : Media(SumTo(samples, i - 1) + k - 1) = <<"data", i, k>>
    <2>1. \A k \in 1 .. samples[i] : SumTo(samples, i - 1) + k - 1 \in Nat
      BY <1>1, SampleRange
    <2> QED
      BY <1>1, <1>3, <2>1 DEF DataInv
  <1> QED
    BY <1>4, <1>5 DEF Data

(* No sample that was accepted is lost or changed before the writer        *)
(* reports an error: not by the flush of a chunk, not by the boxes written *)
(* around the media data, and not by moving them over each other.          *)
THEOREM HeldAlways == Spec => []HeldInv
  <1>1. TypeInv /\ ChunkInv /\ MediaInv => HeldInv
    BY MediaInvHeld
  <1> QED
    BY <1>1, MediaInvAlways, PTL

=============================================================================
