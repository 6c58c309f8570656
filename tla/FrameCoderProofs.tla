--------------------------- MODULE FrameCoderProofs ---------------------------
(***************************************************************************)
(* What the frame coder does for every configuration: types, the account   *)
(* of the bits, the range of the reservoir, the estimate of the header,    *)
(* the bits written, length fields and repeated configurations.            *)
(***************************************************************************)
EXTENDS FrameCoder, SequenceTheorems, TLAPS

-----------------------------------------------------------------------------
(* The configuration *)

(* What ConfigAssumption says about the numbers of a configuration. *)
LEMMA CfgFacts ==
    ASSUME cfg \in Configurations
    PROVE  /\ cfg.fmt \in Formats /\ cfg.crc \in BOOLEAN /\ cfg.er \in BOOLEAN
           /\ cfg.nSubFrames \in 1 .. 6
           /\ cfg.headerPeriod \in Nat
           /\ cfg.pceBits \in Nat /\ cfg.pceBits <= 96 /\ cfg.pceBits % 8 = 0
           /\ cfg.smcBits \in Nat /\ cfg.subch \in Nat /\ cfg.dabPad \in BOOLEAN
           /\ cfg.fmt = "dab" => /\ ~cfg.er
                                 /\ cfg.nSubFrames \in {2, 3, 4, 6}
                                 /\ cfg.dabPad <=> cfg.nSubFrames # 3
           /\ cfg.mode \in {"cbr", "vbr"} /\ cfg.unlock \in BOOLEAN
           /\ cfg.bitRate \in Nat /\ cfg.bitRate > 0
           /\ cfg.sampleRate \in Nat /\ cfg.sampleRate > 0
           /\ cfg.frameLength \in Nat /\ cfg.frameLength > 0 /\ cfg.frameLength % 8 = 0
           /\ cfg.channels \in 1 .. 8
           /\ cfg.lowDelay \in BOOLEAN
           /\ cfg.ldReservoir \in Nat /\ cfg.ldReservoir % 8 = 0
           /\ cfg.reservoir \in Nat
           /\ cfg.capBits \in Nat \union {-1}
           /\ cfg.maxIterations \in Nat
           /\ cfg.demands \subseteq Nat
  <1>1. TpConfigOK(cfg) /\ RateConfigOK(cfg)
    BY ConfigAssumption
  <1>2. cfg.ldReservoir \in Nat
    <2>1. cfg.ldReservoir \in AlignDown(BitresMinLd) .. BitresMaxLd
      BY <1>1, Zenon DEF RateConfigOK
    <2>2. AlignDown(BitresMinLd) = 496 /\ BitresMaxLd = 4000
      BY DEF BitresMinLd, BitresMaxLd, AlignDown
    <2> DEFINE n == cfg.ldReservoir
    <2>3. n \in 496 .. 4000
      BY <2>1, <2>2
    <2> HIDE DEF n
    <2>4. n \in Nat
      BY <2>3
    <2> QED
      BY <2>4 DEF n
  <1>3. cfg.pceBits \in Nat /\ cfg.pceBits <= 96
    BY <1>1 DEF TpConfigOK
  <1> QED
    BY <1>1, <1>2, <1>3 DEF TpConfigOK, RateConfigOK

(* The part of it the headers of ADTS and DAB+ depend on. *)
LEMMA BlockFacts ==
    ASSUME cfg \in Configurations
    PROVE  /\ cfg.crc \in BOOLEAN /\ cfg.nSubFrames \in 1 .. 6
           /\ cfg.fmt = "dab" => /\ cfg.nSubFrames \in {2, 3, 4, 6}
                                 /\ cfg.dabPad <=> cfg.nSubFrames # 3
  BY CfgFacts

(* The side information of a frame: static bits, the least of them, and    *)
(* the extension payload, which ends with ID_END.                          *)
LEMMA SideFacts ==
    ASSUME cfg \in Configurations, NEW side \in cfg.sides
    PROVE  /\ side.static \in Nat /\ side.least \in Nat /\ side.ext \in Nat
           /\ side.least > 0 /\ side.least <= side.static
           /\ cfg.er \/ side.ext >= 3
  BY ConfigAssumption DEF RateConfigOK

-----------------------------------------------------------------------------
(* Numbers *)

LEMMA AlignFacts ==
    ASSUME NEW n \in Int
    PROVE  /\ AlignUp(n) \in Int /\ AlignUp(n) % 8 = 0
           /\ n <= AlignUp(n) /\ AlignUp(n) <= n + 7
           /\ n % 8 = 0 => AlignUp(n) = n
           /\ AlignDown(n) \in Int /\ AlignDown(n) % 8 = 0
           /\ AlignDown(n) <= n /\ n - 7 <= AlignDown(n)
           /\ n % 8 = 0 => AlignDown(n) = n
  BY DEF AlignUp, AlignDown

(* Whole bytes stay whole bytes. *)
LEMMA ByteFacts ==
    ASSUME NEW a \in Int, NEW b \in Int, a % 8 = 0, b % 8 = 0
    PROVE  (a + b) % 8 = 0 /\ (a - b) % 8 = 0
  OBVIOUS

(* Whole bytes that fit the 13 bits are read back as they are. *)
LEMMA AdtsLengthFacts ==
    ASSUME NEW bits \in Nat
    PROVE  /\ AdtsLength(bits) \in Nat
           /\ bits % 8 = 0 /\ bits < 65536 => AdtsLength(bits) * 8 = bits
  <1> DEFINE bytes == bits \div 8
  <1>1. bytes \in Nat /\ (bits % 8 = 0 => bytes * 8 = bits)
    OBVIOUS
  <1> HIDE DEF bytes
  <1>2. bytes % 8192 \in Nat /\ (bytes < 8192 => bytes % 8192 = bytes)
    BY <1>1
  <1> QED
    BY <1>1, <1>2 DEF AdtsLength, bytes

(* A quotient is known by its remainder. *)
LEMMA DivUnique ==
    ASSUME NEW n \in Int, NEW d \in Nat, d > 0, NEW k \in Int, NEW r \in Int,
           0 <= r, r < d, n = k * d + r
    PROVE  n \div d = k /\ n % d = r
  <1> DEFINE q == n \div d
             s == n % d
  <1>1. q \in Int /\ s \in 0 .. d - 1 /\ n = q * d + s
    OBVIOUS
  <1> HIDE DEF q, s
  <1>2. CASE q < k
    <2>1. q + 1 <= k
      BY <1>1, <1>2
    <2>2. (q + 1) * d <= k * d
      BY <2>1, <1>1
    <2> QED
      BY <2>2, <1>1
  <1>3. CASE q > k
    <2>1. k + 1 <= q
      BY <1>1, <1>3
    <2>2. (k + 1) * d <= q * d
      BY <2>1, <1>1
    <2> QED
      BY <2>2, <1>1
  <1>4. CASE q = k
    BY <1>4, <1>1 DEF q, s
  <1> QED
    BY <1>1, <1>2, <1>3, <1>4

LEMMA QuotientFacts ==
    ASSUME NEW n \in Nat, NEW d \in Nat, d > 0
    PROVE  /\ n \div d \in Nat /\ n % d \in 0 .. d - 1
           /\ n = (n \div d) * d + (n % d)
  OBVIOUS

-----------------------------------------------------------------------------
(* The average *)

(* FDKaacEnc_AdjustBitrate() grants whole bytes, one byte more than the     *)
(* quotient only when something is left over; and the padding rest stays    *)
(* positive.                                                               *)
LEMMA AverageFacts ==
    ASSUME cfg \in Configurations, NEW q,
           q.paddingRest \in 1 .. cfg.sampleRate
    PROVE  /\ AvgTotalBits(q) \in Nat /\ AvgTotalBits(q) % 8 = 0
           /\ NextPaddingRest(q) \in 1 .. cfg.sampleRate
           /\ AvgTotalBits(q) <= BufferSize
           /\ AvgTotalBits(q) <= AlignDown(AverageBitsPerFrame + 15)
           /\ AlignDown(AverageBitsPerFrame) <= AvgTotalBits(q)
           /\ AvgTotalBits(q) \in {AlignDown(AverageBitsPerFrame),
                                    AlignDown(AverageBitsPerFrame) + 8}
           /\ AverageBitsPerFrame \in Nat
  <1> DEFINE x == BytesTimesRate
             sr == cfg.sampleRate
             quot == x \div sr
             rem == x % sr
             more == (8 * rem) \div sr
  <1>1. cfg.bitRate \in Nat /\ sr \in Nat /\ sr > 0
        /\ cfg.frameLength \in Nat /\ cfg.frameLength % 8 = 0 /\ cfg.channels \in 1 .. 8
    BY CfgFacts
  <1>2. cfg.frameLength \div 8 \in Nat /\ cfg.frameLength = 8 * (cfg.frameLength \div 8)
    BY <1>1
  <1>3. x \in Nat /\ cfg.bitRate * cfg.frameLength = 8 * x
    BY <1>1, <1>2 DEF BytesTimesRate
  <1>4. quot \in Nat /\ rem \in 0 .. sr - 1 /\ x = quot * sr + rem
    BY <1>1, <1>3, QuotientFacts
  <1>5. 8 * ((x \div sr) + (IF x % sr = 0 THEN 0 ELSE 1)) <= BufferSize
    BY ConfigAssumption DEF RateConfigOK, BytesTimesRate, BufferSize
  <1> HIDE DEF x, sr, quot, rem, more
  <1>6. more \in 0 .. 7
    <2>1. 8 * rem \in Nat
      BY <1>4
    <2>2. more \in Nat /\ 8 * rem = more * sr + ((8 * rem) % sr) /\ (8 * rem) % sr \in 0 .. sr - 1
      BY <2>1, <1>1, QuotientFacts DEF more
    <2>3. CASE more >= 8
      <3>1. more * sr >= 8 * sr
        BY <2>3, <2>2, <1>1
      <3> QED
        BY <3>1, <2>2, <1>1, <1>4
    <2> QED
      BY <2>2, <2>3
  <1>7. AverageBitsPerFrame = 8 * quot + more
    <2>1. 8 * rem \in Nat
      BY <1>4
    <2>2. 8 * rem = more * sr + ((8 * rem) % sr) /\ (8 * rem) % sr \in 0 .. sr - 1
      BY <2>1, <1>1, QuotientFacts DEF more
    <2>3. 8 * x = 8 * (quot * sr) + 8 * rem
      BY <1>4, <1>1, <1>3
    <2>4. (8 * quot + more) * sr = 8 * (quot * sr) + more * sr
      BY <1>4, <1>6, <1>1
    <2>5. 8 * x = (8 * quot + more) * sr + ((8 * rem) % sr)
      BY <2>2, <2>3, <2>4, <1>1, <1>3, <1>4, <1>6
    <2>6. 8 * x \in Int /\ 8 * quot + more \in Int /\ (8 * rem) % sr \in Int
      BY <1>3, <1>4, <1>6, <2>2
    <2>7. (8 * x) \div sr = 8 * quot + more
      BY <2>2, <2>5, <2>6, <1>1, DivUnique
    <2> QED
      BY <2>7, <1>3 DEF AverageBitsPerFrame, sr
  <1>8. PaddingOn(q) <=> q.paddingRest - rem <= 0
    BY DEF PaddingOn, rem, x, sr
  <1>9. q.paddingRest \in 1 .. sr
    BY DEF sr
  <1>10. AvgTotalBits(q) = 8 * (quot + (IF PaddingOn(q) THEN 1 ELSE 0))
    BY DEF AvgTotalBits, quot, x, sr
  <1>11. NextPaddingRest(q) = q.paddingRest - rem + (IF PaddingOn(q) THEN sr ELSE 0)
    BY DEF NextPaddingRest, rem, x, sr
  <1>12. PaddingOn(q) => rem # 0
    BY <1>8, <1>9, <1>4, <1>1
  <1>13. NextPaddingRest(q) \in 1 .. sr
    BY <1>8, <1>9, <1>4, <1>1, <1>11
  <1>14. AvgTotalBits(q) <= BufferSize
    <2>1. BufferSize \in Nat
      BY <1>1 DEF BufferSize, MinBufSize
    <2> QED
      BY <2>1, <1>5, <1>10, <1>12, <1>4 DEF quot, rem
  <1>15. AlignDown(AverageBitsPerFrame) = 8 * quot
    BY <1>7, <1>6, <1>4 DEF AlignDown
  <1>16. AlignDown(AverageBitsPerFrame + 15) >= 8 * quot + 8
    BY <1>7, <1>6, <1>4 DEF AlignDown
  <1>17. AverageBitsPerFrame \in Nat /\ AlignDown(AverageBitsPerFrame + 15) \in Int
    BY <1>7, <1>6, <1>4 DEF AlignDown
  <1>18. AvgTotalBits(q) \in {8 * quot, 8 * quot + 8}
    BY <1>10, <1>4
  <1> QED
    BY <1>13, <1>14, <1>15, <1>16, <1>17, <1>18, <1>4 DEF sr

-----------------------------------------------------------------------------
(* Static bits *)

(* The static bits that do not depend on the size of the access unit ... *)
HeaderPart(t) ==
    PceBits(t)
    + (IF cfg.fmt = "adts" THEN AdtsHeaderBits(t)
       ELSE IF cfg.fmt = "dab" THEN DabHeaderBits(t)
       ELSE IF IsLatm THEN AlignUp(LatmFixedBits(t)) ELSE 0)

(* ... and those that do: the length in LATM. *)
LengthPart(t, n) ==
    IF IsLatm /\ n + PceBits(t) > 0 THEN LatmLengthBits(n + PceBits(t)) ELSE 0

LEMMA PceFacts ==
    ASSUME cfg \in Configurations, NEW t \in TpState
    PROVE  /\ PceBits(t) \in Nat /\ PceBits(t) % 8 = 0
           /\ PceBits(t) \in {0, cfg.pceBits}
  BY CfgFacts DEF PceBits

LEMMA LatmFixedFacts ==
    ASSUME cfg \in Configurations, NEW t \in TpState
    PROVE  LatmFixedBits(t) \in Nat
  BY CfgFacts DEF LatmFixedBits

LEMMA AdtsFacts ==
    ASSUME cfg \in Configurations, NEW t \in TpState
    PROVE  AdtsHeaderBits(t) \in Nat /\ AdtsHeaderBits(t) % 8 = 0
  <1> DEFINE sub == 16 * (cfg.nSubFrames - 1)
  <1>1. sub \in Nat /\ sub % 8 = 0
    BY CfgFacts
  <1> HIDE DEF sub
  <1>2. CASE cfg.crc
    <2>1. \/ AdtsHeaderBits(t) = 0 + 0
          \/ AdtsHeaderBits(t) = 0 + 16
          \/ AdtsHeaderBits(t) = (56 + (16 + sub)) + 0
          \/ AdtsHeaderBits(t) = (56 + (16 + sub)) + 16
      BY <1>2, Zenon DEF AdtsHeaderBits, sub
    <2> QED
      BY <1>1, <2>1
  <1>3. CASE ~cfg.crc
    BY <1>3 DEF AdtsHeaderBits
  <1> QED
    BY <1>2, <1>3

LEMMA DabFacts ==
    ASSUME cfg \in Configurations, NEW t \in TpState, cfg.fmt = "dab"
    PROVE  DabHeaderBits(t) \in Nat /\ DabHeaderBits(t) % 8 = 0
  BY BlockFacts DEF DabHeaderBits

(* transportEnc_GetStaticBits() of each format ... *)
LEMMA StaticOfFormat ==
    ASSUME NEW t, NEW n
    PROVE  /\ cfg.fmt = "raw" => StaticBits(t, n) = PceBits(t) + 0
           /\ cfg.fmt = "adts" => StaticBits(t, n) = PceBits(t) + AdtsHeaderBits(t)
           /\ cfg.fmt = "dab" => StaticBits(t, n) = PceBits(t) + DabHeaderBits(t)
           /\ IsLatm => StaticBits(t, n) =
                            PceBits(t)
                            + (AlignUp(LatmFixedBits(t))
                               + (IF n + PceBits(t) > 0
                                  THEN LatmLengthBits(n + PceBits(t)) ELSE 0))
  <1>1. cfg.fmt = "raw" => StaticBits(t, n) = PceBits(t) + 0
    BY Zenon DEF StaticBits
  <1>2. cfg.fmt = "adts" => StaticBits(t, n) = PceBits(t) + AdtsHeaderBits(t)
    BY Zenon DEF StaticBits
  <1>3. cfg.fmt = "dab" => StaticBits(t, n) = PceBits(t) + DabHeaderBits(t)
    BY Zenon DEF StaticBits
  <1>4. ASSUME IsLatm
        PROVE  StaticBits(t, n) =
                   PceBits(t)
                   + (AlignUp(LatmFixedBits(t))
                      + (IF n + PceBits(t) > 0 THEN LatmLengthBits(n + PceBits(t)) ELSE 0))
    BY <1>4, Zenon DEF StaticBits, IsLatm
  <1> QED
    BY <1>1, <1>2, <1>3, <1>4

(* ... and whole bytes in all of them. *)
LEMMA StaticSplit ==
    ASSUME cfg \in Configurations, NEW t \in TpState, NEW n \in Int
    PROVE  /\ StaticBits(t, n) = HeaderPart(t) + LengthPart(t, n)
           /\ HeaderPart(t) \in Nat /\ HeaderPart(t) % 8 = 0
           /\ LengthPart(t, n) \in Nat /\ LengthPart(t, n) % 8 = 0
           /\ ~IsLatm => LengthPart(t, n) = 0
           /\ StaticBits(t, n) \in Nat /\ StaticBits(t, n) % 8 = 0
  <1>1. PceBits(t) \in Nat /\ PceBits(t) % 8 = 0
    BY PceFacts
  <1>2. LengthPart(t, n) \in Nat /\ LengthPart(t, n) % 8 = 0
    BY <1>1 DEF LengthPart, LatmLengthBits
  <1>3. ~IsLatm => LengthPart(t, n) = 0
    BY DEF LengthPart
  <1>4. CASE cfg.fmt = "raw"
    <2>1. HeaderPart(t) = PceBits(t) + 0
      BY <1>4 DEF HeaderPart, IsLatm
    <2>2. StaticBits(t, n) = PceBits(t) + 0 /\ ~IsLatm
      BY <1>4, StaticOfFormat DEF IsLatm
    <2> QED
      BY <1>1, <1>2, <1>3, <2>1, <2>2
  <1>5. CASE cfg.fmt = "adts"
    BY <1>1, <1>2, <1>3, <1>5, AdtsFacts, StaticOfFormat DEF HeaderPart, IsLatm
  <1>6. CASE cfg.fmt = "dab"
    BY <1>1, <1>2, <1>3, <1>6, DabFacts, StaticOfFormat DEF HeaderPart, IsLatm
  <1>7. CASE IsLatm
    <2>1. /\ AlignUp(LatmFixedBits(t)) \in Nat
          /\ AlignUp(LatmFixedBits(t)) % 8 = 0
      BY LatmFixedFacts DEF AlignUp
    <2>2. HeaderPart(t) = PceBits(t) + AlignUp(LatmFixedBits(t))
      BY <1>7 DEF HeaderPart, IsLatm
    <2>3. StaticBits(t, n) = PceBits(t) + (AlignUp(LatmFixedBits(t)) + LengthPart(t, n))
      BY <1>7, StaticOfFormat DEF LengthPart
    <2> QED
      BY <1>1, <1>2, <1>3, <2>1, <2>2, <2>3
  <1> QED
    BY <1>4, <1>5, <1>6, <1>7, CfgFacts DEF Formats, IsLatm

(* A longer access unit has no shorter length field; a byte more is needed *)
(* every 255 bytes.                                                        *)
LEMMA LengthSteps ==
    ASSUME cfg \in Configurations, NEW t \in TpState,
           NEW m \in Int, NEW n \in Int, m <= n
    PROVE  /\ LengthPart(t, m) <= LengthPart(t, n)
           /\ m > 0 /\ n - m <= 2040 => LengthPart(t, n) <= LengthPart(t, m) + 8
           /\ m > 0 /\ n - m <= 50000 => LengthPart(t, n) <= LengthPart(t, m) + 200
  <1>1. PceBits(t) \in Nat
    BY PceFacts
  <1> QED
    BY <1>1 DEF LengthPart, LatmLengthBits

LEMMA TpInitOK ==
    ASSUME cfg \in Configurations
    PROVE  TpInit \in TpState
  BY CfgFacts DEF TpInit, TpState

(* No frame has a larger header than the first one. *)
LEMMA FirstHeaderLargest ==
    ASSUME cfg \in Configurations, NEW t \in TpState, NEW n \in Int,
           cfg.headerPeriod = 0 => t.pceCount = -1
    PROVE  StaticBits(t, n) <= StaticBits(TpInit, n)
  <1>1. TpInit \in TpState
    BY TpInitOK
  <1>2. /\ PceBits(t) <= PceBits(TpInit)
        /\ PceBits(t) \in Nat /\ PceBits(TpInit) \in Nat
    <2>1. PceBits(t) \in {0, cfg.pceBits} /\ cfg.pceBits \in Nat /\ PceBits(TpInit) \in Nat
      BY <1>1, PceFacts, CfgFacts
    <2>2. CASE cfg.headerPeriod = 0
      BY <2>1, <2>2 DEF PceBits, PceDue
    <2>3. CASE cfg.headerPeriod # 0 /\ cfg.pceBits > 0
      <3>1. TpInit.pceCount = cfg.headerPeriod
        BY <2>3, CfgFacts DEF TpInit
      <3> QED
        BY <2>1, <2>3, <3>1, CfgFacts DEF PceBits, PceDue
    <2>4. CASE cfg.headerPeriod # 0 /\ ~(cfg.pceBits > 0)
      BY <2>1, <2>4
    <2> QED
      BY <2>2, <2>3, <2>4
  <1>3. TpInit.block = 0 /\ TpInit.latmFrame = 0 /\ t.block \in Nat
    BY DEF TpInit, TpState
  <1>4. LengthPart(t, n) <= LengthPart(TpInit, n)
    BY <1>2 DEF LengthPart, LatmLengthBits
  <1>5. AdtsHeaderBits(t) <= AdtsHeaderBits(TpInit)
    BY <1>3, BlockFacts DEF AdtsHeaderBits
  <1>6. cfg.fmt = "dab" => DabHeaderBits(t) <= DabHeaderBits(TpInit)
    BY <1>3, CfgFacts DEF DabHeaderBits
  <1>7. LatmFixedBits(t) <= LatmFixedBits(TpInit)
    <2>1. cfg.smcBits \in Nat /\ (SmcDue(t) => SmcDue(TpInit))
      BY <1>3, CfgFacts DEF SmcDue
    <2>2. LatmFixedBits(t) = 0 \/ t.block = 0
      BY DEF LatmFixedBits
    <2>3. CASE t.block = 0
      BY <1>3, <2>1, <2>3 DEF LatmFixedBits
    <2>4. CASE LatmFixedBits(t) = 0
      BY <1>1, <2>4, LatmFixedFacts
    <2> QED
      BY <2>2, <2>3, <2>4
  <1>8. /\ AlignUp(LatmFixedBits(t)) <= AlignUp(LatmFixedBits(TpInit))
        /\ AlignUp(LatmFixedBits(t)) \in Nat
        /\ AlignUp(LatmFixedBits(TpInit)) \in Nat
    BY <1>1, <1>7, LatmFixedFacts DEF AlignUp
  <1>9. HeaderPart(t) <= HeaderPart(TpInit)
    BY <1>1, <1>2, <1>5, <1>6, <1>8, AdtsFacts, DabFacts DEF HeaderPart
  <1>10. /\ StaticBits(t, n) = HeaderPart(t) + LengthPart(t, n)
         /\ HeaderPart(t) \in Nat /\ LengthPart(t, n) \in Nat
    BY StaticSplit
  <1>11. /\ StaticBits(TpInit, n) = HeaderPart(TpInit) + LengthPart(TpInit, n)
         /\ HeaderPart(TpInit) \in Nat /\ LengthPart(TpInit, n) \in Nat
    BY <1>1, StaticSplit
  <1> QED
    BY <1>4, <1>9, <1>10, <1>11

-----------------------------------------------------------------------------
(* Fill elements *)

(* At most seven of the bits to be filled are left over, and what has been *)
(* written once is written again without a rest.                           *)
LEMMA FillElementsFacts ==
    ASSUME NEW n \in Nat
    PROVE  /\ FillLeft(n) \in 0 .. 7 /\ FillLeft(n) <= n
           /\ FillLeft(n - FillLeft(n)) = 0
  <1> DEFINE d == 2167
             last == n % d
             quot == n \div d
             left == FillLeft(n)
  <1>1. d \in Nat /\ d > 0 /\ MaxFillElement = d
    BY DEF MaxFillElement
  <1>2. last \in 0 .. d - 1 /\ quot \in Nat /\ n = quot * d + last
    BY <1>1, QuotientFacts
  <1>3. left = IF last < 7 THEN last ELSE IF last % 8 = 6 THEN 0 ELSE (last + 1) % 8
    BY <1>1 DEF FillLeft
  <1> HIDE DEF last, quot, left
  <1>4. left \in 0 .. 7 /\ left <= last
    BY <1>2, <1>3
  <1>5. (n - left) % d = last - left
    <2>1. n - left = quot * d + (last - left)
      BY <1>2, <1>4
    <2>2. n - left \in Int /\ last - left \in Int /\ 0 <= last - left /\ last - left < d
      BY <1>2, <1>4
    <2> QED
      BY <2>1, <2>2, <1>1, <1>2, DivUnique
  <1>6. FillLeft(n - left) = 0
    <2> DEFINE rest == last - left
    <2>1. FillLeft(n - left) =
              IF rest < 7 THEN rest ELSE IF rest % 8 = 6 THEN 0 ELSE (rest + 1) % 8
      BY <1>1, <1>5 DEF FillLeft
    <2>2. rest \in Nat /\ (rest = 0 \/ (rest >= 7 /\ (rest % 8 = 6 \/ (rest + 1) % 8 = 0)))
      <3>1. last \in Nat /\ left \in Nat /\ left <= last
        BY <1>2, <1>4
      <3>2. CASE last < 7
        <4>1. left = last
          BY <1>3, <3>2
        <4> QED
          BY <3>1, <4>1
      <3>3. CASE ~(last < 7) /\ last % 8 = 6
        <4>1. left = 0
          BY <1>3, <3>3
        <4> QED
          BY <3>1, <3>3, <4>1
      <3>4. CASE ~(last < 7) /\ last % 8 # 6
        <4>1. left = (last + 1) % 8
          BY <1>3, <3>4
        <4>2. (last + 1 - ((last + 1) % 8)) % 8 = 0
          BY <3>1
        <4>3. rest + 1 = last + 1 - ((last + 1) % 8) /\ rest \in Nat
          BY <3>1, <4>1
        <4>4. rest = 0 \/ rest >= 7
          BY <4>2, <4>3
        <4>5. (rest + 1) % 8 = 0
          BY <4>2, <4>3
        <4> QED
          BY <4>3, <4>4, <4>5
      <3> QED
        BY <3>2, <3>3, <3>4
    <2> HIDE DEF rest
    <2> QED
      BY <2>1, <2>2
  <1>7. left <= n
    BY <1>2, <1>4
  <1> QED
    BY <1>4, <1>6, <1>7 DEF left

LEMMA FillDataFacts ==
    ASSUME NEW n \in Nat
    PROVE  /\ FillData(n) \in Nat /\ FillData(n) <= n /\ n - FillData(n) <= 7
           /\ FillData(FillData(n)) = FillData(n)
  <1>1. CASE cfg.er
    BY <1>1 DEF FillData, AlignDown
  <1>2. CASE ~cfg.er
    <2>1. FillData(n) = n - FillLeft(n) /\ FillData(n) \in Nat
      BY <1>2, FillElementsFacts DEF FillData, FillElements
    <2>2. FillData(FillData(n)) = FillData(n) - FillLeft(n - FillLeft(n))
      BY <1>2, <2>1 DEF FillData, FillElements
    <2> QED
      BY <2>1, <2>2, FillElementsFacts
  <1> QED
    BY <1>1, <1>2

-----------------------------------------------------------------------------
(* FDKaacEnc_Initialize() *)

LEMMA ReservoirFacts ==
    ASSUME cfg \in Configurations
    PROVE  /\ AverageBits \in Nat /\ AverageBits % 8 = 0 /\ AverageBitsPerFrame \in Nat
           /\ AverageBitsPerFrame <= AverageBits /\ AverageBits <= AverageBitsPerFrame + 7
           /\ BufferSize \in Nat /\ 6144 <= BufferSize /\ BufferSize <= 49152 /\ BufferSize % 8 = 0
           /\ AverageBits <= BufferSize
           /\ BitRes \in Nat /\ BitRes % 8 = 0
           /\ cfg.mode = "cbr" => BitRes <= BufferSize - AverageBits
           /\ MaxBits \in Nat
           /\ MinBits \in Int
  <1> DEFINE q == [paddingRest |-> cfg.sampleRate]
             down == AlignDown(AverageBitsPerFrame)
  <1>1. /\ AverageBitsPerFrame \in Nat
        /\ AlignDown(AverageBitsPerFrame) % 8 = 0
        /\ AverageBits \in Nat /\ AverageBits % 8 = 0
        /\ AverageBitsPerFrame <= AverageBits /\ AverageBits <= AverageBitsPerFrame + 7
    <2>1. q.paddingRest \in 1 .. cfg.sampleRate
      BY CfgFacts
    <2>2. AverageBitsPerFrame \in Nat
      BY <2>1, AverageFacts
    <2> QED
      BY <2>2 DEF AverageBits, AlignUp, AlignDown
  <1>2. BufferSize \in Nat /\ 6144 <= BufferSize /\ BufferSize <= 49152 /\ BufferSize % 8 = 0
    <2>1. cfg.channels \in 1 .. 8
      BY CfgFacts
    <2> DEFINE k == 768 * cfg.channels
    <2>2. k \in Nat /\ 768 <= k /\ k <= 6144 /\ BufferSize = 8 * k
      BY <2>1 DEF BufferSize, MinBufSize
    <2> HIDE DEF k
    <2> QED
      BY <2>2
  <1>3. AverageBits <= BufferSize
    <2> DEFINE x == BytesTimesRate
               sr == cfg.sampleRate
               quot == x \div sr
               rem == x % sr
    <2>1. cfg.bitRate \in Nat /\ sr \in Nat /\ sr > 0
          /\ cfg.frameLength \in Nat /\ cfg.frameLength % 8 = 0
      BY CfgFacts
    <2>2. cfg.frameLength \div 8 \in Nat /\ cfg.frameLength = 8 * (cfg.frameLength \div 8)
      BY <2>1
    <2>3. x \in Nat /\ cfg.bitRate * cfg.frameLength = 8 * x
      BY <2>1, <2>2 DEF BytesTimesRate
    <2>4. 8 * (quot + (IF rem = 0 THEN 0 ELSE 1)) <= BufferSize
      BY ConfigAssumption DEF RateConfigOK, BytesTimesRate, BufferSize
    <2> HIDE DEF x, sr
    <2>5. quot \in Nat /\ rem \in 0 .. sr - 1 /\ x = quot * sr + rem
      BY <2>1, <2>3, QuotientFacts
    <2>6. AverageBitsPerFrame = (8 * x) \div sr
      BY <2>3 DEF AverageBitsPerFrame, sr
    <2>7. /\ 8 * x = AverageBitsPerFrame * sr + ((8 * x) % sr)
          /\ (8 * x) % sr \in 0 .. sr - 1
      BY <2>1, <2>3, <2>6, QuotientFacts
    <2> HIDE DEF quot, rem
    <2>8. CASE rem = 0
      <3>1. 8 * x = (8 * quot) * sr + 0
        BY <2>5, <2>8, <2>1, <2>3
      <3>2. AverageBitsPerFrame = 8 * quot
        BY <3>1, <2>6, <2>1, <2>3, <2>5, DivUnique
      <3> QED
        <4>1. AverageBits = 8 * quot
          BY <3>2, <2>5 DEF AverageBits, AlignUp
        <4> QED
          BY <4>1, <2>4, <2>8, <2>5
    <2>9. CASE rem # 0
      <3>1. CASE AverageBitsPerFrame > 8 * quot + 8
        <4>1. AverageBitsPerFrame * sr >= (8 * quot + 8) * sr
          BY <3>1, <2>5, <2>1, <1>1
        <4>2. (8 * quot + 8) * sr = 8 * (quot * sr) + 8 * sr
          BY <2>5, <2>1
        <4>3. 8 * x = 8 * (quot * sr) + 8 * rem
          BY <2>5, <2>1, <2>3
        <4>4. rem < sr /\ rem \in Int /\ quot * sr \in Int /\ AverageBitsPerFrame * sr \in Int
          BY <2>5, <2>1, <1>1
        <4>5. 8 * x >= AverageBitsPerFrame * sr /\ 8 * x \in Int
          BY <4>4, <2>7, <2>3, <2>1
        <4> HIDE DEF rem, quot
        <4>6. FALSE
          BY <4>1, <4>2, <4>3, <4>4, <4>5, <2>1
        <4> QED
          BY <4>6
      <3>2. CASE AverageBitsPerFrame <= 8 * quot + 8
        <4>1. AverageBits <= 8 * quot + 8
          BY <3>2, <1>1, <2>5 DEF AverageBits, AlignUp
        <4> QED
          BY <4>1, <2>4, <2>9, <2>5, <1>2, <1>1
      <3> QED
        BY <3>1, <3>2, <2>5, <1>1
    <2> QED
      BY <2>8, <2>9
  <1>4. BitRes \in Nat /\ BitRes % 8 = 0
        /\ (cfg.mode = "cbr" => BitRes <= BufferSize - AverageBits)
    <2>1. AlignDown(cfg.reservoir) \in Nat /\ AlignDown(cfg.reservoir) % 8 = 0
      BY CfgFacts DEF AlignDown
    <2>2. /\ BufferSize - AverageBits \in Nat
          /\ (BufferSize - AverageBits) % 8 = 0
      <3>1. AverageBits \in Int /\ BufferSize \in Int
        BY <1>1, <1>2
      <3>2. (BufferSize - AverageBits) % 8 = 0
        BY <3>1, <1>1, <1>2, ByteFacts
      <3> QED
        BY <3>1, <3>2, <1>3
    <2> QED
      BY SMTT(30), <2>1, <2>2, <1>2, CfgFacts DEF BitRes, Least
  <1>5. AlignDown(AverageBitsPerFrame + 15) \in Nat
    BY <1>1 DEF AlignDown
  <1>6. MaxBits \in Nat
    BY <1>1, <1>2, <1>4, <1>5, CfgFacts DEF MaxBits, Least, Most
  <1>7. MinBits \in Int
    <2>1. /\ StaticBits(TpInit, AverageBits + BitRes) \in Nat
          /\ StaticBits(TpInit, MaxBits) \in Nat
      BY <1>1, <1>4, <1>6, TpInitOK, StaticSplit
    <2> QED
      BY <2>1, <1>1, <1>4 DEF MinBits, Least, Most, AlignDown
  <1> QED
    BY <1>1, <1>2, <1>3, <1>4, <1>6, <1>7

-----------------------------------------------------------------------------
(* The inductive invariant, in layers *)

Estimated == {"quantize", "reduce", "fill", "settle"}   \* The header is an estimate.
Coding == Estimated \union {"align"}
Writing == {"header", "payload", "end"}

(* What FDKaacEnc_Initialize() set and what the padding leaves. *)
QcFixed ==
    /\ qc.bitResTotMax = BitRes
    /\ qc.maxBitsPerFrame = MaxBits
    /\ qc.minBitsPerFrame = MinBits
    /\ qc.paddingRest \in 1 .. cfg.sampleRate

(* A frame has side information; ID_END is in its extension payload. *)
FrameOK ==
    pc \in Coding \union Writing =>
        /\ frame.least \in 1 .. frame.static
        /\ cfg.er \/ frame.ext >= 3

UnitOpen == pc \in {"payload", "end"} => tp.units # << >>

TypeInv == TypeOK /\ QcFixed /\ FrameOK /\ UnitOpen

-----------------------------------------------------------------------------
(* The counter of access units runs from one PCE to the next. *)
PceInv ==
    IF cfg.pceBits > 0 /\ cfg.headerPeriod > 0
    THEN /\ tp.pceCount \in 1 .. cfg.headerPeriod
         /\ \/ tp.sincePce = tp.pceCount
            \/ tp.sincePce = 0 /\ tp.pceCount = cfg.headerPeriod
    ELSE /\ tp.pceCount = -1
         /\ cfg.pceBits = 0 => tp.sincePce = 0

(* A frame that begins: none of its sub-frames has been written. *)
Begins == tp.block = 0 /\ pc \in {"frame", "header"} \union Coding

(* The counter of frames is the number of frames since the configuration. *)
SmcInv ==
    /\ ~IsLatm \/ cfg.fmt = "mcp0" => tp.sinceSmc = 0
    /\ IsLatm /\ cfg.fmt # "mcp0" /\ cfg.headerPeriod > 0 =>
          /\ tp.latmFrame \in 0 .. cfg.headerPeriod - 1
          /\ tp.sinceSmc <= cfg.headerPeriod
          /\ pc # "failed" =>
                IF Begins THEN tp.latmFrame > 0 => tp.sinceSmc = tp.latmFrame
                ELSE tp.sinceSmc = tp.latmFrame + 1

ConfigInv == PceInv /\ SmcInv

-----------------------------------------------------------------------------
(* The bits of the frame: whole bytes once it is aligned. *)
TotalInv ==
    /\ pc \in Coding \union Writing => frame.avg % 8 = 0 /\ frame.hdr % 8 = 0
    /\ pc \in Coding =>
          /\ frame.avg \in {AlignDown(AverageBitsPerFrame),
                            AlignDown(AverageBitsPerFrame) + 8}
          /\ frame.avg <= BufferSize /\ frame.avg <= AlignDown(AverageBitsPerFrame + 15)
    /\ pc \in {"settle", "align"} => frame.total = UsedBits(frame) + frame.fill
    /\ pc \in Writing =>
          /\ frame.total = UsedBits(frame) + frame.fill + frame.align
          /\ frame.total % 8 = 0 /\ frame.align \in 0 .. 7
          /\ FillData(frame.fill) = frame.fill
    /\ ~cfg.unlock =>
          /\ pc \in Coding => (frame.granted + frame.static + frame.ext) % 8 = 0
          /\ pc \in {"settle", "align"} => frame.total % 8 = 0

(* The header is the one of the largest frame, then that of the frame. *)
HeaderInv ==
    /\ pc \in Estimated =>
          /\ frame.hdr = StaticBits(tp, frame.avg + qc.bitResTot)
          /\ qc.bitResTot \in 0 .. BitRes
    /\ pc = "align" => frame.hdr = StaticBits(tp, frame.total)
    /\ pc = "header" /\ ~(cfg.unlock /\ IsLatm) => frame.hdr = StaticBits(tp, frame.total)

(* With a constant bit rate: what a frame is granted is the average less   *)
(* the header, and the reservoir is what the frames before have left.      *)
Strict == cfg.mode = "cbr" /\ ~cfg.unlock

LedgerInv ==
    Strict =>
        /\ pc \in Estimated =>
              frame.granted + frame.static + frame.ext = frame.avg - frame.hdr
        /\ pc = "align" =>
              qc.bitResTot + frame.granted + frame.static + frame.ext
                  = BitRes + balance + frame.avg - frame.hdr
        /\ pc \notin {"align", "failed"} => qc.bitResTot = BitRes + balance
        /\ pc # "failed" => qc.bitResTot % 8 = 0

(* The frame can be paid from the average and the reservoir, and what it    *)
(* leaves fits the reservoir.                                               *)
PaidInv ==
    Strict =>
        /\ pc \in {"quantize", "reduce"} =>
              frame.least + frame.ext + frame.hdr <= frame.avg + qc.bitResTot
        /\ pc = "fill" =>
              AlignUp(UsedBits(frame)) + frame.hdr <= frame.avg + qc.bitResTot
        /\ pc = "settle" =>
              /\ frame.total + frame.hdr <= frame.avg + qc.bitResTot
              /\ qc.bitResTot + frame.avg - frame.hdr - frame.total <= BitRes
        /\ pc = "align" =>
              LET left == qc.bitResTot + frame.granted - frame.dyn - frame.fill
              IN  left <= BitRes /\ (~NoReservoir => left >= 0)

RangeInv ==
    pc \notin Coding \union {"failed"} =>
        /\ ~NoReservoir => qc.bitResTot >= 0
        /\ ~cfg.unlock => qc.bitResTot <= BitRes

BudgetInv == TotalInv /\ HeaderInv /\ LedgerInv /\ PaidInv /\ RangeInv

-----------------------------------------------------------------------------
(* Sub-frames are counted from 0; raw data count on before they restart. *)
BlockInv ==
    pc # "failed" =>
        /\ cfg.fmt = "raw" =>
              tp.block \in IF pc \in {"payload", "end", "handout"}
                           THEN 0 .. cfg.nSubFrames - 1 ELSE 0 .. cfg.nSubFrames
        /\ IsLatm => tp.block \in 0 .. cfg.nSubFrames - 1
        /\ cfg.fmt \in {"adts", "dab"} =>
              tp.block \in IF pc = "handout" THEN 1 .. cfg.nSubFrames
                           ELSE 0 .. cfg.nSubFrames - 1

(* Where access units begin and end, in bytes. *)
ByteInv ==
    pc # "failed" =>
        /\ cfg.fmt = "adts" \/ (cfg.fmt = "dab" /\ pc # "end") => tp.valid % 8 = 0
        /\ IsLatm =>
              /\ tp.fillBits \in 0 .. 7
              /\ ~Begins => (tp.valid + tp.fillBits) % 8 = 0
              /\ Begins /\ pc # "frame" => tp.fillBits = LatmFillBits(tp)

(* What is still to come of the header when the payload is written. *)
Closing(t) ==
    IF cfg.fmt = "dab" THEN IF t.block = 0 THEN DabHeaderBits(t) ELSE 16
    ELSE IF cfg.fmt = "adts" THEN IF cfg.crc /\ cfg.nSubFrames > 1 THEN 16 ELSE 0
    ELSE IF IsLatm /\ t.block = 0 THEN t.fillBits ELSE 0

CountedInv ==
    ~(cfg.unlock /\ IsLatm) =>
        /\ pc = "payload" => tp.valid - tp.start + Closing(tp) = frame.hdr
        /\ pc = "end" => AccessUnitBits(tp) = frame.total + frame.hdr

LengthInv ==
    /\ pc = "header" => frame.total <= BufferSize
    /\ cfg.fmt = "adts" /\ cfg.nSubFrames = 1 =>
          /\ pc = "payload" => tp.length * 8 = tp.valid + frame.total
          /\ pc \in {"end", "handout"} => tp.length * 8 = tp.valid
    /\ cfg.fmt = "adts" /\ AdtsLengthFits /\ pc = "handout" /\ tp.block = cfg.nSubFrames =>
          tp.length * 8 = tp.valid
    /\ FrameLengthFields

WrittenInv == BlockInv /\ ByteInv /\ CountedInv /\ LengthInv

-----------------------------------------------------------------------------
(* The access units of a superframe lie one behind the other, and the      *)
(* header points at those that are closed.                                 *)
Tiled(units) == \A i \in 1 .. Len(units) - 1 : units[i].to = units[i + 1].from

PointedAt(markers, n, units) ==
    markers = [i \in 1 .. n |-> units[i + 1].from \div 8]

DabInv ==
    cfg.fmt = "dab" /\ pc # "failed" =>
        /\ Tiled(tp.units)
        /\ pc \in {"payload", "end"} =>
              /\ Len(tp.units) = tp.block + 1
              /\ tp.units[tp.block + 1].from = tp.start
              /\ PointedAt(tp.markers, Most(0, tp.block - 1), tp.units)
        /\ pc \notin {"payload", "end"} /\ tp.block > 0 =>
              /\ Len(tp.units) = tp.block
              /\ tp.units[tp.block].to = tp.valid /\ tp.valid > 0
              /\ PointedAt(tp.markers, tp.block - 1, tp.units)
              /\ tp.block = cfg.nSubFrames => tp.valid >= SuperframeBits
        /\ pc = "frame" /\ tp.block = 0 /\ tp.units # << >> =>
              /\ Len(tp.units) = cfg.nSubFrames
              /\ PointedAt(tp.markers, cfg.nSubFrames - 1, tp.units)
              /\ tp.valid >= SuperframeBits


-----------------------------------------------------------------------------
(* Types of the transport encoder *)

Unit == [from : Nat, to : Nat]

LEMMA SubFrameStartFacts ==
    ASSUME NEW t \in TpState
    PROVE  SubFrameStart(t) \in Nat /\ SubFrameStart(t) \in {0, t.valid}
  BY DEF TpState, SubFrameStart

LEMMA FrontOfFormat ==
    ASSUME NEW t, NEW au
    PROVE  /\ cfg.fmt = "raw" => FrontBits(t, au) = 0
           /\ cfg.fmt = "adts" =>
                 FrontBits(t, au) =
                     IF t.block # 0 THEN 0
                     ELSE 56 + (IF cfg.crc THEN 16 + 16 * (cfg.nSubFrames - 1) ELSE 0)
           /\ cfg.fmt = "dab" =>
                 FrontBits(t, au) =
                     IF t.block # 0 THEN 0
                     ELSE 24 + 12 * (cfg.nSubFrames - 1) + (IF cfg.dabPad THEN 4 ELSE 0)
           /\ IsLatm =>
                 FrontBits(t, au) =
                     LatmFixedBits(t) + (IF au % 8 = 0 THEN LatmLengthBits(au) ELSE 0)
  <1>1. ASSUME cfg.fmt = "raw" PROVE FrontBits(t, au) = 0
    BY <1>1, Zenon DEF FrontBits
  <1>2. ASSUME cfg.fmt = "adts"
        PROVE  FrontBits(t, au) =
                   IF t.block # 0 THEN 0
                   ELSE 56 + (IF cfg.crc THEN 16 + 16 * (cfg.nSubFrames - 1) ELSE 0)
    BY <1>2, Zenon DEF FrontBits
  <1>3. ASSUME cfg.fmt = "dab"
        PROVE  FrontBits(t, au) =
                   IF t.block # 0 THEN 0
                   ELSE 24 + 12 * (cfg.nSubFrames - 1) + (IF cfg.dabPad THEN 4 ELSE 0)
    BY <1>3, Zenon DEF FrontBits
  <1>4. ASSUME IsLatm
        PROVE  FrontBits(t, au) =
                   LatmFixedBits(t) + (IF au % 8 = 0 THEN LatmLengthBits(au) ELSE 0)
    BY <1>4, Zenon DEF FrontBits, IsLatm
  <1> QED
    BY <1>1, <1>2, <1>3, <1>4

LEMMA FrontFacts ==
    ASSUME cfg \in Configurations, NEW t \in TpState, NEW au \in Nat
    PROVE  /\ FrontBits(t, au) \in Nat
           /\ cfg.fmt \in {"adts", "dab"} => FrontBits(t, au) % 8 = 0
  <1>1. CASE cfg.fmt = "raw"
    BY <1>1, FrontOfFormat
  <1>2. CASE cfg.fmt = "adts"
    <2> DEFINE sub == 16 * (cfg.nSubFrames - 1)
    <2>1. sub \in Nat /\ sub % 8 = 0
      BY CfgFacts
    <2>2. FrontBits(t, au) \in {0, 56 + 0, 56 + (16 + sub)}
      BY <1>2, FrontOfFormat, Zenon
    <2> HIDE DEF sub
    <2> QED
      BY <2>1, <2>2
  <1>3. CASE cfg.fmt = "dab"
    <2>1. FrontBits(t, au) \in Nat
      BY <1>3, FrontOfFormat, CfgFacts
    <2>2. FrontBits(t, au) % 8 = 0
      BY <1>3, FrontOfFormat, CfgFacts
    <2> QED
      BY <2>1, <2>2
  <1>4. CASE IsLatm
    <2>1. LatmFixedBits(t) \in Nat /\ LatmLengthBits(au) \in Nat
      BY LatmFixedFacts DEF LatmLengthBits
    <2> QED
      BY <1>4, <2>1, FrontOfFormat DEF IsLatm
  <1> QED
    BY <1>1, <1>2, <1>3, <1>4, CfgFacts DEF Formats, IsLatm

LEMMA NextPceCountFacts ==
    ASSUME cfg \in Configurations, NEW t \in TpState
    PROVE  NextPceCount(t) \in Int
  BY CfgFacts DEF TpState, NextPceCount, PceDue

(* The fields of the state after transportEnc_WriteAccessUnit(). *)
LEMMA WriteFields ==
    ASSUME cfg \in Configurations, NEW t \in TpState, NEW n \in Nat
    PROVE  LET au    == n + PceBits(t)
               from  == SubFrameStart(t)
               front == FrontBits(t, au)
               w     == WriteAccessUnit(t, n)
           IN  /\ au \in Nat /\ from \in Nat /\ front \in Nat
               /\ w \in TpState
               /\ w.block = IF cfg.fmt = "raw" /\ t.block >= cfg.nSubFrames THEN 0 ELSE t.block
               /\ w.start = IF cfg.fmt = "dab" THEN from + front ELSE from
               /\ w.valid = from + front + PceBits(t)
               /\ w.length = IF cfg.fmt = "adts" /\ t.block = 0
                             THEN AdtsLength(au + AdtsHeaderBits(t)) ELSE t.length
               /\ w.units = (IF from = 0 THEN << >> ELSE t.units)
                            \o <<[from |-> from + front, to |-> 0]>>
               /\ w.units \in Seq(Unit) /\ w.units # << >>
               /\ Len(w.units) = 1 + (IF from = 0 THEN 0 ELSE Len(t.units))
               /\ w.markers = IF from = 0 THEN << >> ELSE t.markers
               /\ w.pceCount = NextPceCount(t)
               /\ w.sincePce = IF PceBits(t) > 0 THEN 1
                               ELSE IF cfg.pceBits > 0 THEN t.sincePce + 1 ELSE 0
               /\ w.sinceSmc = IF ~IsLatm \/ cfg.fmt = "mcp0" \/ t.block # 0 THEN t.sinceSmc
                               ELSE IF SmcDue(t) THEN 1 ELSE t.sinceSmc + 1
               /\ w.latmFrame = t.latmFrame /\ w.fillBits = t.fillBits
  <1> DEFINE au    == n + PceBits(t)
             from  == SubFrameStart(t)
             front == FrontBits(t, au)
             w     == WriteAccessUnit(t, n)
             old   == IF from = 0 THEN << >> ELSE t.units
             new   == [from |-> from + front, to |-> 0]
             b  == IF cfg.fmt = "raw" /\ t.block >= cfg.nSubFrames THEN 0 ELSE t.block
             st == IF cfg.fmt = "dab" THEN from + front ELSE from
             v  == from + front + PceBits(t)
             l  == IF cfg.fmt = "adts" /\ t.block = 0
                   THEN AdtsLength(au + AdtsHeaderBits(t)) ELSE t.length
             u  == old \o <<new>>
             m  == IF from = 0 THEN << >> ELSE t.markers
             p  == NextPceCount(t)
             sp == IF PceBits(t) > 0 THEN 1 ELSE IF cfg.pceBits > 0 THEN t.sincePce + 1 ELSE 0
             ss == IF ~IsLatm \/ cfg.fmt = "mcp0" \/ t.block # 0 THEN t.sinceSmc
                   ELSE IF SmcDue(t) THEN 1 ELSE t.sinceSmc + 1
  <1>1. PceBits(t) \in Nat /\ au \in Nat
    BY PceFacts
  <1>2. from \in Nat /\ front \in Nat
    BY <1>1, SubFrameStartFacts, FrontFacts
  <1>3. /\ t.block \in Nat /\ t.length \in Int /\ t.sincePce \in Nat /\ t.sinceSmc \in Nat
        /\ t.units \in Seq(Unit) /\ t.markers \in Seq(Nat)
    BY DEF TpState, Unit
  <1>4. w = [t EXCEPT !.block = b, !.start = st, !.valid = v, !.length = l,
                      !.units = u, !.markers = m, !.pceCount = p,
                      !.sincePce = sp, !.sinceSmc = ss]
    BY DEF WriteAccessUnit
  <1>5. old \in Seq(Unit) /\ new \in Unit
    BY <1>2, <1>3 DEF Unit
  <1>6. /\ u \in Seq(Unit) /\ u # << >>
        /\ Len(u) = 1 + (IF from = 0 THEN 0 ELSE Len(t.units))
    <2>1. Len(old) = IF from = 0 THEN 0 ELSE Len(t.units)
      OBVIOUS
    <2> HIDE DEF old, new
    <2>2. <<new>> \in Seq(Unit) /\ Len(<<new>>) = 1
      BY <1>5
    <2>3. u \in Seq(Unit) /\ Len(u) = Len(old) + 1
      BY <1>5, <2>2
    <2>4. u # << >>
      BY <1>5, <2>3
    <2> QED
      BY <2>1, <2>3, <2>4, <1>5
  <1>7. b \in Nat /\ st \in Nat /\ v \in Nat /\ sp \in Nat /\ ss \in Nat /\ m \in Seq(Nat)
    <2> HIDE DEF from, front, au
    <2>1. b \in {0, t.block} /\ ss \in {t.sinceSmc, 1, t.sinceSmc + 1}
      BY Zenon
    <2>2. sp \in {1, t.sincePce + 1, 0}
      BY Zenon
    <2>3. m \in Seq(Nat)
      BY <1>3
    <2> QED
      BY <1>1, <1>2, <1>3, <2>1, <2>2, <2>3
  <1>8. l \in Int /\ p \in Int
    <2>1. au + AdtsHeaderBits(t) \in Nat
      BY <1>1, AdtsFacts
    <2>2. AdtsLength(au + AdtsHeaderBits(t)) \in Nat
      BY <2>1, AdtsLengthFacts
    <2>3. l \in {AdtsLength(au + AdtsHeaderBits(t)), t.length}
      BY Zenon
    <2> QED
      BY <1>3, <2>2, <2>3, NextPceCountFacts
  <1> HIDE DEF b, st, v, l, u, m, p, sp, ss, w
  <1>9. /\ w \in TpState
        /\ w.block = b /\ w.start = st /\ w.valid = v /\ w.length = l
        /\ w.units = u /\ w.markers = m /\ w.pceCount = p
        /\ w.sincePce = sp /\ w.sinceSmc = ss
        /\ w.latmFrame = t.latmFrame /\ w.fillBits = t.fillBits
    BY <1>4, <1>6, <1>7, <1>8 DEF TpState, Unit
  <1> QED
    BY <1>1, <1>2, <1>6, <1>9 DEF b, st, v, l, u, m, p, sp, ss, w

LEMMA DabUnitEndFacts ==
    ASSUME cfg \in Configurations, NEW t \in TpState
    PROVE  /\ DabUnitEnd(t) \in Nat /\ DabUnitEnd(t) % 8 = 0
           /\ t.valid + 3 <= DabUnitEnd(t)
           /\ ~LastBlock(t) => DabUnitEnd(t) = AlignUp(t.valid + 3)
           /\ LastBlock(t) => DabUnitEnd(t) >= SuperframeBits - 16
  <1> DEFINE size == SuperframeBits
             room == size - 16 - 3 - t.valid
             fill == IF LastBlock(t) /\ room > 0 THEN FillElements(room) ELSE 0
  <1>1. t.valid \in Nat /\ size \in Nat /\ size % 8 = 0
    <2>1. size = 8 * (110 * cfg.subch) /\ 110 * cfg.subch \in Nat
      BY CfgFacts DEF SuperframeBits
    <2> QED
      BY SMTT(30), <2>1 DEF TpState
  <1>2. room \in Int
    BY <1>1
  <1>3. DabUnitEnd(t) = AlignUp(t.valid + 3 + fill)
    BY DEF DabUnitEnd
  <1> HIDE DEF size
  <1>4. room > 0 => FillElements(room) \in Nat /\ room - 7 <= FillElements(room)
    BY <1>2, FillElementsFacts DEF FillElements
  <1>5. fill \in Nat
    BY <1>4
  <1>6. LastBlock(t) => t.valid + 3 + fill >= size - 16 - 7
    <2>1. CASE LastBlock(t) /\ room > 0
      BY <2>1, <1>1, <1>4
    <2>2. CASE LastBlock(t) /\ ~(room > 0)
      BY <2>2, <1>1
    <2> QED
      BY <2>1, <2>2
  <1>7. ~LastBlock(t) => fill = 0
    OBVIOUS
  <1> HIDE DEF fill
  <1>8. DabUnitEnd(t) \in Nat /\ DabUnitEnd(t) % 8 = 0 /\ t.valid + 3 <= DabUnitEnd(t)
    BY <1>1, <1>3, <1>5 DEF AlignUp
  <1>9. LastBlock(t) => DabUnitEnd(t) >= size - 16
    BY <1>1, <1>3, <1>5, <1>6 DEF AlignUp
  <1>10. ~LastBlock(t) => DabUnitEnd(t) = AlignUp(t.valid + 3)
    BY <1>1, <1>3, <1>7
  <1> QED
    BY <1>8, <1>9, <1>10 DEF size

(* The fields of the state after transportEnc_EndAccessUnit(). *)
LEMMA EndFields ==
    ASSUME cfg \in Configurations, NEW t \in TpState, t.units # << >>
    PROVE  LET end == IF cfg.fmt = "dab" THEN DabUnitEnd(t) ELSE t.valid
               crc == IF cfg.fmt = "dab" \/ (cfg.fmt = "adts" /\ cfg.crc /\ cfg.nSubFrames > 1)
                      THEN 16 ELSE 0
               k   == Len(t.units)
               e   == EndAccessUnit(t)
           IN  /\ end \in Nat /\ crc \in {0, 16} /\ k \in Nat \ {0}
               /\ e \in TpState
               /\ e.valid = end + crc
               /\ e.units # << >> /\ Len(e.units) = k
               /\ \A i \in 1 .. k - 1 : e.units[i] = t.units[i]
               /\ e.units[k].from = t.units[k].from /\ e.units[k].to = end + crc
               /\ e.markers = IF cfg.fmt = "dab" THEN DabMarkers(t) ELSE t.markers
               /\ e.length = IF cfg.fmt = "adts" /\ cfg.nSubFrames > 1 /\ LastBlock(t)
                             THEN AdtsLength(end + crc) ELSE t.length
               /\ e.block = IF cfg.fmt \in {"adts", "dab"} THEN t.block + 1 ELSE t.block
               /\ e.start = t.start /\ e.latmFrame = t.latmFrame
               /\ e.pceCount = t.pceCount /\ e.fillBits = t.fillBits
               /\ e.sincePce = t.sincePce /\ e.sinceSmc = t.sinceSmc
  <1> DEFINE end == IF cfg.fmt = "dab" THEN DabUnitEnd(t) ELSE t.valid
             crc == IF cfg.fmt = "dab" \/ (cfg.fmt = "adts" /\ cfg.crc /\ cfg.nSubFrames > 1)
                    THEN 16 ELSE 0
             k   == Len(t.units)
             e   == EndAccessUnit(t)
             to  == end + crc
             new == [t.units[k] EXCEPT !.to = to]
             u   == [t.units EXCEPT ![k] = new]
             m   == IF cfg.fmt = "dab" THEN DabMarkers(t) ELSE t.markers
             l   == IF cfg.fmt = "adts" /\ cfg.nSubFrames > 1 /\ LastBlock(t)
                    THEN AdtsLength(end + crc) ELSE t.length
             b   == IF cfg.fmt \in {"adts", "dab"} THEN t.block + 1 ELSE t.block
  <1>1. end \in Nat /\ crc \in {0, 16} /\ to \in Nat
    BY SMTT(30), DabUnitEndFacts DEF TpState
  <1>2. t.units \in Seq(Unit) /\ t.units # << >> /\ k \in Nat \ {0}
    BY DEF TpState, Unit
  <1>3. t.units[k] \in Unit
    BY <1>2
  <1>4. new \in Unit /\ new.from = t.units[k].from /\ new.to = to
    BY <1>1, <1>3 DEF Unit
  <1>5. e = [t EXCEPT !.valid = to, !.units = u, !.markers = m, !.length = l, !.block = b]
    BY DEF EndAccessUnit
  <1>6. m \in Seq(Nat)
    <2>1. t.markers \in Seq(Nat) /\ t.start \div 8 \in Nat
      BY DEF TpState
    <2>2. Append(t.markers, t.start \div 8) \in Seq(Nat)
      BY <2>1, AppendProperties
    <2>3. DabMarkers(t) \in Seq(Nat)
      BY <2>1, <2>2 DEF DabMarkers
    <2> QED
      BY <2>1, <2>3
  <1>7. l \in Int /\ b \in Nat
    <2>1. AdtsLength(to) \in Nat
      BY <1>1, AdtsLengthFacts
    <2>2. l \in {AdtsLength(to), t.length} /\ b \in {t.block, t.block + 1}
      BY Zenon
    <2>3. t.length \in Int /\ t.block \in Nat
      BY DEF TpState
    <2> QED
      BY <2>1, <2>2, <2>3
  <1> HIDE DEF to, new, m, l, b, k
  <1>8. /\ u \in Seq(Unit) /\ Len(u) = Len(t.units)
        /\ \A j \in 1 .. Len(t.units) : u[j] = IF j = k THEN new ELSE t.units[j]
    BY <1>2, <1>4, ExceptSeq DEF k
  <1> HIDE DEF u, e
  <1>9. /\ e \in TpState
        /\ e.valid = to /\ e.units = u /\ e.markers = m /\ e.length = l /\ e.block = b
        /\ e.start = t.start /\ e.latmFrame = t.latmFrame
        /\ e.pceCount = t.pceCount /\ e.fillBits = t.fillBits
        /\ e.sincePce = t.sincePce /\ e.sinceSmc = t.sinceSmc
    BY <1>1, <1>5, <1>6, <1>7, <1>8 DEF TpState, Unit
  <1>10. u # << >> /\ u[k] = new /\ \A i \in 1 .. k - 1 : u[i] = t.units[i]
    BY <1>2, <1>8 DEF k
  <1> QED
    BY <1>1, <1>2, <1>4, <1>8, <1>9, <1>10 DEF to, m, l, b, k, e

(* transportEnc_GetFrame(), by format. *)
LEMMA GetFields ==
    ASSUME cfg \in Configurations, NEW t \in TpState
    PROVE  LET g == GetFrame(t)
           IN  /\ g \in TpState
               /\ g.start = t.start /\ g.pceCount = t.pceCount /\ g.fillBits = t.fillBits
               /\ g.units = t.units /\ g.markers = t.markers
               /\ g.sincePce = t.sincePce /\ g.sinceSmc = t.sinceSmc
               /\ ~(IsLatm /\ t.block + 1 >= cfg.nSubFrames) =>
                     g.valid = t.valid /\ g.latmFrame = t.latmFrame /\ g.length = t.length
               /\ IsLatm /\ t.block + 1 >= cfg.nSubFrames =>
                     /\ g.block = 0 /\ g.valid = t.valid + t.fillBits
                     /\ g.latmFrame = NextLatmFrame(t)
                     /\ cfg.fmt = "loas" => g.length = (t.valid + 7) \div 8 - 3
               /\ IsLatm /\ ~(t.block + 1 >= cfg.nSubFrames) => g.block = t.block + 1
               /\ cfg.fmt = "raw" => g.block = t.block + 1
               /\ cfg.fmt \in {"adts", "dab"} =>
                     g.block = IF t.block >= cfg.nSubFrames THEN 0 ELSE t.block
  <1> DEFINE g == GetFrame(t)
             l == IF cfg.fmt = "loas" THEN (t.valid + 7) \div 8 - 3 ELSE 0
             v == t.valid + t.fillBits
  <1>1. /\ t.block \in Nat /\ t.valid \in Nat /\ t.fillBits \in Nat /\ t.latmFrame \in Nat
        /\ t.block + 1 \in Nat
    BY DEF TpState
  <1>2. l \in Int /\ v \in Nat
    BY <1>1
  <1>3. NextLatmFrame(t) \in Nat
    BY <1>1, CfgFacts DEF NextLatmFrame
  <1>4. CASE IsLatm /\ t.block + 1 >= cfg.nSubFrames
    <2>1. FrameComplete(t)
      BY <1>4, Zenon DEF FrameComplete
    <2>2. g = [t EXCEPT !.block = 0, !.length = l, !.valid = v, !.latmFrame = NextLatmFrame(t)]
      BY <1>4, <2>1, Zenon DEF GetFrame, IsLatm
    <2>3. cfg.fmt \notin {"raw", "adts", "dab"}
      BY <1>4 DEF IsLatm
    <2>4. cfg.fmt = "loas" => l = (t.valid + 7) \div 8 - 3
      OBVIOUS
    <2> HIDE DEF g, l, v
    <2>5. /\ g \in TpState /\ g.block = 0 /\ g.length = l /\ g.valid = v
          /\ g.latmFrame = NextLatmFrame(t)
          /\ g.start = t.start /\ g.pceCount = t.pceCount /\ g.fillBits = t.fillBits
          /\ g.units = t.units /\ g.markers = t.markers
          /\ g.sincePce = t.sincePce /\ g.sinceSmc = t.sinceSmc
      BY <1>2, <1>3, <2>2 DEF TpState
    <2> QED
      BY <1>4, <2>3, <2>4, <2>5 DEF g, v
  <1>5. CASE (IsLatm /\ ~(t.block + 1 >= cfg.nSubFrames)) \/ cfg.fmt = "raw"
    <2>1. ~(IsLatm /\ FrameComplete(t))
      <3>1. CASE IsLatm /\ ~(t.block + 1 >= cfg.nSubFrames)
        BY <3>1, Zenon DEF FrameComplete, IsLatm
      <3>2. CASE cfg.fmt = "raw"
        BY <3>2 DEF IsLatm
      <3> QED
        BY <1>5, <3>1, <3>2
    <2>2. g = [t EXCEPT !.block = t.block + 1]
      BY <1>5, <2>1, Zenon DEF GetFrame
    <2>3. cfg.fmt \notin {"adts", "dab"} /\ ~(IsLatm /\ t.block + 1 >= cfg.nSubFrames)
      BY <1>5 DEF IsLatm
    <2> HIDE DEF g
    <2>4. /\ g \in TpState /\ g.block = t.block + 1 /\ g.length = t.length
          /\ g.valid = t.valid /\ g.latmFrame = t.latmFrame
          /\ g.start = t.start /\ g.pceCount = t.pceCount /\ g.fillBits = t.fillBits
          /\ g.units = t.units /\ g.markers = t.markers
          /\ g.sincePce = t.sincePce /\ g.sinceSmc = t.sinceSmc
      BY <1>1, <2>2 DEF TpState
    <2> QED
      BY <2>3, <2>4 DEF g
  <1>6. CASE cfg.fmt \in {"adts", "dab"}
    <2>1. ~IsLatm /\ cfg.fmt # "raw"
      BY <1>6 DEF IsLatm
    <2>2. FrameComplete(t) <=> t.block >= cfg.nSubFrames
      BY <2>1, Zenon DEF FrameComplete
    <2>3. g = IF t.block >= cfg.nSubFrames THEN [t EXCEPT !.block = 0] ELSE t
      BY <2>1, <2>2, Zenon DEF GetFrame
    <2> HIDE DEF g
    <2>4. /\ g \in TpState /\ g.length = t.length
          /\ g.block = IF t.block >= cfg.nSubFrames THEN 0 ELSE t.block
          /\ g.valid = t.valid /\ g.latmFrame = t.latmFrame
          /\ g.start = t.start /\ g.pceCount = t.pceCount /\ g.fillBits = t.fillBits
          /\ g.units = t.units /\ g.markers = t.markers
          /\ g.sincePce = t.sincePce /\ g.sinceSmc = t.sinceSmc
      <3>1. CASE t.block >= cfg.nSubFrames
        BY <1>1, <2>3, <3>1 DEF TpState
      <3>2. CASE ~(t.block >= cfg.nSubFrames)
        BY <2>3, <3>2
      <3> QED
        BY <3>1, <3>2
    <2> QED
      BY <2>1, <2>4 DEF g
  <1> QED
    BY <1>4, <1>5, <1>6, CfgFacts DEF Formats, IsLatm


-----------------------------------------------------------------------------
(* Types of the rate control *)

LEMMA BudgetTypes ==
    ASSUME NEW q \in QcState, NEW f \in FrameState
    PROVE  /\ Budget(q, f) \in Nat
           /\ GrantedDynBits(q, f) \in Int /\ MaxDynBits(q, f) \in Int
  BY DEF QcState, FrameState, Budget, GrantedDynBits, MaxDynBits, Least, AlignDown

LEMMA PreparedFields ==
    ASSUME NEW q \in QcState, NEW f \in FrameState
    PROVE  LET r == Prepared(q, f)
           IN  /\ r \in FrameState
               /\ r.granted = IF TooLow(q, f) /\ cfg.unlock THEN 0 ELSE GrantedDynBits(q, f)
               /\ r.avg = f.avg /\ r.hdr = f.hdr /\ r.static = f.static
               /\ r.least = f.least /\ r.ext = f.ext
  <1> DEFINE g == IF TooLow(q, f) /\ cfg.unlock THEN 0 ELSE GrantedDynBits(q, f)
             m == MaxDynBits(q, f)
             r == Prepared(q, f)
  <1>1. g \in Int /\ m \in Int
    BY BudgetTypes
  <1>2. r = [f EXCEPT !.granted = g, !.maxDyn = m,
                      !.iterations = 0, !.counted = FALSE, !.decrease = FALSE]
    BY DEF Prepared
  <1> HIDE DEF g, m, r
  <1>3. /\ r \in FrameState /\ r.granted = g
        /\ r.avg = f.avg /\ r.hdr = f.hdr /\ r.static = f.static
        /\ r.least = f.least /\ r.ext = f.ext
    BY <1>1, <1>2 DEF FrameState
  <1> QED
    BY <1>3 DEF r, g

(* FDKaacEnc_updateFillBits(): what is to be filled without the minimum. *)
BaseFill(q, f) ==
    IF cfg.mode = "vbr" THEN (f.granted - f.dyn) % 8 ELSE FillForReservoir(q, f)

LEMMA FillFields ==
    ASSUME NEW q \in QcState, NEW f \in FrameState
    PROVE  LET r == UpdateFillBits(q, f)
               b == BaseFill(q, f)
           IN  /\ r \in FrameState /\ b \in Nat /\ UsedBits(f) \in Nat
               /\ r.fill = b + AlignUp(Most(0, q.minBitsPerFrame - (UsedBits(f) + b)))
               /\ r.total = UsedBits(r) + r.fill /\ UsedBits(r) = UsedBits(f)
               /\ r.avg = f.avg /\ r.hdr = f.hdr /\ r.static = f.static
               /\ r.least = f.least /\ r.ext = f.ext /\ r.granted = f.granted
               /\ r.dyn = f.dyn
  <1> DEFINE r == UpdateFillBits(q, f)
             b == BaseFill(q, f)
             fill == b + AlignUp(Most(0, q.minBitsPerFrame - (UsedBits(f) + b)))
             total == UsedBits(f) + fill
  <1>1. /\ q.minBitsPerFrame \in Int /\ q.bitResTot \in Int /\ q.bitResTotMax \in Int
        /\ f.granted \in Int /\ f.dyn \in Nat /\ f.static \in Nat /\ f.ext \in Nat
    BY DEF QcState, FrameState
  <1>2. UsedBits(f) \in Nat
    BY <1>1 DEF UsedBits
  <1>3. b \in Nat
    <2> DEFINE delta == f.granted - f.dyn
    <2>1. delta \in Int /\ delta % 8 \in Nat
      BY <1>1
    <2>2. CASE cfg.mode = "vbr"
      BY <2>1, <2>2 DEF BaseFill
    <2>3. CASE cfg.mode # "vbr"
      <3> DEFINE rest == delta - AlignDown(Most(0, (q.bitResTotMax - q.bitResTot) - 7))
      <3>1. rest \in Int
        BY <1>1 DEF Most, AlignDown
      <3>2. b = Most(delta % 8, rest)
        BY <2>3 DEF BaseFill, FillForReservoir
      <3> HIDE DEF rest, delta, b
      <3> QED
        BY <2>1, <3>1, <3>2 DEF Most
    <2> QED
      BY <2>2, <2>3
  <1>4. r = [f EXCEPT !.fill = fill, !.total = total]
    BY DEF UpdateFillBits, BaseFill
  <1> HIDE DEF b, r
  <1>5. fill \in Nat /\ total \in Nat
    BY <1>1, <1>2, <1>3 DEF AlignUp, Most
  <1> HIDE DEF fill, total
  <1>6. /\ r \in FrameState /\ r.fill = fill /\ r.total = total
        /\ r.avg = f.avg /\ r.hdr = f.hdr /\ r.static = f.static
        /\ r.least = f.least /\ r.ext = f.ext /\ r.granted = f.granted
        /\ r.dyn = f.dyn
    BY <1>4, <1>5 DEF FrameState
  <1>7. UsedBits(r) = UsedBits(f)
    BY <1>6 DEF UsedBits
  <1> QED
    BY <1>2, <1>3, <1>6, <1>7 DEF r, b, fill, total

(* FDKaacEnc_FinalizeBitConsumption(), first half: the header is settled    *)
(* as it was estimated, or the difference is distributed.                   *)
LEMMA SettledFields ==
    ASSUME cfg \in Configurations, NEW q \in QcState, NEW f \in FrameState, NEW t \in TpState
    PROVE  LET exact == StaticBits(t, f.total)
               space == q.bitResTotMax - (q.bitResTot + (f.granted - (f.dyn + f.fill)))
               diff  == AlignUp(Most(0, (f.hdr - exact) - space))
               hdr   == StaticBits(t, f.total + diff)
               p     == HeaderSettled(q, f, t)[1]
               r     == HeaderSettled(q, f, t)[2]
           IN  /\ p \in QcState /\ r \in FrameState
               /\ exact \in Nat /\ space \in Int /\ diff \in Nat /\ hdr \in Nat
               /\ p.bitResTotMax = q.bitResTotMax /\ p.paddingRest = q.paddingRest
               /\ p.maxBitsPerFrame = q.maxBitsPerFrame
               /\ p.minBitsPerFrame = q.minBitsPerFrame
               /\ r.avg = f.avg /\ r.static = f.static /\ r.least = f.least
               /\ r.ext = f.ext /\ r.dyn = f.dyn
               /\ cfg.mode = "vbr" \/ exact = f.hdr =>
                     /\ p.bitResTot = q.bitResTot
                     /\ r.hdr = exact /\ r.fill = f.fill /\ r.total = f.total
                     /\ r.granted = f.granted
               /\ ~(cfg.mode = "vbr" \/ exact = f.hdr) =>
                     /\ p.bitResTot = q.bitResTot + (f.hdr - exact - diff) - (hdr - exact)
                     /\ r.hdr = hdr /\ r.fill = f.fill + diff /\ r.total = f.total + diff
                     /\ r.granted = f.granted + diff
  <1> DEFINE exact == StaticBits(t, f.total)
             space == q.bitResTotMax - (q.bitResTot + (f.granted - (f.dyn + f.fill)))
             diff  == AlignUp(Most(0, (f.hdr - exact) - space))
             hdr   == StaticBits(t, f.total + diff)
             p     == HeaderSettled(q, f, t)[1]
             r     == HeaderSettled(q, f, t)[2]
             level == q.bitResTot + (f.hdr - exact - diff) - (hdr - exact)
  <1>1. /\ q.bitResTot \in Int /\ q.bitResTotMax \in Int
        /\ f.granted \in Int /\ f.dyn \in Nat /\ f.fill \in Nat
        /\ f.hdr \in Nat /\ f.total \in Nat
    BY DEF QcState, FrameState
  <1>2. exact \in Nat
    BY <1>1, StaticSplit
  <1>3. space \in Int
    BY <1>1
  <1> HIDE DEF exact, space
  <1>4. diff \in Nat
    BY <1>1, <1>2, <1>3 DEF AlignUp, Most
  <1> HIDE DEF diff
  <1>5. hdr \in Nat
    BY <1>1, <1>4, StaticSplit
  <1> HIDE DEF hdr
  <1>6. level \in Int /\ f.fill + diff \in Nat /\ f.total + diff \in Nat
        /\ f.granted + diff \in Int
    BY <1>1, <1>2, <1>4, <1>5
  <1>7. CASE cfg.mode = "vbr" \/ exact = f.hdr
    <2>1. p = q /\ r = [f EXCEPT !.hdr = exact]
      BY <1>7 DEF HeaderSettled, exact
    <2> HIDE DEF p, r
    <2>2. /\ r \in FrameState /\ r.hdr = exact
          /\ r.avg = f.avg /\ r.static = f.static /\ r.least = f.least
          /\ r.ext = f.ext /\ r.dyn = f.dyn
          /\ r.fill = f.fill /\ r.total = f.total /\ r.granted = f.granted
      BY <1>2, <2>1 DEF FrameState
    <2> QED
      BY <1>2, <1>3, <1>4, <1>5, <1>7, <2>1, <2>2 DEF p, r, exact, space, diff, hdr
  <1>8. CASE ~(cfg.mode = "vbr" \/ exact = f.hdr)
    <2>1. /\ p = [q EXCEPT !.bitResTot = level]
          /\ r = [f EXCEPT !.fill = f.fill + diff, !.total = f.total + diff,
                           !.granted = f.granted + diff, !.hdr = hdr]
      BY <1>8 DEF HeaderSettled, exact, space, diff, hdr
    <2> HIDE DEF p, r, level
    <2>2. /\ p \in QcState /\ p.bitResTot = level
          /\ p.bitResTotMax = q.bitResTotMax /\ p.paddingRest = q.paddingRest
          /\ p.maxBitsPerFrame = q.maxBitsPerFrame /\ p.minBitsPerFrame = q.minBitsPerFrame
      BY <1>6, <2>1 DEF QcState
    <2>3. /\ r \in FrameState /\ r.hdr = hdr /\ r.fill = f.fill + diff
          /\ r.total = f.total + diff /\ r.granted = f.granted + diff
          /\ r.avg = f.avg /\ r.static = f.static /\ r.least = f.least
          /\ r.ext = f.ext /\ r.dyn = f.dyn
      BY <1>5, <1>6, <2>1 DEF FrameState
    <2> QED
      BY <1>2, <1>3, <1>4, <1>5, <1>8, <2>2, <2>3 DEF p, r, exact, space, diff, hdr, level
  <1> QED
    BY <1>7, <1>8

(* Second half: the frame ends on a byte. *)
LEMMA AlignedFields ==
    ASSUME NEW f \in FrameState
    PROVE  LET r == Aligned(f)
           IN  /\ r \in FrameState /\ UsedBits(f) \in Nat /\ UsedBits(r) = UsedBits(f)
               /\ r.align \in 0 .. 7
               /\ r.total = UsedBits(r) + r.fill + r.align
               /\ r.total % 8 = 0
               /\ FillData(r.fill) = r.fill
               /\ (UsedBits(f) + f.fill) % 8 = 0 =>
                     r.fill + r.align = f.fill
               /\ r.avg = f.avg /\ r.hdr = f.hdr /\ r.static = f.static
               /\ r.least = f.least /\ r.ext = f.ext /\ r.granted = f.granted
               /\ r.dyn = f.dyn
  <1> DEFINE fill0 == FillData(f.fill)
             used == UsedBits(f)
             align == 7 - ((used + fill0 - 1) % 8)
             r == Aligned(f)
             total == used + fill0 + align
  <1>1. f.fill \in Nat /\ f.dyn \in Nat /\ f.static \in Nat /\ f.ext \in Nat
    BY DEF FrameState
  <1>2. used \in Nat
    BY <1>1 DEF UsedBits
  <1>3. fill0 \in Nat /\ fill0 <= f.fill /\ f.fill - fill0 <= 7 /\ FillData(fill0) = fill0
    BY <1>1, FillDataFacts
  <1> HIDE DEF fill0, used
  <1>4. align \in 0 .. 7 /\ (used + fill0 + align) % 8 = 0
    BY <1>2, <1>3
  <1>5. align + fill0 - f.fill # 8
    BY <1>1, <1>3, <1>4
  <1>6. r = [f EXCEPT !.fill = fill0, !.align = align, !.total = total]
    BY <1>5 DEF Aligned, fill0, used
  <1>7. (used + f.fill) % 8 = 0 => fill0 + align = f.fill
    BY <1>1, <1>2, <1>3, <1>4
  <1> HIDE DEF align, r
  <1>8. total \in Nat /\ align \in Nat
    BY <1>2, <1>3, <1>4
  <1> HIDE DEF total
  <1>9. /\ r \in FrameState /\ r.fill = fill0 /\ r.align = align /\ r.total = total
        /\ r.avg = f.avg /\ r.hdr = f.hdr /\ r.static = f.static
        /\ r.least = f.least /\ r.ext = f.ext /\ r.granted = f.granted
        /\ r.dyn = f.dyn
    BY <1>3, <1>6, <1>8 DEF FrameState
  <1>10. UsedBits(r) = used
    BY <1>9 DEF UsedBits, used
  <1> QED
    BY <1>2, <1>3, <1>4, <1>7, <1>9, <1>10 DEF r, used, total

-----------------------------------------------------------------------------
(* Steps *)

(* The configuration does not change: nor do the numbers it stands for. *)
LEMMA SameConfig ==
    ASSUME cfg' = cfg
    PROVE  /\ IsLatm' <=> IsLatm
           /\ BufferSize' = BufferSize /\ AverageBits' = AverageBits
           /\ AverageBitsPerFrame' = AverageBitsPerFrame
           /\ BitRes' = BitRes /\ MaxBits' = MaxBits /\ MinBits' = MinBits
           /\ SuperframeBits' = SuperframeBits
           /\ NoReservoir' <=> NoReservoir
  <1>1. IsLatm' <=> IsLatm
    BY DEF IsLatm
  <1>2. /\ BufferSize' = BufferSize /\ AverageBits' = AverageBits
        /\ AverageBitsPerFrame' = AverageBitsPerFrame
    BY DEF BufferSize, AverageBits, AverageBitsPerFrame
  <1>3. BitRes' = BitRes
    BY <1>2 DEF BitRes
  <1>4. MaxBits' = MaxBits
    BY <1>2, <1>3 DEF MaxBits
  <1>5. TpInit' = TpInit
    BY DEF TpInit
  <1>6. /\ StaticBits(TpInit, AverageBits + BitRes)' = StaticBits(TpInit, AverageBits + BitRes)
        /\ StaticBits(TpInit, MaxBits)' = StaticBits(TpInit, MaxBits)
    BY <1>2, <1>3, <1>4, <1>5 DEF StaticBits, PceBits, PceDue, AdtsHeaderBits, DabHeaderBits,
                                  LatmFixedBits, SmcDue
  <1>7. MinBits' = MinBits
    BY <1>2, <1>3, <1>6 DEF MinBits
  <1>8. SuperframeBits' = SuperframeBits
    BY DEF SuperframeBits
  <1> QED
    BY <1>1, <1>2, <1>3, <1>4, <1>7, <1>8 DEF NoReservoir

LEMMA SameFormat ==
    ASSUME cfg' = cfg, NEW t, NEW n
    PROVE  /\ StaticBits(t, n)' = StaticBits(t, n)
           /\ LatmFillBits(t)' = LatmFillBits(t)
           /\ DabHeaderBits(t)' = DabHeaderBits(t)
           /\ FillData(n)' = FillData(n)
  BY DEF StaticBits, PceBits, PceDue, AdtsHeaderBits, DabHeaderBits, LatmFixedBits, SmcDue,
         LatmFillBits, FillData, FillElements, FillLeft, IsLatm

(* The static bits depend on the sub-frame and the two counters alone. *)
LEMMA SameStatic ==
    ASSUME NEW t, NEW w, NEW n,
           w.block = t.block, w.latmFrame = t.latmFrame, w.pceCount = t.pceCount
    PROVE  StaticBits(w, n) = StaticBits(t, n) /\ LatmFixedBits(w) = LatmFixedBits(t)
  BY DEF StaticBits, PceBits, PceDue, AdtsHeaderBits, DabHeaderBits, LatmFixedBits, SmcDue

LEMMA InitTypes ==
    ASSUME Init
    PROVE  TypeInv
  <1> USE DEF Init
  <1>1. cfg \in Configurations /\ tp \in TpState
    BY TpInitOK
  <1>2. qc \in QcState /\ QcFixed
    BY <1>1, ReservoirFacts, CfgFacts DEF QcState, QcInit, QcFixed
  <1>3. frame \in FrameState
    BY DEF FrameState, NoFrame
  <1> QED
    BY <1>1, <1>2, <1>3 DEF TypeInv, TypeOK, Errors, FrameOK, UnitOpen, Coding, Estimated, Writing

(* What is fixed stays fixed. *)
LEMMA FixedStep ==
    ASSUME cfg' = cfg, QcFixed,
           qc'.bitResTotMax = qc.bitResTotMax, qc'.maxBitsPerFrame = qc.maxBitsPerFrame,
           qc'.minBitsPerFrame = qc.minBitsPerFrame,
           qc'.paddingRest \in 1 .. cfg.sampleRate
    PROVE  QcFixed'
  BY SameConfig DEF QcFixed

(* The frame that begins. *)
Begun(side) ==
    [frame EXCEPT !.avg = AvgTotalBits(qc),
                  !.hdr = HeaderEstimate(qc, AvgTotalBits(qc)),
                  !.static = side.static,
                  !.least = side.least,
                  !.ext = side.ext]

LEMMA BegunFields ==
    ASSUME TypeInv, NEW side \in cfg.sides
    PROVE  LET f == Begun(side)
           IN  /\ f \in FrameState
               /\ f.avg = AvgTotalBits(qc)
               /\ f.hdr = StaticBits(tp, AvgTotalBits(qc) + qc.bitResTot)
               /\ f.static = side.static /\ f.least = side.least /\ f.ext = side.ext
  <1> DEFINE h == HeaderEstimate(qc, AvgTotalBits(qc))
             a == AvgTotalBits(qc)
             f == Begun(side)
  <1>1. cfg \in Configurations /\ tp \in TpState /\ qc \in QcState /\ frame \in FrameState
    BY DEF TypeInv, TypeOK
  <1>2. a \in Nat
    BY <1>1, AverageFacts DEF TypeInv, QcFixed
  <1>3. h \in Nat
    BY <1>1, <1>2, StaticSplit DEF HeaderEstimate, QcState
  <1>4. side.static \in Nat /\ side.least \in Nat /\ side.ext \in Nat
    BY <1>1, SideFacts
  <1>5. f = [frame EXCEPT !.avg = a, !.hdr = h, !.static = side.static,
                          !.least = side.least, !.ext = side.ext]
    BY DEF Begun
  <1> HIDE DEF a, h, f
  <1>6. /\ f \in FrameState /\ f.avg = a /\ f.hdr = h
        /\ f.static = side.static /\ f.least = side.least /\ f.ext = side.ext
    BY <1>1, <1>2, <1>3, <1>4, <1>5 DEF FrameState
  <1> QED
    BY <1>6 DEF a, h, f, HeaderEstimate

(* BeginFrame, said without EXCEPT. *)
LEMMA BeginFields ==
    ASSUME TypeInv, BeginFrame
    PROVE  /\ pc = "frame" /\ cfg' = cfg
           /\ qc' \in QcState /\ qc'.bitResTot = qc.bitResTot
           /\ qc'.bitResTotMax = qc.bitResTotMax
           /\ qc'.maxBitsPerFrame = qc.maxBitsPerFrame
           /\ qc'.minBitsPerFrame = qc.minBitsPerFrame
           /\ qc'.paddingRest \in 1 .. cfg.sampleRate
           /\ tp' \in TpState
           /\ tp'.fillBits = IF IsLatm THEN LatmFillBits(tp) ELSE 0
           /\ tp'.block = tp.block /\ tp'.latmFrame = tp.latmFrame
           /\ tp'.pceCount = tp.pceCount /\ tp'.start = tp.start /\ tp'.valid = tp.valid
           /\ tp'.length = tp.length /\ tp'.units = tp.units /\ tp'.markers = tp.markers
           /\ tp'.sincePce = tp.sincePce /\ tp'.sinceSmc = tp.sinceSmc
           /\ frame' \in FrameState
           /\ frame'.avg = AvgTotalBits(qc)
           /\ frame'.hdr = StaticBits(tp, AvgTotalBits(qc) + qc.bitResTot)
           /\ frame'.least \in 1 .. frame'.static
           /\ cfg.er \/ frame'.ext >= 3
           /\ \E f \in FrameState :
                 /\ f.avg = frame'.avg /\ f.hdr = frame'.hdr /\ f.static = frame'.static
                 /\ f.least = frame'.least /\ f.ext = frame'.ext
                 /\ frame'.granted = IF TooLow(qc, f) /\ cfg.unlock THEN 0
                                     ELSE GrantedDynBits(qc, f)
                 /\ \/ /\ pc' = "quantize" /\ error' = error /\ balance' = balance
                       /\ BitResError(qc) = "none" /\ ~(TooLow(qc, f) /\ ~cfg.unlock)
                    \/ /\ pc' = "failed" /\ balance' = balance
                       /\ error' = BitResError(qc) /\ BitResError(qc) # "none"
                    \/ /\ pc' = "failed" /\ balance' = balance /\ ~cfg.unlock
                       /\ error' = "bitres_too_low"
  <1>1. cfg \in Configurations /\ tp \in TpState /\ qc \in QcState /\ frame \in FrameState
        /\ qc.paddingRest \in 1 .. cfg.sampleRate
    BY DEF TypeInv, TypeOK, QcFixed
  <1>2. PICK side \in cfg.sides :
            /\ qc' = [qc EXCEPT !.paddingRest = NextPaddingRest(qc)]
            /\ tp' = [tp EXCEPT !.fillBits = IF IsLatm THEN LatmFillBits(tp) ELSE 0]
            /\ frame' = Prepared(qc, Begun(side))
            /\ IF BitResError(qc) # "none" THEN Fail(BitResError(qc))
               ELSE IF TooLow(qc, Begun(side)) /\ ~cfg.unlock THEN Fail("bitres_too_low")
               ELSE pc' = "quantize" /\ UNCHANGED <<error, balance>>
    BY DEF BeginFrame, Begun
  <1> DEFINE f == Begun(side)
             rest == NextPaddingRest(qc)
             fb == IF IsLatm THEN LatmFillBits(tp) ELSE 0
  <1>3. rest \in 1 .. cfg.sampleRate
    BY <1>1, AverageFacts
  <1>4. /\ qc' \in QcState /\ qc'.bitResTot = qc.bitResTot
        /\ qc'.bitResTotMax = qc.bitResTotMax
        /\ qc'.maxBitsPerFrame = qc.maxBitsPerFrame
        /\ qc'.minBitsPerFrame = qc.minBitsPerFrame
        /\ qc'.paddingRest \in 1 .. cfg.sampleRate
    <2>1. qc' = [qc EXCEPT !.paddingRest = rest] /\ rest \in Int
      BY <1>2, <1>3, CfgFacts, <1>1
    <2> HIDE DEF rest
    <2> QED
      BY <1>1, <1>3, <2>1 DEF QcState
  <1>5. fb \in Nat
    <2>1. AlignUp(LatmFixedBits(tp)) - LatmFixedBits(tp) \in Nat
      BY <1>1, LatmFixedFacts DEF AlignUp
    <2> QED
      BY <1>1, <2>1 DEF LatmFillBits, TpState
  <1>6. /\ tp' \in TpState /\ tp'.fillBits = fb
        /\ tp'.block = tp.block /\ tp'.latmFrame = tp.latmFrame
        /\ tp'.pceCount = tp.pceCount /\ tp'.start = tp.start /\ tp'.valid = tp.valid
        /\ tp'.length = tp.length /\ tp'.units = tp.units /\ tp'.markers = tp.markers
        /\ tp'.sincePce = tp.sincePce /\ tp'.sinceSmc = tp.sinceSmc
    <2>1. tp' = [tp EXCEPT !.fillBits = fb]
      BY <1>2
    <2> HIDE DEF fb
    <2> QED
      BY <1>1, <1>5, <2>1 DEF TpState
  <1>7. /\ f \in FrameState
        /\ f.avg = AvgTotalBits(qc)
        /\ f.hdr = StaticBits(tp, AvgTotalBits(qc) + qc.bitResTot)
        /\ f.static = side.static /\ f.least = side.least /\ f.ext = side.ext
    BY BegunFields
  <1>8. /\ side.least \in 1 .. side.static
        /\ cfg.er \/ side.ext >= 3
    BY <1>1, SideFacts
  <1> HIDE DEF f
  <1>9. frame' = Prepared(qc, f)
    BY <1>2 DEF f
  <1>10. /\ frame' \in FrameState
         /\ f.avg = frame'.avg /\ f.hdr = frame'.hdr /\ f.static = frame'.static
         /\ f.least = frame'.least /\ f.ext = frame'.ext
         /\ frame'.granted = IF TooLow(qc, f) /\ cfg.unlock THEN 0 ELSE GrantedDynBits(qc, f)
    BY <1>1, <1>7, <1>9, PreparedFields
  <1>11. \/ /\ pc' = "quantize" /\ error' = error /\ balance' = balance
            /\ BitResError(qc) = "none" /\ ~(TooLow(qc, f) /\ ~cfg.unlock)
         \/ /\ pc' = "failed" /\ balance' = balance
            /\ error' = BitResError(qc) /\ BitResError(qc) # "none"
         \/ /\ pc' = "failed" /\ balance' = balance /\ ~cfg.unlock
            /\ error' = "bitres_too_low"
    BY <1>2, Zenon DEF Fail, f
  <1>12. pc = "frame" /\ cfg' = cfg
    BY DEF BeginFrame
  <1> QED
    BY <1>4, <1>6, <1>7, <1>8, <1>10, <1>11, <1>12

(* FDKaacEnc_reduceBitConsumption(): side information may be saved. *)
LEMMA ReducedFields ==
    ASSUME NEW f \in FrameState, f.least \in 1 .. f.static, NEW r \in Reductions(f)
    PROVE  /\ r \in FrameState
           /\ r.avg = f.avg /\ r.hdr = f.hdr /\ r.least = f.least /\ r.ext = f.ext
           /\ r.least \in 1 .. r.static
           /\ r.granted + r.static = f.granted + f.static
           /\ r.dyn = f.dyn
  <1>1. PICK saved \in {0, f.static - f.least} :
            r = [f EXCEPT !.iterations = @ + 1,
                          !.static = @ - saved, !.granted = @ + saved, !.maxDyn = @ + saved]
    BY DEF Reductions
  <1>2. /\ f.static - saved \in Nat /\ f.granted + saved \in Int /\ f.maxDyn + saved \in Int
        /\ f.iterations + 1 \in Nat /\ f.least <= f.static - saved
        /\ f.granted \in Int /\ f.static \in Nat /\ saved \in Int
    BY DEF FrameState
  <1>3. /\ r \in FrameState
        /\ r.avg = f.avg /\ r.hdr = f.hdr /\ r.least = f.least /\ r.ext = f.ext
        /\ r.static = f.static - saved /\ r.granted = f.granted + saved
        /\ r.dyn = f.dyn
    BY <1>1, <1>2 DEF FrameState
  <1> QED
    BY <1>2, <1>3

(* A quantisation changes the dynamic bits alone. *)
LEMMA QuantizeFields ==
    ASSUME TypeInv, Quantize
    PROVE  /\ frame' \in FrameState
           /\ frame'.avg = frame.avg /\ frame'.hdr = frame.hdr /\ frame'.static = frame.static
           /\ frame'.least = frame.least /\ frame'.ext = frame.ext
           /\ frame'.granted = frame.granted
           /\ \E f \in FrameState :
                 /\ f.avg = frame.avg /\ f.hdr = frame.hdr /\ f.static = frame.static
                 /\ f.least = frame.least /\ f.ext = frame.ext /\ f.dyn = frame'.dyn
                 /\ f.dyn = 0 => f.static = f.least
                 /\ pc' = "reduce" \/ (pc' = "fill" /\ QuantizationDone(qc, f))
  <1>1. frame \in FrameState /\ cfg.demands \subseteq Nat
    BY CfgFacts DEF TypeInv, TypeOK
  <1>2. PICK d \in Demands(frame) :
            LET f == [frame EXCEPT !.dyn = d, !.counted = TRUE]
            IN  IF QuantizationDone(qc, f)
                THEN frame' = f /\ pc' = "fill"
                ELSE frame' = [f EXCEPT !.decrease = TRUE] /\ pc' = "reduce"
    BY DEF Quantize
  <1> DEFINE f == [frame EXCEPT !.dyn = d, !.counted = TRUE]
             r == [f EXCEPT !.decrease = TRUE]
  <1>3. d \in Nat /\ (d = 0 => frame.static = frame.least)
    BY <1>1 DEF Demands
  <1>4. /\ f \in FrameState /\ f.dyn = d
        /\ f.avg = frame.avg /\ f.hdr = frame.hdr /\ f.static = frame.static
        /\ f.least = frame.least /\ f.ext = frame.ext /\ f.granted = frame.granted
    BY <1>1, <1>3 DEF FrameState
  <1>5. \/ QuantizationDone(qc, f) /\ frame' = f /\ pc' = "fill"
        \/ frame' = r /\ pc' = "reduce"
    BY <1>2, Zenon
  <1> HIDE DEF f
  <1>6. /\ r \in FrameState /\ r.dyn = f.dyn
        /\ r.avg = f.avg /\ r.hdr = f.hdr /\ r.static = f.static
        /\ r.least = f.least /\ r.ext = f.ext /\ r.granted = f.granted
    BY <1>4 DEF FrameState
  <1> QED
    BY <1>3, <1>4, <1>5, <1>6

(* FDKaacEnc_updateBitres() *)
LEMMA UpdatedFields ==
    ASSUME cfg \in Configurations, NEW q \in QcState, NEW f \in FrameState
    PROVE  LET p == UpdateBitres(q, f)
               level == q.bitResTot + f.granted - (f.dyn + f.fill + f.align)
           IN  /\ p \in QcState
               /\ p.bitResTotMax = q.bitResTotMax /\ p.paddingRest = q.paddingRest
               /\ p.maxBitsPerFrame = q.maxBitsPerFrame
               /\ p.minBitsPerFrame = q.minBitsPerFrame
               /\ cfg.mode = "vbr" => p.bitResTot = Least(q.maxBitsPerFrame, q.bitResTotMax)
               /\ cfg.mode # "vbr" /\ cfg.unlock => p.bitResTot = Most(0, level)
               /\ cfg.mode # "vbr" /\ ~cfg.unlock => p.bitResTot = level
  <1> DEFINE p == UpdateBitres(q, f)
             level == q.bitResTot + f.granted - (f.dyn + f.fill + f.align)
             new == IF cfg.mode = "vbr" THEN Least(q.maxBitsPerFrame, q.bitResTotMax)
                    ELSE IF cfg.unlock THEN Most(0, level) ELSE level
  <1>1. level \in Int /\ q.maxBitsPerFrame \in Int /\ q.bitResTotMax \in Int
    BY DEF QcState, FrameState
  <1>2. p = [q EXCEPT !.bitResTot = new]
    BY DEF UpdateBitres
  <1> HIDE DEF level, p
  <1>3. new \in Int
    BY <1>1 DEF Least, Most
  <1>4. /\ cfg.mode = "vbr" => new = Least(q.maxBitsPerFrame, q.bitResTotMax)
        /\ cfg.mode # "vbr" /\ cfg.unlock => new = Most(0, level)
        /\ cfg.mode # "vbr" /\ ~cfg.unlock => new = level
    OBVIOUS
  <1> HIDE DEF new
  <1>5. /\ p \in QcState /\ p.bitResTot = new
        /\ p.bitResTotMax = q.bitResTotMax /\ p.paddingRest = q.paddingRest
        /\ p.maxBitsPerFrame = q.maxBitsPerFrame
        /\ p.minBitsPerFrame = q.minBitsPerFrame
    BY <1>2, <1>3 DEF QcState
  <1> QED
    BY <1>4, <1>5 DEF p, level

(* The bits written behind the header. *)
Written == UsedBits(frame) + FillData(frame.fill)
           + IF cfg.fmt = "dab" THEN -3 ELSE frame.align

LEMMA WrittenFields ==
    ASSUME TypeInv, WriteBitstream
    PROVE  /\ Written \in Nat
           /\ tp' \in TpState /\ tp'.valid = tp.valid + Written
           /\ tp'.block = tp.block /\ tp'.latmFrame = tp.latmFrame
           /\ tp'.pceCount = tp.pceCount /\ tp'.start = tp.start
           /\ tp'.fillBits = tp.fillBits
           /\ tp'.length = tp.length /\ tp'.units = tp.units /\ tp'.markers = tp.markers
           /\ tp'.sincePce = tp.sincePce /\ tp'.sinceSmc = tp.sinceSmc
  <1>1. cfg \in Configurations /\ tp \in TpState /\ frame \in FrameState /\ pc = "payload"
    BY DEF TypeInv, TypeOK, WriteBitstream
  <1>2. cfg.er \/ frame.ext >= 3
    BY <1>1 DEF TypeInv, FrameOK, Writing
  <1>3. /\ frame.static \in Nat /\ frame.dyn \in Nat /\ frame.ext \in Nat
        /\ frame.fill \in Nat /\ frame.align \in Nat
    BY <1>1 DEF FrameState
  <1>4. FillData(frame.fill) \in Nat
    BY <1>3, FillDataFacts
  <1>5. Written \in Nat
    <2>1. CASE cfg.fmt = "dab"
      <3>1. frame.ext >= 3
        BY <1>1, <1>2, <2>1, CfgFacts
      <3> QED
        BY <1>3, <1>4, <2>1, <3>1 DEF Written, UsedBits
    <2>2. CASE cfg.fmt # "dab"
      BY <1>3, <1>4, <2>2 DEF Written, UsedBits
    <2> QED
      BY <2>1, <2>2
  <1> DEFINE v == tp.valid + Written
  <1>6. v \in Nat
    BY <1>1, <1>5 DEF TpState
  <1>7. tp' = [tp EXCEPT !.valid = v]
    <2>1. v = tp.valid + UsedBits(frame) + FillData(frame.fill)
              + IF cfg.fmt = "dab" THEN -3 ELSE frame.align
      <3>1. tp.valid \in Nat
        BY <1>1 DEF TpState
      <3>2. UsedBits(frame) \in Nat
        BY <1>3 DEF UsedBits
      <3> QED
        BY <1>3, <1>4, <3>1, <3>2 DEF Written
    <2> HIDE DEF v
    <2> QED
      BY <2>1 DEF WriteBitstream
  <1> HIDE DEF v
  <1>8. /\ tp' \in TpState /\ tp'.valid = v
        /\ tp'.block = tp.block /\ tp'.latmFrame = tp.latmFrame
        /\ tp'.pceCount = tp.pceCount /\ tp'.start = tp.start
        /\ tp'.fillBits = tp.fillBits
        /\ tp'.length = tp.length /\ tp'.units = tp.units /\ tp'.markers = tp.markers
        /\ tp'.sincePce = tp.sincePce /\ tp'.sinceSmc = tp.sinceSmc
    BY <1>1, <1>6, <1>7 DEF TpState
  <1> QED
    BY <1>5, <1>8 DEF v


(* Every step keeps the types, and what was fixed at the start. *)
LEMMA TypeStep ==
    ASSUME TypeInv, [Next]_vars
    PROVE  TypeInv'
  <1>1. /\ cfg \in Configurations /\ tp \in TpState /\ qc \in QcState /\ frame \in FrameState
        /\ error \in Errors /\ balance \in Int /\ QcFixed
        /\ qc.paddingRest \in 1 .. cfg.sampleRate
    BY DEF TypeInv, TypeOK, QcFixed
  <1>2. CASE BeginFrame
    <2>1. QcFixed'
      BY <1>1, <1>2, BeginFields, FixedStep
    <2>2. /\ pc' \in {"quantize", "failed"} /\ balance' = balance
          /\ error' \in Errors
      <3>1. BitResError(qc) \in Errors
        BY DEF BitResError, Errors
      <3> QED
        BY <1>1, <1>2, <3>1, BeginFields DEF Errors
    <2> QED
      BY <1>1, <1>2, <2>1, <2>2, BeginFields
      DEF TypeInv, TypeOK, FrameOK, UnitOpen, Coding, Estimated, Writing
  <1>3. CASE QuantizeOutOfRange
    <2>1. /\ frame' \in FrameState
          /\ frame'.least = frame.least /\ frame'.static = frame.static
          /\ frame'.ext = frame.ext
      BY <1>1, <1>3 DEF QuantizeOutOfRange, FrameState
    <2>2. UNCHANGED <<cfg, tp, qc, error, balance>> /\ pc = "quantize" /\ pc' = "reduce"
      BY <1>3 DEF QuantizeOutOfRange
    <2>3. QcFixed'
      BY <1>1, <2>2, FixedStep
    <2> QED
      BY <1>1, <2>1, <2>2, <2>3
      DEF TypeInv, TypeOK, FrameOK, UnitOpen, Coding, Estimated, Writing
  <1>4. CASE Quantize
    <2>1. UNCHANGED <<cfg, tp, qc, error, balance>> /\ pc = "quantize"
          /\ pc' \in {"reduce", "fill"}
      BY <1>4, QuantizeFields DEF Quantize
    <2>2. QcFixed'
      BY <1>1, <2>1, FixedStep
    <2> QED
      BY <1>1, <1>4, <2>1, <2>2, QuantizeFields
      DEF TypeInv, TypeOK, FrameOK, UnitOpen, Coding, Estimated, Writing
  <1>5. CASE Reduce
    <2>1. UNCHANGED <<cfg, tp, qc, error, balance>> /\ pc = "reduce" /\ pc' = "quantize"
          /\ frame' \in Reductions(frame)
      BY <1>5 DEF Reduce
    <2>2. frame.least \in 1 .. frame.static /\ (cfg.er \/ frame.ext >= 3)
      BY <2>1 DEF TypeInv, FrameOK, Coding, Estimated
    <2>3. /\ frame' \in FrameState /\ frame'.ext = frame.ext
          /\ frame'.least \in 1 .. frame'.static
      BY <1>1, <2>1, <2>2, ReducedFields
    <2>4. QcFixed'
      BY <1>1, <2>1, FixedStep
    <2> QED
      BY <1>1, <2>1, <2>2, <2>3, <2>4
      DEF TypeInv, TypeOK, FrameOK, UnitOpen, Coding, Estimated, Writing
  <1>6. CASE ReduceNothing
    <2>1. UNCHANGED <<cfg, tp, qc, frame, balance>> /\ pc = "reduce"
          /\ pc' \in {"fill", "quantize", "failed"} /\ error' \in {error, "quant_error"}
      BY <1>6 DEF ReduceNothing, Fail
    <2>2. QcFixed'
      BY <1>1, <2>1, FixedStep
    <2> QED
      BY <1>1, <2>1, <2>2
      DEF TypeInv, TypeOK, FrameOK, UnitOpen, Coding, Estimated, Writing, Errors
  <1>7. CASE FillUp
    <2>1. UNCHANGED <<cfg, tp, qc, error, balance>> /\ pc = "fill" /\ pc' = "settle"
          /\ frame' = UpdateFillBits(qc, frame)
      BY <1>7 DEF FillUp
    <2>2. /\ frame' \in FrameState /\ frame'.ext = frame.ext
          /\ frame'.least = frame.least /\ frame'.static = frame.static
      BY <1>1, <2>1, FillFields
    <2>3. QcFixed'
      BY <1>1, <2>1, FixedStep
    <2> QED
      BY <1>1, <2>1, <2>2, <2>3
      DEF TypeInv, TypeOK, FrameOK, UnitOpen, Coding, Estimated, Writing
  <1>8. CASE SettleHeader
    <2>1. UNCHANGED <<cfg, tp, error, balance>> /\ pc = "settle" /\ pc' = "align"
          /\ qc' = HeaderSettled(qc, frame, tp)[1]
          /\ frame' = HeaderSettled(qc, frame, tp)[2]
      BY <1>8 DEF SettleHeader
    <2>2. /\ frame' \in FrameState /\ frame'.ext = frame.ext
          /\ frame'.least = frame.least /\ frame'.static = frame.static
          /\ qc' \in QcState
          /\ qc'.bitResTotMax = qc.bitResTotMax /\ qc'.paddingRest = qc.paddingRest
          /\ qc'.maxBitsPerFrame = qc.maxBitsPerFrame
          /\ qc'.minBitsPerFrame = qc.minBitsPerFrame
      BY <1>1, <2>1, SettledFields
    <2>3. QcFixed'
      BY <1>1, <2>1, <2>2, FixedStep
    <2> QED
      BY <1>1, <2>1, <2>2, <2>3
      DEF TypeInv, TypeOK, FrameOK, UnitOpen, Coding, Estimated, Writing
  <1>9. CASE Align
    <2>1. UNCHANGED <<cfg, tp>> /\ pc = "align" /\ frame' = Aligned(frame)
          /\ \/ /\ pc' = "failed" /\ error' = "quant_error" /\ balance' = balance /\ qc' = qc
             \/ /\ pc' = "header" /\ error' = error /\ qc' = UpdateBitres(qc, frame')
                /\ balance' = IF cfg.mode = "vbr" \/ cfg.unlock THEN 0
                              ELSE balance + frame'.avg - (frame'.total + frame'.hdr)
      BY <1>9 DEF Align, Fail
    <2>2. /\ frame' \in FrameState /\ frame'.ext = frame.ext
          /\ frame'.least = frame.least /\ frame'.static = frame.static
      BY <1>1, <2>1, AlignedFields
    <2>3. /\ qc' \in QcState
          /\ qc'.bitResTotMax = qc.bitResTotMax /\ qc'.paddingRest = qc.paddingRest
          /\ qc'.maxBitsPerFrame = qc.maxBitsPerFrame
          /\ qc'.minBitsPerFrame = qc.minBitsPerFrame
      BY <1>1, <2>1, <2>2, UpdatedFields
    <2>4. QcFixed'
      BY <1>1, <2>1, <2>3, FixedStep
    <2>5. balance' \in Int /\ error' \in Errors /\ pc' \in {"header", "failed"}
      BY <1>1, <2>1, <2>2 DEF FrameState, Errors
    <2> QED
      BY <1>1, <2>1, <2>2, <2>3, <2>4, <2>5
      DEF TypeInv, TypeOK, FrameOK, UnitOpen, Coding, Estimated, Writing
  <1>10. CASE WriteHeader
    <2>1. UNCHANGED <<cfg, qc, frame, error, balance>> /\ pc = "header" /\ pc' = "payload"
          /\ tp' = WriteAccessUnit(tp, frame.total)
      BY <1>10 DEF WriteHeader
    <2>2. tp' \in TpState /\ tp'.units # << >>
      BY <1>1, <2>1, WriteFields DEF FrameState
    <2>3. QcFixed'
      BY <1>1, <2>1, FixedStep
    <2> QED
      BY <1>1, <2>1, <2>2, <2>3
      DEF TypeInv, TypeOK, FrameOK, UnitOpen, Coding, Estimated, Writing
  <1>11. CASE WriteBitstream
    <2>1. UNCHANGED <<cfg, qc, frame, error, balance>> /\ pc = "payload" /\ pc' = "end"
      BY <1>11 DEF WriteBitstream
    <2>2. QcFixed'
      BY <1>1, <2>1, FixedStep
    <2> QED
      BY <1>1, <1>11, <2>1, <2>2, WrittenFields
      DEF TypeInv, TypeOK, FrameOK, UnitOpen, Coding, Estimated, Writing
  <1>12. CASE EndUnit
    <2>1. UNCHANGED <<cfg, qc, frame, balance>> /\ pc = "end"
          /\ pc' \in {"handout", "failed"} /\ error' \in {error, "written_bits"}
          /\ tp' = EndAccessUnit(tp)
      BY <1>12 DEF EndUnit, Fail
    <2>2. tp.units # << >>
      BY <2>1 DEF TypeInv, UnitOpen
    <2>3. tp' \in TpState
      BY <1>1, <2>1, <2>2, EndFields
    <2>4. QcFixed'
      BY <1>1, <2>1, FixedStep
    <2> QED
      BY <1>1, <2>1, <2>3, <2>4
      DEF TypeInv, TypeOK, FrameOK, UnitOpen, Coding, Estimated, Writing, Errors
  <1>13. CASE HandOut
    <2>1. UNCHANGED <<cfg, qc, balance>> /\ pc = "handout"
          /\ pc' \in {"frame", "failed"} /\ error' \in {error, "au_length"}
          /\ tp' = GetFrame(tp) /\ frame' = NoFrame(frame.dyn)
      BY <1>13 DEF HandOut, Fail
    <2>2. tp' \in TpState
      BY <1>1, <2>1, GetFields
    <2>3. frame' \in FrameState
      BY <1>1, <2>1 DEF NoFrame, FrameState
    <2>4. QcFixed'
      BY <1>1, <2>1, FixedStep
    <2> QED
      BY <1>1, <2>1, <2>2, <2>3, <2>4
      DEF TypeInv, TypeOK, FrameOK, UnitOpen, Coding, Estimated, Writing, Errors
  <1>14. CASE UNCHANGED vars
    <2>1. QcFixed'
      BY <1>1, <1>14, FixedStep DEF vars
    <2> QED
      BY <1>1, <1>14, <2>1 DEF vars, TypeInv, TypeOK, FrameOK, UnitOpen
  <1> QED
    BY <1>2, <1>3, <1>4, <1>5, <1>6, <1>7, <1>8, <1>9, <1>10, <1>11, <1>12, <1>13, <1>14
    DEF Next, Failed

LEMMA TypeInvariant == Spec => []TypeInv
  BY InitTypes, TypeStep, PTL DEF Spec

(* Every counter and every level stays in its type: no count of bits of a  *)
(* frame, of its header or of its fill is ever negative.                   *)
THEOREM TypesAlways == Spec => []TypeOK
  <1>1. TypeInv => TypeOK
    BY DEF TypeInv
  <1> QED
    BY <1>1, TypeInvariant, PTL


(* The steps that leave the transport encoder alone. *)
CodingStep ==
    QuantizeOutOfRange \/ Quantize \/ Reduce \/ ReduceNothing \/ FillUp \/ SettleHeader \/ Align

LEMMA CodingSteps ==
    ASSUME TypeInv, CodingStep
    PROVE  /\ UNCHANGED <<cfg, tp>>
           /\ pc \in Coding /\ pc' \in Coding \union {"header", "failed"}
           /\ error' \in {error, "quant_error"}
  BY QuantizeFields
  DEF CodingStep, QuantizeOutOfRange, Quantize, Reduce, ReduceNothing, FillUp, SettleHeader,
      Align, Fail, Coding, Estimated

LEMMA StepCases ==
    ASSUME [Next]_vars
    PROVE  \/ BeginFrame \/ CodingStep \/ WriteHeader \/ WriteBitstream \/ EndUnit \/ HandOut
           \/ UNCHANGED vars
  BY DEF Next, CodingStep, Failed

-----------------------------------------------------------------------------
(* The configuration is repeated *)

LEMMA ModSmall ==
    ASSUME NEW k \in Nat, NEW d \in Nat, d > 0, k <= d
    PROVE  k % d = IF k = d THEN 0 ELSE k
  <1>1. CASE k = d
    <2>1. k = 1 * d + 0
      BY <1>1
    <2> QED
      BY <1>1, <2>1, DivUnique
  <1>2. CASE k # d
    <2>1. k = 0 * d + k /\ k < d /\ 0 <= k
      BY <1>2
    <2> QED
      BY <1>2, <2>1, DivUnique
  <1> QED
    BY <1>1, <1>2

LEMMA InitConfig ==
    ASSUME Init
    PROVE  ConfigInv
  BY CfgFacts DEF Init, TpInit, ConfigInv, PceInv, SmcInv, Begins

(* The counters stand still while no access unit is written. *)
LEMMA SamePce ==
    ASSUME cfg' = cfg, PceInv, tp'.pceCount = tp.pceCount, tp'.sincePce = tp.sincePce
    PROVE  PceInv'
  BY DEF PceInv

LEMMA SameSmc ==
    ASSUME cfg' = cfg, SmcInv, tp'.latmFrame = tp.latmFrame, tp'.sinceSmc = tp.sinceSmc,
           pc' = "failed" \/ (pc # "failed" /\ (Begins' <=> Begins))
    PROVE  SmcInv'
  BY SameConfig DEF SmcInv

(* An access unit: the counter restarts with the PCE, or counts on. *)
LEMMA WritePce ==
    ASSUME TypeInv, PceInv, WriteHeader
    PROVE  PceInv'
  <1> DEFINE w == WriteAccessUnit(tp, frame.total)
  <1>1. /\ cfg \in Configurations /\ tp \in TpState /\ frame.total \in Nat
        /\ cfg' = cfg /\ tp' = w
    BY DEF TypeInv, TypeOK, WriteHeader, FrameState
  <1>2. /\ w.pceCount = NextPceCount(tp)
        /\ w.sincePce = IF PceBits(tp) > 0 THEN 1
                        ELSE IF cfg.pceBits > 0 THEN tp.sincePce + 1 ELSE 0
    BY <1>1, WriteFields
  <1>3. /\ cfg.headerPeriod \in Nat /\ cfg.pceBits \in Nat
        /\ tp.pceCount \in Int /\ tp.sincePce \in Nat
    BY <1>1, CfgFacts DEF TpState
  <1> HIDE DEF w
  <1>4. CASE cfg.pceBits > 0 /\ cfg.headerPeriod > 0
    <2>1. /\ tp.pceCount \in 1 .. cfg.headerPeriod
          /\ \/ tp.sincePce = tp.pceCount
             \/ tp.sincePce = 0 /\ tp.pceCount = cfg.headerPeriod
      BY <1>4 DEF PceInv
    <2>2. CASE tp.pceCount = cfg.headerPeriod
      <3>1. PceDue(tp) /\ PceBits(tp) > 0
        BY <1>3, <1>4, <2>2 DEF PceDue, PceBits
      <3>2. w.pceCount = 1 /\ w.sincePce = 1
        BY <1>2, <1>3, <2>1, <3>1 DEF NextPceCount
      <3> QED
        BY <1>1, <1>3, <1>4, <3>2 DEF PceInv
    <2>3. CASE tp.pceCount # cfg.headerPeriod
      <3>1. ~PceDue(tp) /\ PceBits(tp) = 0 /\ tp.sincePce = tp.pceCount
        BY <1>3, <2>1, <2>3 DEF PceDue, PceBits
      <3>2. w.pceCount = 1 + tp.pceCount /\ w.sincePce = tp.pceCount + 1
        BY <1>2, <1>3, <1>4, <2>1, <3>1 DEF NextPceCount
      <3> QED
        BY <1>1, <1>3, <1>4, <2>1, <2>3, <3>2 DEF PceInv
    <2> QED
      BY <2>2, <2>3
  <1>5. CASE ~(cfg.pceBits > 0 /\ cfg.headerPeriod > 0)
    <2>1. tp.pceCount = -1 /\ (cfg.pceBits = 0 => tp.sincePce = 0)
      BY <1>5 DEF PceInv
    <2>2. w.pceCount = -1
      BY <1>2, <2>1 DEF NextPceCount
    <2>3. cfg.pceBits = 0 => w.sincePce = 0
      BY <1>2, <1>3 DEF PceBits
    <2> QED
      BY <1>1, <1>3, <1>5, <2>2, <2>3 DEF PceInv
  <1> QED
    BY <1>4, <1>5

LEMMA WriteSmc ==
    ASSUME TypeInv, SmcInv, WriteHeader
    PROVE  SmcInv'
  <1> DEFINE w == WriteAccessUnit(tp, frame.total)
  <1>1. /\ cfg \in Configurations /\ tp \in TpState /\ frame.total \in Nat
        /\ cfg' = cfg /\ tp' = w /\ pc = "header" /\ pc' = "payload"
    BY DEF TypeInv, TypeOK, WriteHeader, FrameState
  <1>2. /\ w.latmFrame = tp.latmFrame
        /\ w.sinceSmc = IF ~IsLatm \/ cfg.fmt = "mcp0" \/ tp.block # 0 THEN tp.sinceSmc
                        ELSE IF SmcDue(tp) THEN 1 ELSE tp.sinceSmc + 1
    BY <1>1, WriteFields
  <1> HIDE DEF w
  <1>3. ~Begins'
    BY <1>1 DEF Begins, Coding, Estimated
  <1>4. CASE ~IsLatm \/ cfg.fmt = "mcp0"
    BY <1>1, <1>2, <1>4, SameConfig DEF SmcInv
  <1>5. CASE IsLatm /\ cfg.fmt # "mcp0" /\ cfg.headerPeriod > 0
    <2>1. /\ tp.latmFrame \in 0 .. cfg.headerPeriod - 1
          /\ tp.sinceSmc <= cfg.headerPeriod
          /\ IF Begins THEN tp.latmFrame > 0 => tp.sinceSmc = tp.latmFrame
             ELSE tp.sinceSmc = tp.latmFrame + 1
      BY <1>1, <1>5 DEF SmcInv
    <2>2. tp.sinceSmc \in Nat /\ cfg.headerPeriod \in Nat
      BY <1>1, CfgFacts DEF TpState
    <2>3. w.sinceSmc = tp.latmFrame + 1
      <3>1. CASE tp.block # 0
        BY <1>2, <2>1, <3>1 DEF Begins
      <3>2. CASE tp.block = 0 /\ tp.latmFrame = 0
        BY <1>2, <1>5, <2>1, <3>2 DEF SmcDue
      <3>3. CASE tp.block = 0 /\ tp.latmFrame # 0
        BY <1>1, <1>2, <1>5, <2>1, <3>3 DEF SmcDue, Begins
      <3> QED
        BY <3>1, <3>2, <3>3
    <2> QED
      BY <1>1, <1>2, <1>3, <1>5, <2>1, <2>2, <2>3, SameConfig DEF SmcInv
  <1>6. CASE IsLatm /\ cfg.fmt # "mcp0" /\ ~(cfg.headerPeriod > 0)
    BY <1>1, <1>6, SameConfig DEF SmcInv
  <1> QED
    BY <1>4, <1>5, <1>6

LEMMA HandOutSmc ==
    ASSUME TypeInv, SmcInv, HandOut
    PROVE  SmcInv'
  <1> DEFINE g == GetFrame(tp)
  <1>1. /\ cfg \in Configurations /\ tp \in TpState
        /\ cfg' = cfg /\ tp' = g /\ pc = "handout" /\ pc' \in {"frame", "failed"}
    BY DEF TypeInv, TypeOK, HandOut, Fail
  <1>2. /\ g \in TpState /\ g.sinceSmc = tp.sinceSmc
        /\ ~(IsLatm /\ tp.block + 1 >= cfg.nSubFrames) => g.latmFrame = tp.latmFrame
        /\ IsLatm /\ tp.block + 1 >= cfg.nSubFrames =>
              g.block = 0 /\ g.latmFrame = NextLatmFrame(tp)
        /\ IsLatm /\ ~(tp.block + 1 >= cfg.nSubFrames) => g.block = tp.block + 1
    BY <1>1, GetFields
  <1>3. tp.block \in Nat /\ tp.sinceSmc \in Nat /\ cfg.headerPeriod \in Nat
    BY <1>1, CfgFacts DEF TpState
  <1> HIDE DEF g
  <1>4. ~Begins
    BY <1>1 DEF Begins, Coding, Estimated
  <1>5. CASE IsLatm /\ cfg.fmt # "mcp0" /\ cfg.headerPeriod > 0
    <2>1. /\ tp.latmFrame \in 0 .. cfg.headerPeriod - 1
          /\ tp.sinceSmc = tp.latmFrame + 1
          /\ tp.sinceSmc <= cfg.headerPeriod
      BY <1>1, <1>4, <1>5 DEF SmcInv
    <2>2. CASE tp.block + 1 >= cfg.nSubFrames
      <3> DEFINE k == tp.latmFrame + 1
      <3>1. g.latmFrame = k % cfg.headerPeriod
        BY <1>2, <1>5, <2>2 DEF NextLatmFrame
      <3>2. k \in Nat /\ k <= cfg.headerPeriod
        BY <2>1, <1>3
      <3>3. g.latmFrame = IF k = cfg.headerPeriod THEN 0 ELSE k
        BY <1>3, <1>5, <3>1, <3>2, ModSmall
      <3> QED
        BY <1>1, <1>2, <1>3, <1>5, <2>1, <2>2, <3>3, SameConfig DEF SmcInv, Begins
    <2>3. CASE ~(tp.block + 1 >= cfg.nSubFrames)
      <3>1. ~Begins'
        BY <1>1, <1>2, <1>3, <1>5, <2>3 DEF Begins
      <3> QED
        BY <1>1, <1>2, <1>5, <2>1, <2>3, <3>1, SameConfig DEF SmcInv
    <2> QED
      BY <2>2, <2>3
  <1>6. CASE ~(IsLatm /\ cfg.fmt # "mcp0" /\ cfg.headerPeriod > 0)
    BY <1>1, <1>2, <1>6, SameConfig DEF SmcInv
  <1> QED
    BY <1>5, <1>6

LEMMA ConfigStep ==
    ASSUME TypeInv, ConfigInv, [Next]_vars
    PROVE  ConfigInv'
  <1>1. PceInv /\ SmcInv /\ cfg \in Configurations /\ tp \in TpState
    BY DEF ConfigInv, TypeInv, TypeOK
  <1>2. CASE BeginFrame
    <2>2. pc' = "failed" \/ (pc # "failed" /\ (Begins' <=> Begins))
      BY <1>2, BeginFields DEF Begins, Coding, Estimated
    <2> QED
      BY <1>1, <1>2, <2>2, BeginFields, SamePce, SameSmc DEF ConfigInv
  <1>3. CASE CodingStep
    <2>1. pc' = "failed" \/ (pc # "failed" /\ (Begins' <=> Begins))
      BY <1>3, CodingSteps DEF Begins, Coding, Estimated
    <2> QED
      BY <1>1, <1>3, <2>1, CodingSteps, SamePce, SameSmc DEF ConfigInv
  <1>4. CASE WriteHeader
    BY <1>1, <1>4, WritePce, WriteSmc DEF ConfigInv
  <1>5. CASE WriteBitstream
    <2>1. pc = "payload" /\ pc' = "end" /\ cfg' = cfg
      BY <1>5 DEF WriteBitstream
    <2>2. ~Begins /\ ~Begins'
      BY <2>1 DEF Begins, Coding, Estimated
    <2> QED
      BY <1>1, <1>5, <2>1, <2>2, WrittenFields, SamePce, SameSmc DEF ConfigInv
  <1>6. CASE EndUnit
    <2>1. pc = "end" /\ pc' \in {"handout", "failed"} /\ cfg' = cfg /\ tp' = EndAccessUnit(tp)
      BY <1>6 DEF EndUnit, Fail
    <2>2. ~Begins /\ ~Begins'
      BY <2>1 DEF Begins, Coding, Estimated
    <2>3. tp.units # << >>
      BY <2>1 DEF TypeInv, UnitOpen
    <2>4. /\ tp'.latmFrame = tp.latmFrame /\ tp'.sinceSmc = tp.sinceSmc
          /\ tp'.pceCount = tp.pceCount /\ tp'.sincePce = tp.sincePce
      BY <1>1, <2>1, <2>3, EndFields
    <2> QED
      BY <1>1, <2>1, <2>2, <2>4, SamePce, SameSmc DEF ConfigInv
  <1>7. CASE HandOut
    <2>1. cfg' = cfg /\ tp'.pceCount = tp.pceCount /\ tp'.sincePce = tp.sincePce
      BY <1>1, <1>7, GetFields DEF HandOut
    <2> QED
      BY <1>1, <1>7, <2>1, SamePce, HandOutSmc DEF ConfigInv
  <1>8. CASE UNCHANGED vars
    BY <1>8 DEF vars, ConfigInv, PceInv, SmcInv, Begins, IsLatm
  <1> QED
    BY <1>2, <1>3, <1>4, <1>5, <1>6, <1>7, <1>8, StepCases

LEMMA ConfigInvariant == Spec => [](TypeInv /\ ConfigInv)
  <1>1. Init => TypeInv /\ ConfigInv
    BY InitTypes, InitConfig
  <1>2. TypeInv /\ ConfigInv /\ [Next]_vars => (TypeInv /\ ConfigInv)'
    BY TypeStep, ConfigStep
  <1> QED
    BY <1>1, <1>2, PTL DEF Spec

(* Someone who tunes in gets the configuration: no more than headerPeriod  *)
(* access units go by without a PCE, no more than headerPeriod frames      *)
(* without a mux configuration.                                            *)
THEOREM ConfigRepeatedAlways == Spec => []ConfigRepeated
  <1>1. TypeInv /\ ConfigInv => ConfigRepeated
    <2> SUFFICES ASSUME TypeInv, ConfigInv, cfg.headerPeriod > 0
                 PROVE  tp.sincePce <= cfg.headerPeriod /\ tp.sinceSmc <= cfg.headerPeriod
      BY DEF ConfigRepeated
    <2>1. /\ cfg.headerPeriod \in Nat /\ cfg.pceBits \in Nat
          /\ tp.sincePce \in Nat /\ tp.sinceSmc \in Nat
      BY CfgFacts DEF TypeInv, TypeOK, TpState
    <2>2. tp.sincePce <= cfg.headerPeriod
      BY <2>1 DEF ConfigInv, PceInv
    <2>3. tp.sinceSmc <= cfg.headerPeriod
      BY <2>1 DEF ConfigInv, SmcInv
    <2> QED
      BY <2>2, <2>3
  <1> QED
    BY <1>1, ConfigInvariant, PTL


-----------------------------------------------------------------------------
(* The account of the bits *)

(* "MaxBits" leaves room for the average, with its padding byte. *)
LEMMA AverageFitsFrame ==
    ASSUME cfg \in Configurations, cfg.mode = "cbr", NEW a \in Nat,
           a <= BufferSize, a <= AlignDown(AverageBitsPerFrame + 15)
    PROVE  a <= MaxBits
  <1> DEFINE down == AlignDown(AverageBitsPerFrame + 15)
             bits == Least(BufferSize, AverageBits + BitRes)
             capped == IF cfg.capBits = -1 THEN bits ELSE Least(bits, cfg.capBits)
  <1>1. /\ BufferSize \in Nat /\ 6144 <= BufferSize /\ BufferSize <= 49152
        /\ AverageBits \in Nat /\ BitRes \in Nat
        /\ AverageBitsPerFrame \in Nat
    BY ReservoirFacts
  <1>2. down \in Int
    BY <1>1 DEF AlignDown
  <1>3. capped \in Int
    BY <1>1, CfgFacts DEF Least
  <1>4. MaxBits = Least(BufferSize, Most(capped, down))
    BY DEF MaxBits
  <1> HIDE DEF down, capped
  <1> QED
    BY <1>1, <1>2, <1>3, <1>4 DEF Least, Most, down

(* A frame of the minimal size can be paid with its header. *)
LEMMA MinBitsPaid ==
    ASSUME cfg \in Configurations, tp \in TpState, ConfigInv, cfg.mode = "cbr",
           NEW a \in {AlignDown(AverageBitsPerFrame), AlignDown(AverageBitsPerFrame) + 8},
           NEW b \in 0 .. BitRes
    PROVE  /\ MinBits % 8 = 0
           /\ MinBits > 0 => MinBits + StaticBits(tp, a + b) <= a + b
  <1> DEFINE pf == AverageBitsPerFrame
             n == AverageBits + BitRes
             first == StaticBits(TpInit, n)
             low == AlignDown(pf - 1) - BitRes - first
             high == AlignDown(pf - StaticBits(TpInit, MaxBits))
  <1>1. /\ AverageBits \in Nat /\ AverageBits % 8 = 0
        /\ pf <= AverageBits /\ AverageBits <= pf + 7
        /\ BitRes \in Nat /\ BitRes % 8 = 0 /\ MaxBits \in Nat
    BY ReservoirFacts
  <1>2. pf \in Nat
    BY ReservoirFacts
  <1>3. TpInit \in TpState
    BY TpInitOK
  <1>4. /\ n \in Nat /\ first \in Nat /\ first % 8 = 0
        /\ StaticBits(TpInit, MaxBits) \in Nat
    <2>1. n \in Nat /\ n \in Int /\ MaxBits \in Int
      BY <1>1
    <2> HIDE DEF n
    <2> QED
      BY <1>3, <2>1, StaticSplit
  <1>5. a \in Int /\ a + b \in Int
    BY <1>1, <1>2 DEF AlignDown
  <1>6. /\ StaticBits(tp, a + b) \in Nat
        /\ StaticBits(tp, a + b) <= StaticBits(TpInit, a + b)
        /\ StaticBits(TpInit, a + b) \in Nat
    <2>1. cfg.headerPeriod = 0 => tp.pceCount = -1
      BY CfgFacts DEF ConfigInv, PceInv
    <2> QED
      BY <1>3, <1>5, <2>1, FirstHeaderLargest, StaticSplit
  <1>7. MinBits = Least(Most(0, low), high)
    BY DEF MinBits
  <1>8. StaticBits(TpInit, a + b) <= first + (IF a <= AverageBits THEN 0 ELSE 8)
        \/ n = 0
    <2>1. /\ StaticBits(TpInit, a + b) = HeaderPart(TpInit) + LengthPart(TpInit, a + b)
          /\ HeaderPart(TpInit) \in Nat /\ LengthPart(TpInit, a + b) \in Nat
      BY <1>3, <1>5, StaticSplit
    <2>2. first = HeaderPart(TpInit) + LengthPart(TpInit, n) /\ LengthPart(TpInit, n) \in Nat
      BY <1>3, <1>4, StaticSplit
    <2>3. CASE a <= AverageBits
      <3>1. a + b <= n
        BY <1>1, <1>5, <2>3
      <3>2. LengthPart(TpInit, a + b) <= LengthPart(TpInit, n)
        BY <1>3, <1>4, <1>5, <3>1, LengthSteps
      <3> QED
        BY <2>1, <2>2, <2>3, <3>2
    <2>4. CASE ~(a <= AverageBits)
      <3> DEFINE m == n + 8
      <3>1. a + b <= m /\ m \in Int
        BY <1>1, <1>2, <1>5 DEF AlignDown
      <3>2. m - n <= 2040 /\ n <= m
        BY <1>4
      <3> HIDE DEF m
      <3>3. LengthPart(TpInit, a + b) <= LengthPart(TpInit, m)
        BY <1>3, <1>5, <3>1, LengthSteps
      <3>4. n > 0 => LengthPart(TpInit, m) <= LengthPart(TpInit, n) + 8
        BY <1>3, <1>4, <3>1, <3>2, LengthSteps
      <3>5. LengthPart(TpInit, m) \in Nat
        BY <1>3, <3>1, StaticSplit
      <3> QED
        BY <1>4, <2>1, <2>2, <2>4, <3>3, <3>4, <3>5
    <2> QED
      BY <2>3, <2>4
  <1> HIDE DEF first, n
  <1>9. low \in Int /\ low % 8 = 0 /\ high \in Int /\ high % 8 = 0
    <2>1. AlignDown(pf - 1) \in Int /\ AlignDown(pf - 1) % 8 = 0
          /\ AlignDown(pf - 1) <= pf - 1
      BY <1>2 DEF AlignDown
    <2>2. low \in Int /\ low % 8 = 0
      <3> DEFINE x == AlignDown(pf - 1)
                 y == x - BitRes
      <3>1. x \in Int /\ x % 8 = 0 /\ BitRes \in Int /\ first \in Int
        BY <2>1, <1>1, <1>4
      <3> HIDE DEF x
      <3>2. y \in Int /\ y % 8 = 0
        BY <3>1, <1>1, ByteFacts
      <3> HIDE DEF y
      <3>3. y - first \in Int /\ (y - first) % 8 = 0
        BY <3>1, <3>2, <1>4, ByteFacts
      <3> QED
        BY <3>3 DEF x, y
    <2>4. high \in Int /\ high % 8 = 0
      BY <1>2, <1>4 DEF AlignDown
    <2> QED
      BY <2>2, <2>4
  <1>10. AlignDown(pf - 1) <= AlignDown(pf) /\ AlignDown(pf - 1) <= pf - 1
         /\ AlignDown(pf) \in Int /\ AlignDown(pf - 1) \in Int
    BY <1>2 DEF AlignDown
  <1> HIDE DEF high
  <1>11. MinBits % 8 = 0
    BY <1>7, <1>9 DEF Least, Most
  <1>12. MinBits > 0 => MinBits <= low
    BY <1>7, <1>9 DEF Least, Most
  <1>13. ASSUME MinBits > 0
         PROVE  MinBits + StaticBits(tp, a + b) <= a + b
    <2>1. low > 0 /\ MinBits <= low /\ MinBits \in Int
      BY <1>12, <1>13, <1>9, ReservoirFacts
    <2>2. n # 0
      BY <2>1, <1>1, <1>2, <1>4, <1>10 DEF n
    <2>3. CASE a <= AverageBits
      BY <1>1, <1>4, <1>5, <1>6, <1>8, <1>10, <2>1, <2>2, <2>3
    <2>4. CASE ~(a <= AverageBits)
      <3>1. a = AlignDown(pf) + 8
        BY <1>1, <1>2, <1>10, <2>4 DEF AlignDown
      <3> QED
        BY <1>1, <1>4, <1>5, <1>6, <1>8, <1>10, <2>1, <2>2, <2>4, <3>1
    <2> QED
      BY <2>3, <2>4
  <1> QED
    BY <1>11, <1>13



(* A frame that failed owes nothing. *)
LEMMA FailedBudget ==
    ASSUME pc' = "failed"
    PROVE  BudgetInv'
  BY DEF BudgetInv, TotalInv, HeaderInv, LedgerInv, PaidInv, RangeInv, Coding, Estimated, Writing

(* The frame that begins can be paid, at least with the least of its side  *)
(* information.                                                            *)
LEMMA BeginBudget ==
    ASSUME TypeInv, BudgetInv, BeginFrame, pc' = "quantize"
    PROVE  BudgetInv'
  <1> DEFINE a == frame'.avg
             h == frame'.hdr
             b == qc.bitResTot
             paid == frame'.granted + frame'.static + frame'.ext
  <1>1. /\ cfg \in Configurations /\ tp \in TpState /\ tp' \in TpState
        /\ qc \in QcState /\ QcFixed /\ pc = "frame" /\ cfg' = cfg
        /\ qc'.bitResTot = b /\ balance' = balance /\ frame' \in FrameState
    BY BeginFields DEF TypeInv, TypeOK
  <1>2. /\ a = AvgTotalBits(qc) /\ a \in Nat /\ a % 8 = 0
        /\ a \in {AlignDown(AverageBitsPerFrame), AlignDown(AverageBitsPerFrame) + 8}
        /\ a <= BufferSize /\ a <= AlignDown(AverageBitsPerFrame + 15)
    BY <1>1, BeginFields, AverageFacts DEF QcFixed
  <1>3. b \in 0 .. BitRes
    <2>1. BitResError(qc) = "none"
      BY <1>1, BeginFields
    <2>2. b \in Int /\ qc.bitResTotMax = BitRes /\ BitRes \in Nat
      BY <1>1, ReservoirFacts DEF QcState, QcFixed
    <2>3. ~(b < 0) /\ ~(b > BitRes)
      BY <2>1, <2>2 DEF BitResError
    <2> QED
      BY <2>2, <2>3
  <1>4. h = StaticBits(tp, a + b) /\ h \in Nat /\ h % 8 = 0
    <2>1. a + b \in Int
      BY <1>1, <1>2 DEF QcState
    <2>2. h = StaticBits(tp, a + b)
      BY <1>1, <1>2, BeginFields
    <2> HIDE DEF a, b, h
    <2> QED
      BY <1>1, <2>1, <2>2, StaticSplit
  <1>5. PICK f \in FrameState :
            /\ f.avg = a /\ f.hdr = h /\ f.static = frame'.static
            /\ f.least = frame'.least /\ f.ext = frame'.ext
            /\ frame'.granted = IF TooLow(qc, f) /\ cfg.unlock THEN 0 ELSE GrantedDynBits(qc, f)
            /\ ~(TooLow(qc, f) /\ ~cfg.unlock)
    BY BeginFields
  <1>6. /\ frame'.static \in Nat /\ frame'.ext \in Nat /\ frame'.least \in Nat
        /\ frame'.least <= frame'.static /\ frame'.granted \in Int
    BY <1>1, BeginFields DEF FrameState
  <1>7. ~cfg.unlock => paid = AlignDown(Least(MaxBits, Budget(qc, f)) - h)
    <2> DEFINE x == AlignDown(Least(MaxBits, Budget(qc, f)) - h)
    <2>1. Budget(qc, f) \in Nat /\ MaxBits \in Nat
      BY <1>1, <1>5, BudgetTypes, ReservoirFacts
    <2>2. x \in Int
      BY <2>1, <1>4 DEF AlignDown, Least
    <2>3. ~cfg.unlock => frame'.granted = x - (frame'.static + frame'.ext)
      BY <1>1, <1>5 DEF GrantedDynBits, QcFixed
    <2> HIDE DEF x
    <2> QED
      BY <1>6, <2>2, <2>3 DEF x
  <1>8. ~cfg.unlock => paid % 8 = 0
    <2>1. Budget(qc, f) \in Nat /\ MaxBits \in Nat
      BY <1>1, <1>5, BudgetTypes, ReservoirFacts
    <2>2. Least(MaxBits, Budget(qc, f)) - h \in Int
      BY <2>1, <1>4 DEF Least
    <2> QED
      BY <1>7, <2>2, AlignFacts
  <1>9. Strict => paid = a - h
    <2> SUFFICES ASSUME Strict PROVE paid = a - h
      OBVIOUS
    <2>1. Budget(qc, f) = a
      BY <1>5 DEF Strict, Budget, CbrAdjustment
    <2>2. a <= MaxBits
      BY <1>1, <1>2, AverageFitsFrame DEF Strict
    <2>3. MaxBits \in Nat
      BY <1>1, ReservoirFacts
    <2>4. Least(MaxBits, a) = a
      BY <1>2, <2>2, <2>3 DEF Least
    <2>5. a - h \in Int /\ (a - h) % 8 = 0
      <3>1. a \in Int /\ h \in Int /\ a % 8 = 0 /\ h % 8 = 0
        BY <1>2, <1>4
      <3> HIDE DEF a, h
      <3> QED
        BY <3>1, ByteFacts
    <2> QED
      BY <1>7, <2>1, <2>4, <2>5, AlignFacts DEF Strict
  <1>10. Strict => frame'.least + frame'.ext + h <= a + b
    <2> SUFFICES ASSUME Strict PROVE frame'.least + frame'.ext + h <= a + b
      OBVIOUS
    <2>1. /\ GrantedDynBits(qc, f) = frame'.granted
          /\ ~(frame'.granted + b < 0 /\ frame'.granted + b < frame'.least - frame'.static)
      BY <1>5 DEF Strict, TooLow
    <2>2. b \in Int
      BY <1>1 DEF QcState
    <2> QED
      BY <1>2, <1>4, <1>6, <1>9, <2>1, <2>2
  <1>11. Strict => b = BitRes + balance /\ b % 8 = 0
    BY <1>1 DEF BudgetInv, LedgerInv
  <1>12. TotalInv'
    BY <1>1, <1>2, <1>4, <1>8, SameConfig DEF TotalInv, Coding, Estimated, Writing, AlignDown
  <1>13. HeaderInv'
    <2>1. StaticBits(tp', a + b) = StaticBits(tp, a + b)
      BY BeginFields, SameStatic
    <2> QED
      BY <1>1, <1>3, <1>4, <2>1, SameConfig, SameFormat DEF HeaderInv, Estimated
  <1>14. LedgerInv'
    BY <1>1, <1>9, <1>11, SameConfig DEF LedgerInv, Strict, Estimated
  <1>15. PaidInv'
    BY <1>1, <1>10 DEF PaidInv, Strict
  <1>16. RangeInv'
    BY DEF RangeInv, Coding, Estimated
  <1> QED
    BY <1>12, <1>13, <1>14, <1>15, <1>16 DEF BudgetInv


(* The passes of the quantisation loop: bits move between what is granted  *)
(* and the side information.                                               *)
LEMMA LoopBudget ==
    ASSUME TypeInv, BudgetInv, UNCHANGED <<cfg, tp, qc, balance>>,
           pc \in {"quantize", "reduce"}, pc' \in {"quantize", "reduce", "fill"},
           frame' \in FrameState,
           frame'.avg = frame.avg, frame'.hdr = frame.hdr,
           frame'.least = frame.least, frame'.ext = frame.ext,
           frame'.granted + frame'.static = frame.granted + frame.static,
           Strict /\ pc' = "fill" =>
               AlignUp(UsedBits(frame')) + frame.hdr <= frame.avg + qc.bitResTot
    PROVE  BudgetInv'
  <1>1. frame \in FrameState /\ qc \in QcState
    BY DEF TypeInv, TypeOK
  <1>2. /\ frame.granted \in Int /\ frame.static \in Nat /\ frame.ext \in Nat
        /\ frame'.granted \in Int /\ frame'.static \in Nat
    BY <1>1 DEF FrameState
  <1>3. frame'.granted + frame'.static + frame'.ext = frame.granted + frame.static + frame.ext
    BY <1>2
  <1>4. TotalInv'
    BY <1>3, SameConfig DEF BudgetInv, TotalInv, Coding, Estimated, Writing, AlignDown
  <1>5. HeaderInv'
    BY SameConfig, SameFormat DEF BudgetInv, HeaderInv, Estimated
  <1>6. LedgerInv'
    BY <1>3, SameConfig DEF BudgetInv, LedgerInv, Strict, Estimated
  <1>7. PaidInv'
    BY DEF BudgetInv, PaidInv, Strict, AlignUp, UsedBits
  <1>8. RangeInv'
    BY DEF RangeInv, Coding, Estimated
  <1> QED
    BY <1>4, <1>5, <1>6, <1>7, <1>8 DEF BudgetInv

(* A quantisation is the last when it can be paid; with no spectrum left   *)
(* the side information is the least there is, and that can be paid.       *)
LEMMA QuantizeBudget ==
    ASSUME TypeInv, BudgetInv, Quantize
    PROVE  BudgetInv'
  <1>1. /\ frame \in FrameState /\ qc \in QcState /\ QcFixed /\ cfg \in Configurations
        /\ pc = "quantize" /\ UNCHANGED <<cfg, tp, qc, balance>>
        /\ pc' \in {"reduce", "fill"}
    BY QuantizeFields DEF TypeInv, TypeOK, Quantize
  <1>2. ASSUME Strict, pc' = "fill"
        PROVE  AlignUp(UsedBits(frame')) + frame.hdr <= frame.avg + qc.bitResTot
    <2>1. PICK f \in FrameState :
              /\ f.avg = frame.avg /\ f.hdr = frame.hdr /\ f.static = frame.static
              /\ f.least = frame.least /\ f.ext = frame.ext /\ f.dyn = frame'.dyn
              /\ f.dyn = 0 => f.static = f.least
              /\ QuantizationDone(qc, f)
      BY <1>2, QuantizeFields
    <2>2. /\ f.avg \in Nat /\ f.hdr \in Nat /\ f.static \in Nat /\ f.least \in Nat
          /\ f.ext \in Nat /\ f.dyn \in Nat /\ qc.bitResTot \in Int
          /\ frame'.static = f.static /\ frame'.ext = f.ext
      BY <1>1, <2>1, QuantizeFields DEF FrameState, QcState
    <2>3. UsedBits(frame') = f.dyn + f.static + f.ext
      BY <2>1, <2>2 DEF UsedBits
    <2>4. /\ qc.bitResTot \in 0 .. BitRes /\ BitRes \in Nat /\ qc.bitResTot % 8 = 0
          /\ frame.avg % 8 = 0 /\ frame.hdr % 8 = 0
          /\ frame.least + frame.ext + frame.hdr <= frame.avg + qc.bitResTot
      BY <1>1, <1>2, ReservoirFacts
      DEF BudgetInv, HeaderInv, LedgerInv, TotalInv, PaidInv, Estimated, Coding
    <2>5. CASE TotalConsumedBits(f) <= TotalAvailableBits(qc, f)
      <3>1. MaxBits \in Nat /\ qc.maxBitsPerFrame = MaxBits
        BY <1>1, ReservoirFacts DEF QcFixed
      <3>2. Budget(qc, f) = f.avg
        BY <1>2 DEF Strict, Budget, CbrAdjustment
      <3>3. TotalAvailableBits(qc, f) <= f.avg + qc.bitResTot
            /\ TotalAvailableBits(qc, f) \in Int
        BY <2>2, <2>4, <3>1, <3>2 DEF TotalAvailableBits, BitResLevel, Least, Most
      <3>4. TotalConsumedBits(f) = AlignUp(UsedBits(frame')) + f.hdr
        BY <2>3 DEF TotalConsumedBits
      <3>5. AlignUp(UsedBits(frame')) \in Int
        <4>1. UsedBits(frame') \in Int
          BY <2>2, <2>3
        <4> QED
          BY <4>1, AlignFacts
      <3> QED
        BY <2>1, <2>2, <2>5, <3>3, <3>4, <3>5
    <2>6. CASE f.dyn = 0
      <3> DEFINE u == f.least + f.ext
                 room == frame.avg + qc.bitResTot - frame.hdr
      <3>1. UsedBits(frame') = u /\ u \in Nat
        BY <2>1, <2>2, <2>3, <2>6
      <3>2. room \in Int /\ room % 8 = 0 /\ u <= room
        <4>1. /\ frame.avg \in Int /\ qc.bitResTot \in Int /\ frame.hdr \in Int
              /\ frame.avg % 8 = 0 /\ qc.bitResTot % 8 = 0 /\ frame.hdr % 8 = 0
              /\ frame.avg + qc.bitResTot \in Int
          BY <2>1, <2>2, <2>4
        <4>2. (frame.avg + qc.bitResTot) % 8 = 0
          BY <4>1, ByteFacts
        <4> DEFINE both == frame.avg + qc.bitResTot
                   h == frame.hdr
        <4>3. /\ both \in Int /\ both % 8 = 0 /\ room = both - h
              /\ h \in Int /\ h % 8 = 0
          BY <4>1, <4>2
        <4>4. u <= room
          BY <2>1, <2>2, <2>4, <4>1
        <4> HIDE DEF both, h, room, u
        <4>5. (both - h) % 8 = 0 /\ both - h \in Int
          BY <4>3, ByteFacts
        <4> QED
          BY <4>3, <4>4, <4>5
      <3> HIDE DEF room, u
      <3>3. AlignUp(u) <= room /\ AlignUp(u) \in Int
        BY <3>1, <3>2 DEF AlignUp
      <3> QED
        BY <2>1, <2>2, <3>1, <3>3 DEF room
    <2> QED
      BY <2>1, <2>5, <2>6 DEF QuantizationDone
  <1>3. /\ frame' \in FrameState
        /\ frame'.granted + frame'.static = frame.granted + frame.static
    BY QuantizeFields
  <1> QED
    BY <1>1, <1>2, <1>3, QuantizeFields, LoopBudget

(* What the fill bits are made of.  `sum` is what was granted with the side *)
(* information; the fill bits keep the frame payable and the reservoir in   *)
(* its range.                                                              *)
LEMMA FillNumbers ==
    ASSUME NEW used \in Nat, NEW sum \in Int, sum % 8 = 0,
           NEW res \in Int, res % 8 = 0, NEW level \in 0 .. res, level % 8 = 0,
           NEW base,
           base = LET delta == sum - used
                  IN  Most(delta % 8, delta - AlignDown(Most(0, (res - level) - 7)))
    PROVE  /\ base \in Nat /\ (used + base) % 8 = 0
           /\ AlignUp(used) <= sum + level => used + base <= sum + level
           /\ level + sum - (used + base) <= res
  <1> DEFINE delta == sum - used
             k == AlignDown(Most(0, (res - level) - 7))
  <1>1. k \in Nat /\ k % 8 = 0 /\ k <= res - level
    BY DEF AlignDown, Most
  <1>2. base = Most(delta % 8, delta - k)
    OBVIOUS
  <1> HIDE DEF k
  <1>3. \/ base = (delta % 8) /\ delta - k <= (delta % 8)
        \/ base = delta - k /\ delta - k > (delta % 8)
    BY <1>1, <1>2 DEF Most
  <1>4. /\ delta \in Int /\ (delta % 8) \in 0 .. 7 /\ used + (delta % 8) = AlignUp(used)
    BY DEF AlignUp
  <1>5. CASE base = (delta % 8) /\ delta - k <= (delta % 8)
    <2>1. AlignUp(used) % 8 = 0
      BY AlignFacts
    <2>2. used + base = AlignUp(used)
      BY <1>4, <1>5
    <2>3. /\ base \in Nat /\ used = sum - delta /\ delta - base <= res - level
      BY <1>1, <1>4, <1>5
    <2>4. base \in Nat /\ (used + base) % 8 = 0
      BY <2>1, <2>2, <2>3
    <2>5. AlignUp(used) \in Int
      BY AlignFacts
    <2>6. AlignUp(used) <= sum + level => used + base <= sum + level
      BY <2>2
    <2>7. level + sum - (used + base) <= res
      BY <1>4, <2>3
    <2> QED
      BY <2>4, <2>6, <2>7
  <1>6. CASE base = delta - k /\ delta - k > (delta % 8)
    <2>1. used + base = sum - k
      BY <1>1, <1>4, <1>6
    <2>2. (sum - k) % 8 = 0
      BY <1>1, ByteFacts
    <2> QED
      BY <1>1, <1>4, <1>6, <2>1, <2>2
  <1> QED
    BY <1>3, <1>5, <1>6


LEMMA FillBudget ==
    ASSUME TypeInv, ConfigInv, BudgetInv, FillUp
    PROVE  BudgetInv'
  <1> DEFINE sum == frame.granted + frame.static + frame.ext
             used == UsedBits(frame)
             base == BaseFill(qc, frame)
             extra == AlignUp(Most(0, MinBits - (used + base)))
  <1>1. /\ cfg \in Configurations /\ tp \in TpState /\ qc \in QcState /\ frame \in FrameState
        /\ QcFixed /\ pc = "fill" /\ pc' = "settle" /\ UNCHANGED <<cfg, tp, qc, balance>>
        /\ frame' = UpdateFillBits(qc, frame)
    BY DEF TypeInv, TypeOK, FillUp
  <1>2. /\ frame' \in FrameState /\ base \in Nat /\ used \in Nat
        /\ frame'.fill = base + extra
        /\ frame'.total = used + frame'.fill /\ UsedBits(frame') = used
        /\ frame'.avg = frame.avg /\ frame'.hdr = frame.hdr /\ frame'.static = frame.static
        /\ frame'.least = frame.least /\ frame'.ext = frame.ext
        /\ frame'.granted = frame.granted /\ frame'.dyn = frame.dyn
    BY <1>1, FillFields DEF QcFixed
  <1>3. /\ frame.granted \in Int /\ frame.static \in Nat /\ frame.ext \in Nat
        /\ frame.dyn \in Nat /\ frame.hdr \in Nat /\ frame.avg \in Nat
        /\ used = frame.static + frame.dyn + frame.ext
        /\ sum \in Int /\ frame.granted - frame.dyn = sum - used
        /\ qc.bitResTot \in Int /\ MinBits \in Int
    BY <1>1, ReservoirFacts DEF FrameState, QcState, UsedBits
  <1>4. /\ ~cfg.unlock => sum % 8 = 0
        /\ frame.hdr % 8 = 0 /\ frame.avg % 8 = 0
        /\ frame.hdr = StaticBits(tp, frame.avg + qc.bitResTot)
        /\ qc.bitResTot \in 0 .. BitRes /\ BitRes \in Nat /\ BitRes % 8 = 0
    BY <1>1, ReservoirFacts
    DEF BudgetInv, TotalInv, HeaderInv, Coding, Estimated
  <1>5. Strict => /\ sum = frame.avg - frame.hdr /\ qc.bitResTot % 8 = 0
                  /\ AlignUp(used) + frame.hdr <= frame.avg + qc.bitResTot
    BY <1>1 DEF BudgetInv, LedgerInv, PaidInv, Estimated
  <1> HIDE DEF sum, used, base
  <1>6. Strict => /\ base = LET delta == sum - used
                            IN  Most(delta % 8,
                                     delta - AlignDown(Most(0, (BitRes - qc.bitResTot) - 7)))
    <2> SUFFICES ASSUME Strict
                 PROVE  base = Most((sum - used) % 8,
                                    (sum - used)
                                    - AlignDown(Most(0, (BitRes - qc.bitResTot) - 7)))
      OBVIOUS
    <2>1. base = FillForReservoir(qc, frame)
      BY DEF base, BaseFill, Strict
    <2>2. qc.bitResTotMax = BitRes
      BY <1>1 DEF QcFixed
    <2> QED
      BY <1>3, <2>1, <2>2 DEF FillForReservoir
  <1>7. Strict => /\ (used + base) % 8 = 0
                  /\ used + base + frame.hdr <= frame.avg + qc.bitResTot
                  /\ qc.bitResTot + sum - (used + base) <= BitRes
    <2> SUFFICES ASSUME Strict
                 PROVE  /\ (used + base) % 8 = 0
                        /\ used + base + frame.hdr <= frame.avg + qc.bitResTot
                        /\ qc.bitResTot + sum - (used + base) <= BitRes
      OBVIOUS
    <2>1. sum % 8 = 0 /\ qc.bitResTot % 8 = 0 /\ BitRes \in Int
      BY <1>4, <1>5 DEF Strict
    <2>2. /\ (used + base) % 8 = 0
          /\ AlignUp(used) <= sum + qc.bitResTot => used + base <= sum + qc.bitResTot
          /\ qc.bitResTot + sum - (used + base) <= BitRes
      <3>1. used \in Nat /\ sum \in Int /\ BitRes % 8 = 0 /\ qc.bitResTot \in 0 .. BitRes
        BY <1>2, <1>3, <1>4
      <3>2. base = LET delta == sum - used
                   IN  Most(delta % 8,
                            delta - AlignDown(Most(0, (BitRes - qc.bitResTot) - 7)))
        BY <1>6
      <3> QED
        BY <2>1, <3>1, <3>2, FillNumbers
    <2>3. AlignUp(used) \in Int
      BY <1>2, AlignFacts
    <2> QED
      BY <1>2, <1>3, <1>4, <1>5, <2>2, <2>3
  <1>8. ~cfg.unlock => (used + base) % 8 = 0
    <2>1. CASE cfg.mode = "cbr"
      BY <1>7, <2>1 DEF Strict
    <2>2. CASE cfg.mode # "cbr"
      <3>1. base = (sum - used) % 8
        BY <1>1, <1>3, <2>2, CfgFacts DEF base, BaseFill
      <3> QED
        BY <1>2, <1>3, <1>4, <3>1
    <2> QED
      BY <2>1, <2>2
  <1>9. extra \in Nat /\ extra % 8 = 0
    BY <1>2, <1>3 DEF AlignUp, Most
  <1>10. ~cfg.unlock => frame'.total % 8 = 0
    <2>1. used + base \in Int /\ extra \in Int /\ frame'.total = (used + base) + extra
      BY <1>2, <1>9
    <2> HIDE DEF extra
    <2> QED
      BY <1>8, <1>9, <2>1, ByteFacts
  <1>11. Strict => /\ frame'.total + frame.hdr <= frame.avg + qc.bitResTot
                   /\ qc.bitResTot + frame.avg - frame.hdr - frame'.total <= BitRes
    <2> SUFFICES ASSUME Strict
                 PROVE  /\ frame'.total + frame.hdr <= frame.avg + qc.bitResTot
                        /\ qc.bitResTot + frame.avg - frame.hdr - frame'.total <= BitRes
      OBVIOUS
    <2> DEFINE n == used + base
    <2>1. n \in Nat /\ n % 8 = 0 /\ frame'.total = n + extra
      <3>1. n \in Nat /\ n % 8 = 0
        BY <1>2, <1>7
      <3>2. extra \in Nat /\ frame'.total = used + (base + extra)
        BY <1>2, <1>9
      <3> HIDE DEF extra
      <3> QED
        BY <1>2, <3>1, <3>2
    <2> HIDE DEF n
    <2>2. /\ MinBits % 8 = 0
          /\ MinBits > 0 => MinBits + frame.hdr <= frame.avg + qc.bitResTot
      <3>1. frame.avg \in {AlignDown(AverageBitsPerFrame), AlignDown(AverageBitsPerFrame) + 8}
        BY <1>1 DEF BudgetInv, TotalInv, Coding, Estimated
      <3> QED
        BY <1>1, <1>4, <3>1, MinBitsPaid DEF Strict
    <2>3. CASE MinBits <= n
      <3>1. Most(0, MinBits - n) = 0
        BY <1>3, <2>1, <2>3 DEF Most
      <3>2. extra = 0
        BY <3>1 DEF AlignUp, n
      <3> HIDE DEF extra
      <3> QED
        BY <1>3, <1>5, <1>7, <2>1, <3>2 DEF n
    <2>4. CASE MinBits > n
      <3>1. MinBits - n \in Int /\ MinBits \in Int /\ n \in Int
        BY <1>3, <2>1
      <3>2. (MinBits - n) % 8 = 0
        BY <2>1, <2>2, <3>1, ByteFacts
      <3>3. Most(0, MinBits - n) = MinBits - n
        BY <2>4, <3>1 DEF Most
      <3>4. extra = MinBits - n
        BY <3>1, <3>2, <3>3, AlignFacts DEF n
      <3> HIDE DEF extra
      <3>5. frame'.total = MinBits
        BY <2>1, <3>1, <3>4
      <3>6. n = used + base
        BY DEF n
      <3>7. qc.bitResTot + frame.avg - frame.hdr - n <= BitRes
        BY <1>2, <1>3, <1>4, <1>5, <1>7, <3>1, <3>6
      <3>8. MinBits + frame.hdr <= frame.avg + qc.bitResTot
        BY <2>1, <2>2, <2>4, <3>1
      <3>9. /\ qc.bitResTot \in Int /\ frame.avg \in Int /\ frame.hdr \in Int
            /\ BitRes \in Int
        BY <1>3, <1>4
      <3>10. qc.bitResTot + frame.avg - frame.hdr - MinBits <= BitRes
        BY <2>4, <3>1, <3>7, <3>9
      <3> QED
        BY <3>5, <3>8, <3>10
    <2> QED
      BY <1>3, <2>1, <2>3, <2>4
  <1>12. TotalInv'
    BY <1>1, <1>2, <1>10, SameConfig
    DEF BudgetInv, TotalInv, Coding, Estimated, Writing, AlignDown, UsedBits
  <1>13. HeaderInv'
    BY <1>1, <1>2, SameConfig, SameFormat DEF BudgetInv, HeaderInv, Estimated
  <1>14. LedgerInv'
    BY <1>1, <1>2, SameConfig DEF BudgetInv, LedgerInv, Strict, Estimated
  <1>15. PaidInv'
    BY <1>1, <1>2, <1>11, SameConfig DEF PaidInv, Strict
  <1>16. RangeInv'
    BY <1>1 DEF RangeInv, Coding, Estimated
  <1> QED
    BY <1>12, <1>13, <1>14, <1>15, <1>16 DEF BudgetInv


(* Settling the header.  `left` is what the reservoir would keep with the   *)
(* estimate; what does not fit it is filled ...                            *)
LEMMA SettleDiff ==
    ASSUME NEW res \in Int, res % 8 = 0, NEW left \in 0 .. res, left % 8 = 0,
           NEW hdr \in Int, hdr % 8 = 0, NEW exact \in 0 .. hdr, exact % 8 = 0
    PROVE  LET over == (hdr - exact) - (res - left)
           IN  AlignUp(Most(0, over)) = IF over > 0 THEN over ELSE 0
  <1> DEFINE over == (hdr - exact) - (res - left)
  <1>1. over \in Int /\ over % 8 = 0
    <2> DEFINE x == hdr - exact
               y == res - left
    <2>1. x % 8 = 0 /\ y % 8 = 0 /\ x \in Int /\ y \in Int
      BY ByteFacts
    <2>2. over = x - y
      OBVIOUS
    <2> HIDE DEF x, y, over
    <2> QED
      BY <2>1, <2>2, ByteFacts
  <1> HIDE DEF over
  <1>2. AlignUp(Most(0, over)) = IF over > 0 THEN over ELSE 0
    BY <1>1, AlignFacts DEF Most, AlignUp
  <1> QED
    BY <1>2 DEF over

(* ... and `more` is what the header grows by when it is.                   *)
LEMMA SettleNumbers ==
    ASSUME NEW res \in Int, NEW left \in 0 .. res,
           NEW hdr \in Int, NEW exact \in 0 .. hdr,
           NEW diff,
           diff = IF (hdr - exact) - (res - left) > 0 THEN (hdr - exact) - (res - left) ELSE 0,
           NEW more \in Nat, diff = 0 => more = 0
    PROVE  /\ left + (hdr - exact - diff) - more <= res
           /\ more <= res => left + (hdr - exact - diff) - more >= 0
  <1>1. CASE (hdr - exact) - (res - left) > 0
    BY <1>1
  <1>2. CASE ~((hdr - exact) - (res - left) > 0)
    BY <1>2
  <1> QED
    BY <1>1, <1>2

LEMMA SettleBudget ==
    ASSUME TypeInv, BudgetInv, SettleHeader
    PROVE  BudgetInv'
  <1> DEFINE used  == UsedBits(frame)
             sum   == frame.granted + frame.static + frame.ext
             exact == StaticBits(tp, frame.total)
             left  == qc.bitResTot + (frame.granted - (frame.dyn + frame.fill))
             space == BitRes - left
             diff  == AlignUp(Most(0, (frame.hdr - exact) - space))
             hdr   == StaticBits(tp, frame.total + diff)
             kept  == cfg.mode = "vbr" \/ exact = frame.hdr
  <1>1. /\ cfg \in Configurations /\ tp \in TpState /\ qc \in QcState /\ frame \in FrameState
        /\ QcFixed /\ pc = "settle" /\ pc' = "align" /\ UNCHANGED <<cfg, tp, balance>>
        /\ qc' = HeaderSettled(qc, frame, tp)[1] /\ frame' = HeaderSettled(qc, frame, tp)[2]
    BY DEF TypeInv, TypeOK, SettleHeader
  <1>2. /\ qc' \in QcState /\ frame' \in FrameState
        /\ exact \in Nat /\ diff \in Nat /\ hdr \in Nat
        /\ frame'.avg = frame.avg /\ frame'.static = frame.static
        /\ frame'.ext = frame.ext /\ frame'.dyn = frame.dyn
        /\ kept =>
              /\ qc'.bitResTot = qc.bitResTot
              /\ frame'.hdr = exact /\ frame'.fill = frame.fill /\ frame'.total = frame.total
              /\ frame'.granted = frame.granted
        /\ ~kept =>
              /\ qc'.bitResTot = qc.bitResTot + (frame.hdr - exact - diff) - (hdr - exact)
              /\ frame'.hdr = hdr /\ frame'.fill = frame.fill + diff
              /\ frame'.total = frame.total + diff
              /\ frame'.granted = frame.granted + diff
    BY <1>1, SettledFields DEF QcFixed
  <1>3. /\ frame.granted \in Int /\ frame.static \in Nat /\ frame.ext \in Nat
        /\ frame.dyn \in Nat /\ frame.fill \in Nat /\ frame.total \in Nat
        /\ frame.hdr \in Nat /\ frame.avg \in Nat /\ qc.bitResTot \in Int
        /\ sum \in Int /\ left \in Int
        /\ BitRes \in Nat /\ BitRes % 8 = 0 /\ balance \in Int
    BY <1>1, ReservoirFacts DEF FrameState, QcState, TypeInv, TypeOK
  <1>4. /\ frame.total = used + frame.fill
        /\ used = frame.static + frame.dyn + frame.ext
        /\ ~cfg.unlock => sum % 8 = 0 /\ frame.total % 8 = 0
        /\ frame.hdr % 8 = 0 /\ frame.avg % 8 = 0
        /\ frame.hdr = StaticBits(tp, frame.avg + qc.bitResTot)
    BY <1>1 DEF BudgetInv, TotalInv, HeaderInv, Coding, Estimated, UsedBits
  <1>5. /\ exact % 8 = 0 /\ hdr % 8 = 0 /\ diff % 8 = 0
    <2>1. frame.total + diff \in Int /\ frame.total \in Int
      BY <1>2, <1>3
    <2>2. (frame.hdr - exact) - space \in Int
      BY <1>2, <1>3
    <2>3. Most(0, (frame.hdr - exact) - space) \in Int
      <3> DEFINE over == (frame.hdr - exact) - space
      <3> HIDE DEF over
      <3>1. over \in Int
        BY <2>2 DEF over
      <3>2. Most(0, over) \in Int
        BY <3>1 DEF Most
      <3> QED
        BY <3>2 DEF over
    <2>4. diff % 8 = 0
      BY <2>3, AlignFacts
    <2> HIDE DEF diff
    <2> QED
      BY <1>1, <2>1, <2>4, StaticSplit
  <1>6. /\ Strict =>
              /\ sum = frame.avg - frame.hdr /\ qc.bitResTot % 8 = 0
              /\ qc.bitResTot = BitRes + balance
              /\ frame.total + frame.hdr <= frame.avg + qc.bitResTot
              /\ qc.bitResTot + frame.avg - frame.hdr - frame.total <= BitRes
    BY <1>1 DEF BudgetInv, LedgerInv, PaidInv, Estimated
  <1>7. /\ frame'.total = UsedBits(frame') + frame'.fill
        /\ ~cfg.unlock =>
              /\ (frame'.granted + frame'.static + frame'.ext) % 8 = 0
              /\ frame'.total % 8 = 0
    <2>1. UsedBits(frame') = used
      BY <1>2 DEF UsedBits
    <2> HIDE DEF diff, hdr, exact
    <2>2. CASE kept
      BY <1>2, <1>3, <1>4, <2>1, <2>2
    <2>3. CASE ~kept
      <3>1. frame'.granted + frame'.static + frame'.ext = sum + diff
            /\ frame'.total = frame.total + diff /\ frame'.fill = frame.fill + diff
        BY <1>2, <1>3, <2>3
      <3>2. frame.total \in Int /\ diff \in Int /\ used \in Int
        BY <1>2, <1>3, <1>4
      <3>3. ~cfg.unlock => (sum + diff) % 8 = 0 /\ (frame.total + diff) % 8 = 0
        BY <1>3, <1>4, <1>5, <3>2, ByteFacts
      <3> QED
        BY <1>4, <1>3, <2>1, <3>1, <3>2, <3>3
    <2> QED
      BY <2>2, <2>3
  <1>8. frame'.hdr = StaticBits(tp, frame'.total)
    BY <1>2
  <1> HIDE DEF exact, diff, hdr
  <1>9. TotalInv'
    <2>1. frame'.hdr % 8 = 0
      BY <1>2, <1>5
    <2> QED
      BY <1>1, <1>2, <1>4, <1>7, <2>1, SameConfig
      DEF BudgetInv, TotalInv, Coding, Estimated, Writing, AlignDown, UsedBits
  <1>10. HeaderInv'
    BY <1>1, <1>8, SameConfig, SameFormat DEF HeaderInv, Estimated
  <1>11. LedgerInv'
    <2> SUFFICES ASSUME Strict
                 PROVE  /\ qc'.bitResTot + frame'.granted + frame'.static + frame'.ext
                               = BitRes + balance + frame'.avg - frame'.hdr
                        /\ qc'.bitResTot % 8 = 0
      BY <1>1, SameConfig DEF LedgerInv, Strict, Estimated
    <2>1. CASE kept
      <3>1. qc'.bitResTot + frame'.granted + frame'.static + frame'.ext
                = qc.bitResTot + sum
        BY <1>2, <1>3, <2>1
      <3>2. frame'.hdr = frame.hdr /\ qc'.bitResTot = qc.bitResTot
        BY <1>2, <2>1 DEF Strict
      <3> HIDE DEF sum
      <3> QED
        BY <1>2, <1>3, <1>6, <3>1, <3>2
    <2>2. CASE ~kept
      <3>1. qc'.bitResTot + frame'.granted + frame'.static + frame'.ext
                = BitRes + balance + frame'.avg - frame'.hdr
        <4>1. qc'.bitResTot + frame'.granted + frame'.static + frame'.ext
                  = qc.bitResTot + frame.hdr - hdr + sum
          BY <1>2, <1>3, <2>2
        <4> HIDE DEF sum
        <4> QED
          BY <1>2, <1>3, <1>6, <2>2, <4>1
      <3>2. qc'.bitResTot = ((qc.bitResTot + frame.hdr) - diff) - hdr
        BY <1>2, <1>3, <2>2
      <3> DEFINE x == qc.bitResTot + frame.hdr
                 y == x - diff
      <3>3. x % 8 = 0 /\ x \in Int
        BY <1>3, <1>4, <1>6, ByteFacts
      <3>4. diff \in Int /\ hdr \in Int
        BY <1>2
      <3> HIDE DEF x
      <3>5. y % 8 = 0 /\ y \in Int
        BY <1>5, <3>3, <3>4, ByteFacts
      <3>6. qc'.bitResTot = y - hdr
        BY <3>2 DEF x
      <3> HIDE DEF y
      <3>7. (y - hdr) % 8 = 0
        BY <1>5, <3>4, <3>5, ByteFacts
      <3> QED
        BY <3>1, <3>6, <3>7
    <2> QED
      BY <2>1, <2>2
  <1>12. PaidInv'
    <2> SUFFICES ASSUME Strict
                 PROVE  LET new == qc'.bitResTot + frame'.granted - frame'.dyn - frame'.fill
                        IN  new <= BitRes /\ (~NoReservoir => new >= 0)
      BY <1>1, SameConfig DEF PaidInv, Strict
    <2>1. left = (qc.bitResTot + sum) - frame.total
      BY <1>3, <1>4
    <2>2. left \in 0 .. BitRes /\ left % 8 = 0
      <3>1. left \in 0 .. BitRes
        BY <1>3, <1>6, <2>1
      <3>2. (qc.bitResTot + sum) % 8 = 0 /\ qc.bitResTot + sum \in Int
        BY <1>3, <1>4, <1>6, ByteFacts DEF Strict
      <3>3. frame.total % 8 = 0 /\ frame.total \in Int
        BY <1>3, <1>4 DEF Strict
      <3> DEFINE a == qc.bitResTot + sum
                 b == frame.total
      <3>4. left = a - b /\ a \in Int /\ b \in Int /\ a % 8 = 0 /\ b % 8 = 0
        BY <2>1, <3>2, <3>3
      <3> HIDE DEF a, b
      <3>5. (a - b) % 8 = 0
        BY <3>4, ByteFacts
      <3> QED
        BY <3>1, <3>4, <3>5
    <2>3. CASE kept
      <3>1. qc'.bitResTot + frame'.granted - frame'.dyn - frame'.fill = left
        BY <1>2, <1>3, <2>3
      <3> QED
        BY <2>2, <3>1
    <2>4. CASE ~kept
      <3> DEFINE m == frame.total
                 n == frame.avg + qc.bitResTot
                 more == hdr - exact
      <3>1. /\ m \in Int /\ n \in Int /\ m <= n /\ m > 0 /\ n - m <= 50000
        <4>1. frame.static > 0
          BY <1>1, <1>3 DEF TypeInv, FrameOK, Coding, Estimated
        <4>2. frame.avg <= AlignDown(AverageBitsPerFrame + 15) /\ qc.bitResTot <= BitRes
          BY <1>1 DEF BudgetInv, TotalInv, HeaderInv, Coding, Estimated
        <4>3. /\ AverageBitsPerFrame \in Nat /\ AverageBits \in Nat
              /\ AverageBitsPerFrame <= AverageBits
              /\ BufferSize \in Nat /\ 6144 <= BufferSize /\ BufferSize <= 49152
              /\ BitRes <= BufferSize - AverageBits
          BY <1>1, ReservoirFacts DEF Strict
        <4>4. AlignDown(AverageBitsPerFrame + 15) <= AverageBitsPerFrame + 15
              /\ AlignDown(AverageBitsPerFrame + 15) \in Int
          <5> DEFINE a == AverageBitsPerFrame + 15
          <5>1. a \in Int
            BY <4>3
          <5> HIDE DEF a
          <5>2. AlignDown(a) \in Int /\ AlignDown(a) <= a
            BY <5>1, AlignFacts
          <5> QED
            BY <5>2 DEF a
        <4>5. frame.avg + qc.bitResTot <= 49167
          <5> DEFINE up == AlignDown(AverageBitsPerFrame + 15)
          <5>1. up \in Int /\ up <= AverageBitsPerFrame + 15 /\ frame.avg <= up
            BY <4>2, <4>4
          <5> HIDE DEF up
          <5>2. /\ frame.avg \in Nat /\ qc.bitResTot \in Int /\ BitRes \in Nat
            BY <1>3
          <5>3. frame.avg <= AverageBits + 15
            BY <4>3, <5>1, <5>2
          <5>4. qc.bitResTot <= BufferSize - AverageBits /\ BufferSize <= 49152
                /\ BufferSize \in Int /\ AverageBits \in Int
            BY <4>2, <4>3, <5>2
          <5> QED
            BY <5>2, <5>3, <5>4
        <4>6. frame.total > 0
          BY <1>3, <1>4, <4>1
        <4>7. frame.total <= frame.avg + qc.bitResTot
          BY <1>3, <1>6
        <4> QED
          BY <1>3, <4>5, <4>6, <4>7
      <3>2. /\ exact = HeaderPart(tp) + LengthPart(tp, m)
            /\ frame.hdr = HeaderPart(tp) + LengthPart(tp, n)
            /\ HeaderPart(tp) \in Nat /\ LengthPart(tp, m) \in Nat /\ LengthPart(tp, n) \in Nat
        BY <1>1, <1>4, <3>1, StaticSplit DEF exact
      <3>3. exact \in 0 .. frame.hdr /\ frame.hdr - exact <= 200
        BY <1>1, <3>1, <3>2, LengthSteps
      <3>4. diff = IF (frame.hdr - exact) - (BitRes - left) > 0
                   THEN (frame.hdr - exact) - (BitRes - left) ELSE 0
        <4>1. BitRes \in Int /\ frame.hdr \in Int
          BY <1>3
        <4> HIDE DEF left
        <4> QED
          BY <1>3, <1>4, <1>5, <2>2, <3>3, <4>1, SettleDiff DEF diff
      <3>5. diff <= 200
        BY <1>3, <2>2, <3>3, <3>4
      <3>6. /\ hdr = HeaderPart(tp) + LengthPart(tp, m + diff)
            /\ LengthPart(tp, m + diff) \in Nat
            /\ ~IsLatm => LengthPart(tp, m + diff) = 0 /\ LengthPart(tp, m) = 0
        BY <1>1, <1>2, <3>1, StaticSplit DEF hdr
      <3>7. LengthPart(tp, m) <= LengthPart(tp, m + diff)
            /\ LengthPart(tp, m + diff) <= LengthPart(tp, m) + 8
        <4>1. m + diff \in Int /\ m <= m + diff /\ (m + diff) - m <= 2040
          BY <1>2, <3>1, <3>5
        <4> HIDE DEF m
        <4> QED
          BY <1>1, <3>1, <4>1, LengthSteps
      <3>8. more \in Nat /\ more <= 8 /\ (~IsLatm => more = 0)
        BY <3>2, <3>6, <3>7
      <3>9. diff = 0 => more = 0
        BY <1>2, <1>3 DEF hdr, exact
      <3>10. ~NoReservoir => more <= BitRes
        BY <1>3, <3>8 DEF NoReservoir
      <3>11. qc'.bitResTot + frame'.granted - frame'.dyn - frame'.fill
                 = left + (frame.hdr - exact - diff) - more
        BY <1>2, <1>3, <2>4
      <3> HIDE DEF left, more
      <3>12. BitRes \in Int /\ frame.hdr \in Int
        BY <1>3
      <3>13. /\ left + (frame.hdr - exact - diff) - more <= BitRes
             /\ more <= BitRes => left + (frame.hdr - exact - diff) - more >= 0
        BY <2>2, <3>3, <3>4, <3>8, <3>9, <3>12, SettleNumbers
      <3> QED
        BY <3>10, <3>11, <3>13
    <2> QED
      BY <2>3, <2>4
  <1>13. RangeInv'
    BY <1>1 DEF RangeInv, Coding, Estimated
  <1> QED
    BY <1>9, <1>10, <1>11, <1>12, <1>13 DEF BudgetInv


(* The alignment takes what it needs from the fill bits, so that the ledger *)
(* of the reservoir closes with the frame.                                 *)
LEMMA AlignBudget ==
    ASSUME TypeInv, BudgetInv, Align, pc' = "header"
    PROVE  BudgetInv'
  <1> DEFINE used == UsedBits(frame)
             sum  == frame.granted + frame.static + frame.ext
             left == qc.bitResTot + frame.granted - frame.dyn - frame.fill
  <1>1. /\ cfg \in Configurations /\ tp \in TpState /\ qc \in QcState /\ frame \in FrameState
        /\ QcFixed /\ pc = "align" /\ UNCHANGED <<cfg, tp>>
        /\ frame' = Aligned(frame) /\ balance \in Int
    BY DEF TypeInv, TypeOK, Align
  <1>2. /\ qc' = UpdateBitres(qc, frame')
        /\ balance' = IF cfg.mode = "vbr" \/ cfg.unlock THEN 0
                      ELSE balance + frame'.avg - (frame'.total + frame'.hdr)
    BY <1>1 DEF Align, Fail
  <1>3. /\ frame' \in FrameState /\ used \in Nat /\ UsedBits(frame') = used
        /\ frame'.align \in 0 .. 7
        /\ frame'.total = used + frame'.fill + frame'.align
        /\ frame'.total % 8 = 0 /\ FillData(frame'.fill) = frame'.fill
        /\ (used + frame.fill) % 8 = 0 => frame'.fill + frame'.align = frame.fill
        /\ frame'.avg = frame.avg /\ frame'.hdr = frame.hdr /\ frame'.static = frame.static
        /\ frame'.least = frame.least /\ frame'.ext = frame.ext
        /\ frame'.granted = frame.granted /\ frame'.dyn = frame.dyn
    BY <1>1, AlignedFields
  <1>4. /\ frame.granted \in Int /\ frame.static \in Nat /\ frame.ext \in Nat
        /\ frame.dyn \in Nat /\ frame.fill \in Nat /\ frame.hdr \in Nat /\ frame.avg \in Nat
        /\ frame'.fill \in Nat /\ frame'.align \in Nat
        /\ qc.bitResTot \in Int /\ BitRes \in Nat /\ MaxBits \in Nat
        /\ used = frame.static + frame.dyn + frame.ext
    BY <1>1, <1>3, ReservoirFacts DEF FrameState, QcState, UsedBits
  <1>5. /\ frame.total = used + frame.fill /\ frame.hdr = StaticBits(tp, frame.total)
        /\ frame.hdr % 8 = 0 /\ frame.avg % 8 = 0
        /\ ~cfg.unlock => frame.total % 8 = 0 /\ sum % 8 = 0
    BY <1>1 DEF BudgetInv, TotalInv, HeaderInv, Coding, Estimated
  <1>6. ~cfg.unlock => /\ frame'.fill + frame'.align = frame.fill
                       /\ frame'.total = frame.total
    BY <1>3, <1>4, <1>5
  <1>7. /\ qc' \in QcState
        /\ cfg.mode = "vbr" => qc'.bitResTot = Least(MaxBits, BitRes)
        /\ cfg.mode # "vbr" /\ cfg.unlock => qc'.bitResTot >= 0
        /\ cfg.mode # "vbr" /\ ~cfg.unlock => qc'.bitResTot = left
    <2> DEFINE level == qc.bitResTot + frame'.granted
                        - (frame'.dyn + frame'.fill + frame'.align)
    <2>1. /\ qc' \in QcState
          /\ cfg.mode = "vbr" => qc'.bitResTot = Least(MaxBits, BitRes)
          /\ cfg.mode # "vbr" /\ cfg.unlock => qc'.bitResTot = Most(0, level)
          /\ cfg.mode # "vbr" /\ ~cfg.unlock => qc'.bitResTot = level
      BY <1>1, <1>2, <1>3, UpdatedFields DEF QcFixed
    <2>2. level \in Int
      <3>1. frame'.granted \in Int /\ frame'.dyn \in Nat
        BY <1>3, <1>4
      <3> QED
        BY <1>4, <3>1
    <2>3. ~cfg.unlock => level = left
      BY <1>3, <1>4, <1>6
    <2> HIDE DEF level
    <2>4. Most(0, level) >= 0
      BY <2>2 DEF Most
    <2> QED
      BY <2>1, <2>3, <2>4
  <1>8. /\ Strict => /\ qc.bitResTot + frame.granted + frame.static + frame.ext
                            = BitRes + balance + frame.avg - frame.hdr
                     /\ qc.bitResTot % 8 = 0
                     /\ left <= BitRes /\ (~NoReservoir => left >= 0)
    BY <1>1 DEF BudgetInv, LedgerInv, PaidInv
  <1>9. TotalInv'
    <2>1. FillData(frame.fill)' = frame'.fill
      BY <1>1, <1>3, SameFormat
    <2> QED
      BY <1>3, <1>5, <2>1 DEF TotalInv, Coding, Estimated, Writing, UsedBits
  <1>10. HeaderInv'
    <2>1. ~(cfg.unlock /\ IsLatm) => frame'.hdr = StaticBits(tp, frame'.total)
      <3>1. CASE ~cfg.unlock
        BY <1>3, <1>5, <1>6, <3>1
      <3>2. CASE ~IsLatm
        <4>1. frame.total \in Int /\ frame'.total \in Int
          BY <1>1, <1>3 DEF FrameState
        <4>2. /\ StaticBits(tp, frame.total) = HeaderPart(tp) + LengthPart(tp, frame.total)
              /\ StaticBits(tp, frame'.total) = HeaderPart(tp) + LengthPart(tp, frame'.total)
              /\ LengthPart(tp, frame.total) = 0 /\ LengthPart(tp, frame'.total) = 0
          BY <1>1, <3>2, <4>1, StaticSplit
        <4> QED
          BY <1>3, <1>5, <4>2
      <3> QED
        BY <3>1, <3>2
    <2> QED
      BY <1>1, <2>1, SameConfig, SameFormat DEF HeaderInv, Estimated
  <1>11. LedgerInv'
    <2> SUFFICES ASSUME Strict
                 PROVE  qc'.bitResTot = BitRes + balance' /\ qc'.bitResTot % 8 = 0
      BY <1>1, SameConfig DEF LedgerInv, Strict, Estimated
    <2>1. /\ qc'.bitResTot = left /\ frame'.total = frame.total
          /\ balance' = balance + frame.avg - (frame.total + frame.hdr)
      BY <1>2, <1>3, <1>6, <1>7 DEF Strict
    <2>2. left = BitRes + balance'
      BY <1>1, <1>4, <1>5, <1>8, <2>1
    <2>3. left = (qc.bitResTot + sum) - frame.total
      BY <1>4, <1>5
    <2>4. (qc.bitResTot + sum) % 8 = 0 /\ qc.bitResTot + sum \in Int
      <3>1. sum \in Int /\ qc.bitResTot \in Int
        BY <1>4
      <3>2. sum % 8 = 0 /\ qc.bitResTot % 8 = 0
        BY <1>5, <1>8 DEF Strict
      <3> DEFINE level == qc.bitResTot
      <3>3. level \in Int /\ level % 8 = 0
        BY <3>1, <3>2
      <3> HIDE DEF sum, level
      <3>4. (level + sum) % 8 = 0
        BY <3>1, <3>2, <3>3, ByteFacts
      <3>5. level + sum \in Int
        BY <3>1, <3>3
      <3> QED
        BY <3>4, <3>5 DEF level
    <2>5. frame.total \in Int /\ frame.total % 8 = 0
      BY <1>4, <1>5 DEF Strict
    <2> QED
      BY <2>1, <2>2, <2>3, <2>4, <2>5, ByteFacts
  <1>12. PaidInv'
    BY DEF PaidInv
  <1>13. RangeInv'
    <2>1. /\ ~NoReservoir => qc'.bitResTot >= 0
          /\ ~cfg.unlock => qc'.bitResTot <= BitRes
      <3>1. CASE cfg.mode = "vbr"
        BY <1>4, <1>7, <3>1 DEF Least
      <3>2. CASE cfg.mode # "vbr" /\ cfg.unlock
        BY <1>7, <3>2
      <3>3. CASE cfg.mode # "vbr" /\ ~cfg.unlock
        BY <1>1, <1>7, <1>8, <3>3, CfgFacts DEF Strict
      <3> QED
        BY <3>1, <3>2, <3>3
    <2> QED
      BY <1>1, <2>1, SameConfig DEF RangeInv
  <1> QED
    BY <1>9, <1>10, <1>11, <1>12, <1>13 DEF BudgetInv

(* Writing a frame leaves the account as it is. *)
LEMMA WriteBudget ==
    ASSUME BudgetInv, UNCHANGED <<cfg, qc, balance>>,
           \/ pc = "header" /\ pc' = "payload" /\ frame' = frame
           \/ pc = "payload" /\ pc' = "end" /\ frame' = frame
           \/ pc = "end" /\ pc' = "handout" /\ frame' = frame
           \/ pc = "handout" /\ pc' = "frame"
    PROVE  BudgetInv'
  <1>1. TotalInv'
    BY SameFormat DEF BudgetInv, TotalInv, Coding, Estimated, Writing, UsedBits
  <1>2. HeaderInv'
    BY DEF HeaderInv, Estimated
  <1>3. LedgerInv'
    BY SameConfig DEF BudgetInv, LedgerInv, Strict, Estimated
  <1>4. PaidInv'
    BY DEF PaidInv
  <1>5. RangeInv'
    BY SameConfig DEF BudgetInv, RangeInv, Coding, Estimated
  <1> QED
    BY <1>1, <1>2, <1>3, <1>4, <1>5 DEF BudgetInv

LEMMA InitBudget ==
    ASSUME Init
    PROVE  BudgetInv
  <1>1. pc = "frame" /\ qc.bitResTot = BitRes /\ balance = 0 /\ cfg \in Configurations
    BY DEF Init, QcInit
  <1>2. BitRes \in Nat /\ BitRes % 8 = 0
    BY <1>1, ReservoirFacts
  <1>3. TotalInv /\ HeaderInv /\ PaidInv
    BY <1>1 DEF TotalInv, HeaderInv, PaidInv, Coding, Estimated, Writing
  <1>4. LedgerInv /\ RangeInv
    BY <1>1, <1>2 DEF LedgerInv, RangeInv, Coding, Estimated
  <1> QED
    BY <1>3, <1>4 DEF BudgetInv

LEMMA BudgetStep ==
    ASSUME TypeInv, ConfigInv, BudgetInv, [Next]_vars
    PROVE  BudgetInv'
  <1>1. CASE BeginFrame
    <2>1. pc' = "quantize" \/ pc' = "failed"
      BY <1>1, BeginFields
    <2> QED
      BY <1>1, <2>1, BeginBudget, FailedBudget
  <1>2. CASE QuantizeOutOfRange
    <2>1. /\ pc = "quantize" /\ pc' = "reduce" /\ UNCHANGED <<cfg, tp, qc, balance>>
          /\ frame' = [frame EXCEPT !.decrease = TRUE] /\ frame \in FrameState
      BY <1>2 DEF QuantizeOutOfRange, TypeInv, TypeOK
    <2>2. /\ frame' \in FrameState
          /\ frame'.avg = frame.avg /\ frame'.hdr = frame.hdr
          /\ frame'.least = frame.least /\ frame'.ext = frame.ext
          /\ frame'.granted = frame.granted /\ frame'.static = frame.static
      BY <2>1 DEF FrameState
    <2> QED
      BY <2>1, <2>2, LoopBudget
  <1>3. CASE Quantize
    BY <1>3, QuantizeBudget
  <1>4. CASE Reduce
    <2>1. /\ pc = "reduce" /\ pc' = "quantize" /\ UNCHANGED <<cfg, tp, qc, balance>>
          /\ frame' \in Reductions(frame) /\ frame \in FrameState
          /\ frame.least \in 1 .. frame.static
      BY <1>4 DEF Reduce, TypeInv, TypeOK, FrameOK, Coding, Estimated
    <2>2. /\ frame' \in FrameState
          /\ frame'.avg = frame.avg /\ frame'.hdr = frame.hdr
          /\ frame'.least = frame.least /\ frame'.ext = frame.ext
          /\ frame'.granted + frame'.static = frame.granted + frame.static
      BY <2>1, ReducedFields
    <2> QED
      BY <2>1, <2>2, LoopBudget
  <1>5. CASE ReduceNothing
    <2>1. CASE ~cfg.unlock
      BY <1>5, <2>1, FailedBudget DEF ReduceNothing, Fail
    <2>2. CASE cfg.unlock
      <3>1. /\ pc = "reduce" /\ pc' \in {"quantize", "fill"}
            /\ UNCHANGED <<cfg, tp, qc, balance, frame>> /\ frame \in FrameState
        BY <1>5, <2>2 DEF ReduceNothing, TypeInv, TypeOK
      <3> QED
        BY <2>2, <3>1, LoopBudget DEF Strict
    <2> QED
      BY <2>1, <2>2
  <1>6. CASE FillUp
    BY <1>6, FillBudget
  <1>7. CASE SettleHeader
    BY <1>7, SettleBudget
  <1>8. CASE Align
    <2>1. pc' = "header" \/ pc' = "failed"
      BY <1>8 DEF Align, Fail
    <2> QED
      BY <1>8, <2>1, AlignBudget, FailedBudget
  <1>9. CASE WriteHeader
    BY <1>9, WriteBudget DEF WriteHeader
  <1>10. CASE WriteBitstream
    BY <1>10, WriteBudget DEF WriteBitstream
  <1>11. CASE EndUnit
    <2>1. pc' = "failed" \/ (pc' = "handout" /\ balance' = balance)
      BY <1>11 DEF EndUnit, Fail
    <2> QED
      BY <1>11, <2>1, WriteBudget, FailedBudget DEF EndUnit
  <1>12. CASE HandOut
    <2>1. pc' = "failed" \/ (pc' = "frame" /\ balance' = balance)
      BY <1>12 DEF HandOut, Fail
    <2> QED
      BY <1>12, <2>1, WriteBudget, FailedBudget DEF HandOut
  <1>13. CASE UNCHANGED vars
    <2>1. /\ cfg' = cfg /\ tp' = tp /\ qc' = qc /\ frame' = frame /\ pc' = pc
          /\ balance' = balance
      BY <1>13 DEF vars
    <2>2. TotalInv'
      BY <2>1, SameConfig, SameFormat
      DEF BudgetInv, TotalInv, Coding, Estimated, Writing, UsedBits, AlignDown
    <2>3. HeaderInv' /\ LedgerInv'
      BY <2>1, SameConfig, SameFormat
      DEF BudgetInv, HeaderInv, LedgerInv, Strict, Coding, Estimated
    <2>4. PaidInv' /\ RangeInv'
      BY <2>1, SameConfig
      DEF BudgetInv, PaidInv, RangeInv, Strict, Coding, Estimated, UsedBits, AlignUp
    <2> QED
      BY <2>2, <2>3, <2>4 DEF BudgetInv
  <1> QED
    BY <1>1, <1>2, <1>3, <1>4, <1>5, <1>6, <1>7, <1>8, <1>9, <1>10, <1>11, <1>12, <1>13
    DEF Next, Failed

LEMMA BudgetInvariant == Spec => [](TypeInv /\ ConfigInv /\ BudgetInv)
  <1>1. Init => TypeInv /\ ConfigInv /\ BudgetInv
    BY InitTypes, InitConfig, InitBudget
  <1>2. TypeInv /\ ConfigInv /\ BudgetInv /\ [Next]_vars
            => (TypeInv /\ ConfigInv /\ BudgetInv)'
    BY TypeStep, ConfigStep, BudgetStep
  <1> QED
    BY <1>1, <1>2, PTL DEF Spec


(* With a constant bit rate every bit is accounted for.                     *)
THEOREM AverageHoldsAlways == Spec => []AverageHolds
  <1>1. TypeInv /\ BudgetInv => AverageHolds
    BY DEF TypeInv, QcFixed, BudgetInv, LedgerInv, Strict, AverageHolds
  <1> QED
    BY <1>1, BudgetInvariant, PTL

(* The header estimated for the largest frame is not smaller than that of  *)
(* the frame that was coded: what bitsToBitres asserts.                    *)
THEOREM HeaderNeverUnderestimatedAlways == Spec => []HeaderNeverUnderestimated
  <1>1. ASSUME TypeInv, BudgetInv, pc = "settle", Strict
        PROVE  StaticBits(tp, frame.total) <= frame.hdr
    <2> DEFINE n == frame.avg + qc.bitResTot
    <2>1. cfg \in Configurations /\ tp \in TpState /\ frame \in FrameState /\ qc \in QcState
      BY <1>1 DEF TypeInv, TypeOK
    <2>2. n \in Int /\ frame.total \in Int /\ frame.hdr \in Nat
      BY <2>1 DEF FrameState, QcState
    <2>3. frame.hdr = StaticBits(tp, n) /\ frame.total + frame.hdr <= n
      BY <1>1 DEF BudgetInv, HeaderInv, PaidInv, Estimated
    <2> HIDE DEF n
    <2>4. LengthPart(tp, frame.total) <= LengthPart(tp, n)
      BY <2>1, <2>2, <2>3, LengthSteps
    <2> QED
      BY <2>1, <2>2, <2>3, <2>4, StaticSplit
  <1>2. TypeInv /\ BudgetInv => HeaderNeverUnderestimated
    BY <1>1 DEF HeaderNeverUnderestimated, Strict
  <1> QED
    BY <1>2, BudgetInvariant, PTL

(* A frame that begins finds no more in the reservoir than fits it.        *)
NeverTooHigh == ~cfg.unlock => error # "bitres_too_high"

LEMMA NeverTooHighStep ==
    ASSUME TypeInv, BudgetInv, NeverTooHigh, [Next]_vars
    PROVE  NeverTooHigh'
  <1> SUFFICES ASSUME cfg' = cfg, ~cfg.unlock
               PROVE  error' # "bitres_too_high"
    BY DEF NeverTooHigh, Next, vars, BeginFrame, QuantizeOutOfRange, Quantize, Reduce,
           ReduceNothing, FillUp, SettleHeader, Align, WriteHeader, WriteBitstream, EndUnit,
           HandOut, Failed
  <1>1. CASE BeginFrame
    <2>1. pc = "frame" /\ qc \in QcState /\ cfg \in Configurations /\ qc.bitResTotMax = BitRes
      BY <1>1, BeginFields DEF TypeInv, TypeOK, QcFixed
    <2>2. qc.bitResTot <= BitRes /\ qc.bitResTot \in Int /\ BitRes \in Nat
      BY <2>1, ReservoirFacts DEF BudgetInv, RangeInv, Coding, Estimated, QcState
    <2>3. BitResError(qc) \in {"none", "bitres_too_low"}
      BY <2>1, <2>2 DEF BitResError
    <2>4. error' = error \/ error' = BitResError(qc) \/ error' = "bitres_too_low"
      BY <1>1, BeginFields
    <2> QED
      BY <2>3, <2>4 DEF NeverTooHigh
  <1>2. CASE CodingStep
    BY <1>2, CodingSteps DEF NeverTooHigh
  <1>3. CASE WriteHeader \/ WriteBitstream \/ EndUnit \/ HandOut \/ UNCHANGED vars
    BY <1>3 DEF NeverTooHigh, WriteHeader, WriteBitstream, EndUnit, HandOut, vars, Fail
  <1> QED
    BY <1>1, <1>2, <1>3, StepCases

(* A frame that is paid for leaves a reservoir the next one can use: never  *)
(* negative and never above its maximum.                                   *)
THEOREM ReservoirInRangeAlways == Spec => []ReservoirInRange
  <1>1. Init => TypeInv /\ ConfigInv /\ BudgetInv /\ NeverTooHigh
    BY InitTypes, InitConfig, InitBudget DEF Init, NeverTooHigh
  <1>2. TypeInv /\ ConfigInv /\ BudgetInv /\ NeverTooHigh /\ [Next]_vars
            => (TypeInv /\ ConfigInv /\ BudgetInv /\ NeverTooHigh)'
    BY TypeStep, ConfigStep, BudgetStep, NeverTooHighStep
  <1>3. TypeInv /\ BudgetInv /\ NeverTooHigh => ReservoirInRange
    BY DEF TypeInv, QcFixed, BudgetInv, RangeInv, NeverTooHigh, ReservoirInRange, Coding,
           Estimated
  <1> QED
    BY <1>1, <1>2, <1>3, PTL DEF Spec



-----------------------------------------------------------------------------
(* The bits written *)

LEMMA SameUnit ==
    ASSUME cfg' = cfg, NEW t
    PROVE  Closing(t)' = Closing(t) /\ AccessUnitBits(t)' = AccessUnitBits(t)
  <1>1. Closing(t)' = Closing(t)
    BY DEF Closing, DabHeaderBits, IsLatm
  <1>2. AccessUnitBits(t)' = AccessUnitBits(t)
    BY DEF AccessUnitBits, DabUnitBits, DabHeaderBits, IsLatm
  <1> QED
    BY <1>1, <1>2

(* The size of an access unit, by format. *)
LEMMA UnitOfFormat ==
    ASSUME NEW t
    PROVE  /\ cfg.fmt = "dab" => AccessUnitBits(t) = t.valid - t.start + DabUnitBits(t)
           /\ cfg.fmt = "adts" =>
                 AccessUnitBits(t) = t.valid - t.start
                                     + (IF cfg.crc /\ cfg.nSubFrames > 1 THEN 16 ELSE 0)
           /\ IsLatm =>
                 AccessUnitBits(t) = t.valid - t.start + (IF t.block = 0 THEN t.fillBits ELSE 0)
           /\ cfg.fmt = "raw" => AccessUnitBits(t) = t.valid - t.start + 0
  <1>1. ASSUME cfg.fmt = "dab"
        PROVE  AccessUnitBits(t) = t.valid - t.start + DabUnitBits(t)
    BY <1>1, Zenon DEF AccessUnitBits, IsLatm
  <1>2. ASSUME cfg.fmt = "adts"
        PROVE  AccessUnitBits(t) = t.valid - t.start
                                   + (IF cfg.crc /\ cfg.nSubFrames > 1 THEN 16 ELSE 0)
    BY <1>2, Zenon DEF AccessUnitBits, IsLatm
  <1>3. ASSUME IsLatm
        PROVE  AccessUnitBits(t) = t.valid - t.start + (IF t.block = 0 THEN t.fillBits ELSE 0)
    BY <1>3, Zenon DEF AccessUnitBits, IsLatm
  <1>4. cfg.fmt = "raw" => AccessUnitBits(t) = t.valid - t.start + 0
    BY Zenon DEF AccessUnitBits, IsLatm
  <1> QED
    BY <1>1, <1>2, <1>3, <1>4

(* What is written in front of the payload and what closes the unit are    *)
(* the static bits: transportEnc_WriteAccessUnit() against                 *)
(* transportEnc_GetStaticBits().                                           *)
LEMMA FrontAndClosing ==
    ASSUME cfg \in Configurations, NEW t \in TpState, NEW n \in Nat, n > 0, n % 8 = 0,
           IsLatm => t.fillBits = LatmFillBits(t) \/ t.block # 0
    PROVE  LET w == WriteAccessUnit(t, n)
           IN  w.valid - w.start + Closing(w) = StaticBits(t, n)
  <1> DEFINE w == WriteAccessUnit(t, n)
             pce == PceBits(t)
             au == n + pce
             front == FrontBits(t, au)
             from == SubFrameStart(t)
  <1> SUFFICES w.valid - w.start + Closing(w) = StaticBits(t, n)
    OBVIOUS
  <1>1. /\ pce \in Nat /\ pce % 8 = 0 /\ au \in Nat /\ front \in Nat /\ from \in Nat
        /\ w.start = IF cfg.fmt = "dab" THEN from + front ELSE from
        /\ w.valid = from + front + pce
        /\ w.fillBits = t.fillBits
        /\ cfg.fmt # "raw" => w.block = t.block
    BY PceFacts, WriteFields
  <1>2. CASE cfg.fmt = "raw"
    <2>1. front = 0 /\ StaticBits(t, n) = pce + 0
      BY <1>2, FrontOfFormat, StaticOfFormat
    <2>2. Closing(w) = 0
      BY <1>2 DEF Closing, IsLatm
    <2> HIDE DEF w, pce, front, from
    <2> QED
      BY <1>1, <1>2, <2>1, <2>2
  <1>3. CASE cfg.fmt = "adts"
    <2> DEFINE crc == IF cfg.crc /\ cfg.nSubFrames > 1 THEN 16 ELSE 0
    <2>1. StaticBits(t, n) = pce + AdtsHeaderBits(t)
      BY <1>3, StaticOfFormat
    <2>2. AdtsHeaderBits(t) = front + crc
      BY <1>3, FrontOfFormat, Zenon DEF AdtsHeaderBits
    <2>3. Closing(w) = crc
      BY <1>3 DEF Closing
    <2>4. crc \in Nat
      OBVIOUS
    <2> HIDE DEF w, pce, front, from, crc
    <2> QED
      BY <1>1, <1>3, <2>1, <2>2, <2>3, <2>4
  <1>4. CASE cfg.fmt = "dab"
    <2>1. StaticBits(t, n) = pce + DabHeaderBits(t) /\ DabHeaderBits(t) \in Nat
      BY <1>4, StaticOfFormat, DabFacts
    <2>2. Closing(w) = DabHeaderBits(t)
      <3>1. CASE t.block = 0
        BY <1>1, <1>4, <3>1, Zenon DEF Closing, DabHeaderBits
      <3>2. CASE t.block # 0
        BY <1>1, <1>4, <3>2 DEF Closing, DabHeaderBits
      <3> QED
        BY <3>1, <3>2
    <2> HIDE DEF w, pce, front, from
    <2> QED
      BY <1>1, <1>4, <2>1, <2>2
  <1>5. CASE IsLatm
    <2> DEFINE fixed == LatmFixedBits(t)
               len == LatmLengthBits(au)
    <2>1. fixed \in Nat /\ (t.block # 0 => fixed = 0) /\ len \in Nat
      BY <1>1, LatmFixedFacts DEF LatmFixedBits, LatmLengthBits
    <2>2. au % 8 = 0 /\ au > 0
      BY <1>1, ByteFacts
    <2>3. front = fixed + len
      BY <1>5, <2>2, FrontOfFormat
    <2>4. StaticBits(t, n) = pce + (AlignUp(fixed) + len)
      BY <1>5, <2>2, StaticOfFormat
    <2>5. Closing(w) = AlignUp(fixed) - fixed
      <3>1. CASE t.block = 0
        <4>1. Closing(w) = t.fillBits
          BY <1>1, <1>5, <3>1 DEF Closing, IsLatm
        <4> QED
          BY <1>5, <3>1, <4>1 DEF LatmFillBits
      <3>2. CASE t.block # 0
        <4>1. Closing(w) = 0
          BY <1>1, <1>5, <3>2 DEF Closing, IsLatm
        <4> QED
          BY <2>1, <3>2, <4>1 DEF AlignUp
      <3> QED
        BY <3>1, <3>2
    <2>6. cfg.fmt # "dab"
      BY <1>5 DEF IsLatm
    <2>7. AlignUp(fixed) \in Int
      BY <2>1 DEF AlignUp
    <2> HIDE DEF w, pce, front, from, fixed, len
    <2> QED
      BY <1>1, <2>1, <2>3, <2>4, <2>5, <2>6, <2>7
  <1> QED
    BY <1>2, <1>3, <1>4, <1>5, CfgFacts DEF Formats, IsLatm


(* The steps that write, said by the fields they change. *)
LEMMA HeaderFields ==
    ASSUME TypeInv, WriteHeader
    PROVE  LET n     == frame.total
               from  == SubFrameStart(tp)
               front == FrontBits(tp, n + PceBits(tp))
           IN  /\ pc = "header" /\ pc' = "payload" /\ cfg' = cfg /\ frame' = frame
               /\ tp' = WriteAccessUnit(tp, n) /\ tp' \in TpState
               /\ n \in Nat /\ from \in Nat /\ front \in Nat
               /\ tp'.block = IF cfg.fmt = "raw" /\ tp.block >= cfg.nSubFrames
                              THEN 0 ELSE tp.block
               /\ tp'.start = IF cfg.fmt = "dab" THEN from + front ELSE from
               /\ tp'.valid = from + front + PceBits(tp)
               /\ tp'.length = IF cfg.fmt = "adts" /\ tp.block = 0
                               THEN AdtsLength(n + PceBits(tp) + AdtsHeaderBits(tp))
                               ELSE tp.length
               /\ tp'.units = (IF from = 0 THEN << >> ELSE tp.units)
                              \o <<[from |-> from + front, to |-> 0]>>
               /\ tp'.markers = IF from = 0 THEN << >> ELSE tp.markers
               /\ tp'.fillBits = tp.fillBits /\ tp'.latmFrame = tp.latmFrame
  <1>1. /\ cfg \in Configurations /\ tp \in TpState /\ frame.total \in Nat
        /\ pc = "header" /\ pc' = "payload" /\ cfg' = cfg /\ frame' = frame
        /\ tp' = WriteAccessUnit(tp, frame.total)
    BY DEF TypeInv, TypeOK, FrameState, WriteHeader
  <1> QED
    BY <1>1, WriteFields

LEMMA UnitFields ==
    ASSUME TypeInv, EndUnit
    PROVE  LET end == IF cfg.fmt = "dab" THEN DabUnitEnd(tp) ELSE tp.valid
               crc == IF cfg.fmt = "dab" \/ (cfg.fmt = "adts" /\ cfg.crc /\ cfg.nSubFrames > 1)
                      THEN 16 ELSE 0
               k   == Len(tp.units)
           IN  /\ pc = "end" /\ cfg' = cfg /\ frame' = frame
               /\ \/ pc' = "handout" /\ error' = error
                  \/ /\ pc' = "failed" /\ error' = "written_bits"
                     /\ AccessUnitBits(tp) # frame.total + frame.hdr
               /\ end \in Nat /\ crc \in {0, 16} /\ k \in Nat \ {0}
               /\ tp' \in TpState
               /\ tp'.valid = end + crc
               /\ tp'.units # << >> /\ Len(tp'.units) = k
               /\ \A i \in 1 .. k - 1 : tp'.units[i] = tp.units[i]
               /\ tp'.units[k].from = tp.units[k].from /\ tp'.units[k].to = end + crc
               /\ tp'.markers = IF cfg.fmt = "dab" THEN DabMarkers(tp) ELSE tp.markers
               /\ tp'.length = IF cfg.fmt = "adts" /\ cfg.nSubFrames > 1 /\ LastBlock(tp)
                               THEN AdtsLength(end + crc) ELSE tp.length
               /\ tp'.block = IF cfg.fmt \in {"adts", "dab"} THEN tp.block + 1 ELSE tp.block
               /\ tp'.start = tp.start /\ tp'.fillBits = tp.fillBits
  <1>1. /\ cfg \in Configurations /\ tp \in TpState /\ tp.units # << >>
        /\ pc = "end" /\ cfg' = cfg /\ frame' = frame
        /\ tp' = EndAccessUnit(tp)
    BY DEF TypeInv, TypeOK, UnitOpen, EndUnit
  <1>2. \/ pc' = "handout" /\ error' = error
        \/ /\ pc' = "failed" /\ error' = "written_bits"
           /\ AccessUnitBits(tp) # frame.total + frame.hdr
    BY DEF EndUnit, Fail
  <1> QED
    BY <1>1, <1>2, EndFields

LEMMA OutFields ==
    ASSUME TypeInv, HandOut
    PROVE  /\ pc = "handout" /\ cfg' = cfg
           /\ \/ pc' = "frame" /\ error' = error
              \/ pc' = "failed" /\ error' = "au_length"
           /\ tp' \in TpState
           /\ tp'.units = tp.units /\ tp'.markers = tp.markers /\ tp'.fillBits = tp.fillBits
           /\ ~(IsLatm /\ tp.block + 1 >= cfg.nSubFrames) =>
                 tp'.valid = tp.valid /\ tp'.length = tp.length
           /\ IsLatm /\ tp.block + 1 >= cfg.nSubFrames =>
                 /\ tp'.block = 0 /\ tp'.valid = tp.valid + tp.fillBits
                 /\ cfg.fmt = "loas" => tp'.length = (tp.valid + 7) \div 8 - 3
           /\ IsLatm /\ ~(tp.block + 1 >= cfg.nSubFrames) => tp'.block = tp.block + 1
           /\ cfg.fmt = "raw" => tp'.block = tp.block + 1
           /\ cfg.fmt \in {"adts", "dab"} =>
                 tp'.block = IF tp.block >= cfg.nSubFrames THEN 0 ELSE tp.block
  <1>1. /\ cfg \in Configurations /\ tp \in TpState /\ pc = "handout" /\ cfg' = cfg
        /\ tp' = GetFrame(tp)
    BY DEF TypeInv, TypeOK, HandOut
  <1>2. \/ pc' = "frame" /\ error' = error
        \/ pc' = "failed" /\ error' = "au_length"
    BY DEF HandOut, Fail
  <1> QED
    BY <1>1, <1>2, GetFields

(* The steps before anything is written. *)
LEMMA BeforeFields ==
    ASSUME TypeInv, BeginFrame \/ CodingStep
    PROVE  /\ cfg' = cfg /\ pc \in {"frame"} \union Coding
           /\ pc' \in Coding \union {"header", "failed"}
           /\ error' # "written_bits" \/ error' = error
           /\ tp'.block = tp.block /\ tp'.valid = tp.valid /\ tp'.start = tp.start
           /\ tp'.length = tp.length /\ tp'.units = tp.units /\ tp'.markers = tp.markers
           /\ tp'.latmFrame = tp.latmFrame
  <1>1. CASE BeginFrame
    <2>1. BitResError(qc) \in {"none", "bitres_too_low", "bitres_too_high"}
      <3>1. qc.bitResTot \in Int /\ qc.bitResTotMax \in Int
        BY DEF TypeInv, TypeOK, QcState
      <3> QED
        BY <3>1 DEF BitResError
    <2> QED
      BY <1>1, <2>1, BeginFields DEF Coding, Estimated
  <1>2. CASE CodingStep
    BY <1>2, CodingSteps
  <1> QED
    BY <1>1, <1>2

LEMMA BlockStep ==
    ASSUME TypeInv, BlockInv, [Next]_vars
    PROVE  BlockInv'
  <1>1. /\ cfg \in Configurations /\ tp.block \in Nat /\ cfg.nSubFrames \in 1 .. 6
        /\ cfg.fmt = "raw" => ~IsLatm
        /\ cfg.fmt \in {"adts", "dab"} => ~IsLatm
    BY CfgFacts DEF TypeInv, TypeOK, TpState, IsLatm
  <1>2. CASE BeginFrame \/ CodingStep
    BY <1>1, <1>2, BeforeFields, SameConfig DEF BlockInv, Coding, Estimated
  <1>3. CASE WriteHeader
    BY <1>1, <1>3, HeaderFields, SameConfig DEF BlockInv
  <1>4. CASE WriteBitstream
    BY <1>1, <1>4, WrittenFields, SameConfig DEF BlockInv, WriteBitstream
  <1>5. CASE EndUnit
    BY <1>1, <1>5, UnitFields, SameConfig DEF BlockInv
  <1>6. CASE HandOut
    <2>1. /\ pc = "handout" /\ pc' \in {"frame", "failed"} /\ cfg' = cfg
          /\ IsLatm => tp'.block = IF tp.block + 1 >= cfg.nSubFrames THEN 0 ELSE tp.block + 1
          /\ cfg.fmt = "raw" => tp'.block = tp.block + 1
          /\ cfg.fmt \in {"adts", "dab"} =>
                tp'.block = IF tp.block >= cfg.nSubFrames THEN 0 ELSE tp.block
      BY <1>6, OutFields
    <2>2. IsLatm' <=> IsLatm
      BY <2>1, SameConfig
    <2>3. cfg.fmt = "raw" => tp'.block \in 0 .. cfg.nSubFrames
      BY <1>1, <2>1 DEF BlockInv
    <2>4. IsLatm => tp'.block \in 0 .. cfg.nSubFrames - 1
      BY <1>1, <2>1 DEF BlockInv
    <2>5. cfg.fmt \in {"adts", "dab"} => tp'.block \in 0 .. cfg.nSubFrames - 1
      BY <1>1, <2>1 DEF BlockInv
    <2> QED
      BY <2>1, <2>2, <2>3, <2>4, <2>5 DEF BlockInv
  <1>7. CASE UNCHANGED vars
    BY <1>7 DEF BlockInv, IsLatm, vars
  <1> QED
    BY <1>2, <1>3, <1>4, <1>5, <1>6, <1>7, StepCases


(* Writing takes whole bytes: what is counted behind the header.            *)
LEMMA WrittenBytes ==
    ASSUME TypeInv, BudgetInv, WriteBitstream
    PROVE  /\ frame.total \in Nat /\ frame.total % 8 = 0
           /\ cfg.fmt # "dab" => tp'.valid = tp.valid + frame.total
           /\ cfg.fmt = "dab" => /\ tp'.valid + 3 <= tp.valid + frame.total
                                 /\ tp.valid + frame.total <= tp'.valid + 3 + 7
  <1>1. /\ pc = "payload" /\ cfg \in Configurations /\ tp.valid \in Nat
        /\ frame.static \in Nat /\ frame.dyn \in Nat /\ frame.ext \in Nat
        /\ frame.fill \in Nat /\ frame.total \in Nat
    BY DEF TypeInv, TypeOK, WriteBitstream, TpState, FrameState
  <1>2. /\ frame.total = UsedBits(frame) + frame.fill + frame.align
        /\ frame.total % 8 = 0 /\ frame.align \in 0 .. 7
        /\ FillData(frame.fill) = frame.fill
    BY <1>1 DEF BudgetInv, TotalInv, Writing
  <1>3. UsedBits(frame) \in Nat
    BY <1>1 DEF UsedBits
  <1>4. tp'.valid = tp.valid + Written
    BY WrittenFields
  <1>5. CASE cfg.fmt # "dab"
    <2>1. Written = frame.total
      BY <1>2, <1>5 DEF Written
    <2> QED
      BY <1>1, <1>2, <1>4, <1>5, <2>1
  <1>6. CASE cfg.fmt = "dab"
    <2>1. Written + 3 + frame.align = frame.total
      BY <1>1, <1>2, <1>3, <1>6 DEF Written
    <2>2. Written \in Nat /\ frame.align \in Int
      BY <1>2, WrittenFields
    <2>3. tp'.valid \in Int /\ tp'.valid + 3 + frame.align = tp.valid + frame.total
      BY <1>1, <1>4, <2>1, <2>2
    <2> QED
      BY <1>1, <1>2, <1>6, <2>2, <2>3
  <1> QED
    BY <1>5, <1>6

LEMMA ByteStep ==
    ASSUME TypeInv, BudgetInv, BlockInv, ByteInv, [Next]_vars
    PROVE  ByteInv'
  <1>1. /\ cfg \in Configurations /\ tp \in TpState
        /\ tp.valid \in Nat /\ tp.block \in Nat /\ tp.fillBits \in Nat
        /\ cfg.fmt \in {"raw", "adts", "dab"} => ~IsLatm
    BY DEF TypeInv, TypeOK, TpState, IsLatm
  <1>2. CASE BeginFrame \/ CodingStep
    <2>1. /\ cfg' = cfg /\ pc \in {"frame"} \union Coding
          /\ pc' \in Coding \union {"header", "failed"}
          /\ tp'.block = tp.block /\ tp'.valid = tp.valid /\ tp'.latmFrame = tp.latmFrame
      BY <1>2, BeforeFields
    <2>2. (pc' # "failed" => (Begins' <=> Begins)) /\ (IsLatm' <=> IsLatm)
      BY <2>1, SameConfig DEF Begins, Coding, Estimated
    <2>3. cfg.fmt \in {"adts", "dab"} => tp'.valid % 8 = 0
      BY <2>1 DEF ByteInv, Coding, Estimated
    <2>4. CASE IsLatm /\ pc' # "failed"
      <3>1. tp'.fillBits = IF pc = "frame" THEN LatmFillBits(tp) ELSE tp.fillBits
        <4>1. CASE BeginFrame
          BY <2>4, <4>1, BeginFields
        <4>2. CASE CodingStep
          BY <4>2, CodingSteps DEF Coding, Estimated
        <4> QED
          BY <1>2, <4>1, <4>2
      <3>3. tp.block = 0 => LatmFillBits(tp') = LatmFillBits(tp)
        <4>1. LatmFixedBits(tp') = LatmFixedBits(tp)
          BY <2>1 DEF LatmFixedBits, SmcDue
        <4> QED
          BY <2>1, <4>1 DEF LatmFillBits
      <3>4. tp.block # 0 => LatmFillBits(tp) = tp.fillBits
        BY DEF LatmFillBits
      <3>5. LatmFillBits(tp) \in 0 .. 7
        <4>1. LatmFixedBits(tp) \in Nat
          BY <1>1, LatmFixedFacts
        <4>2. tp.block = 0 => LatmFillBits(tp) \in 0 .. 7
          BY <4>1 DEF LatmFillBits, AlignUp
        <4>3. tp.fillBits \in 0 .. 7
          BY <2>1, <2>4 DEF ByteInv, Coding, Estimated
        <4> QED
          BY <3>4, <4>2, <4>3
      <3>6. tp'.fillBits \in 0 .. 7
        BY <2>1, <2>4, <3>1, <3>5 DEF ByteInv, Coding, Estimated
      <3>7. ~Begins => (tp'.valid + tp'.fillBits) % 8 = 0
        BY <2>1, <2>4, <3>1, <3>4 DEF ByteInv, Begins, Coding, Estimated
      <3>8. Begins => tp'.fillBits = LatmFillBits(tp')
        BY <2>1, <2>4, <3>1, <3>3 DEF ByteInv, Begins, Coding, Estimated
      <3> QED
        BY <1>1, <2>1, <2>2, <2>3, <2>4, <3>6, <3>7, <3>8, SameFormat DEF ByteInv
    <2> QED
      BY <2>1, <2>2, <2>3, <2>4 DEF ByteInv
  <1>3. CASE WriteHeader
    <2> DEFINE pce == PceBits(tp)
               au == frame.total + pce
               front == FrontBits(tp, au)
               from == SubFrameStart(tp)
    <2>1. /\ pc = "header" /\ pc' = "payload" /\ cfg' = cfg
          /\ from \in Nat /\ front \in Nat
          /\ tp'.valid = from + front + pce /\ tp'.fillBits = tp.fillBits
      BY <1>3, HeaderFields
    <2>2. pce \in Nat /\ pce % 8 = 0
      BY <1>1, PceFacts
    <2>3. ASSUME cfg.fmt \in {"adts", "dab"}
          PROVE  tp'.valid % 8 = 0
      <3>1. front % 8 = 0
        <4>1. au \in Nat
          BY <2>2 DEF TypeInv, TypeOK, FrameState
        <4> QED
          BY <1>1, <2>3, <4>1, FrontFacts
      <3>2. from % 8 = 0
        <4>1. from \in {0, tp.valid}
          BY <1>1, SubFrameStartFacts
        <4>2. tp.valid % 8 = 0
          BY <2>1, <2>3 DEF ByteInv
        <4> QED
          BY <4>1, <4>2
      <3> HIDE DEF pce, front, from
      <3> QED
        BY <2>1, <2>2, <3>1, <3>2
    <2>4. ASSUME IsLatm
          PROVE  tp'.fillBits \in 0 .. 7 /\ (tp'.valid + tp'.fillBits) % 8 = 0
      <3> DEFINE fixed == LatmFixedBits(tp)
                 len == IF au % 8 = 0 THEN LatmLengthBits(au) ELSE 0
      <3>1. tp.fillBits \in 0 .. 7
        BY <2>1, <2>4 DEF ByteInv
      <3>2. front = fixed + len
        BY <2>4, FrontOfFormat
      <3>3. len \in Int /\ len % 8 = 0
        <4>1. au \in Nat
          BY <2>2 DEF TypeInv, TypeOK, FrameState
        <4> HIDE DEF au
        <4> QED
          BY <4>1 DEF LatmLengthBits
      <3>4. fixed \in Nat
        BY <1>1, LatmFixedFacts
      <3> HIDE DEF pce, front, len
      <3>5. CASE tp.block = 0
        <4>1. tp.fillBits = AlignUp(fixed) - fixed
          BY <2>1, <2>4, <3>5 DEF ByteInv, Begins, LatmFillBits
        <4>2. from = 0
          BY <3>5 DEF SubFrameStart
        <4>3. AlignUp(fixed) \in Int /\ AlignUp(fixed) % 8 = 0
          BY <3>4 DEF AlignUp
        <4>4. tp'.valid + tp'.fillBits = AlignUp(fixed) + len + pce
          <5> DEFINE all == AlignUp(fixed)
          <5>1. /\ all \in Int /\ tp'.fillBits = all - fixed
                /\ tp'.valid = 0 + front + pce
            BY <2>1, <4>1, <4>2, <4>3
          <5> HIDE DEF all, fixed, from
          <5>2. tp'.valid + tp'.fillBits = all + len + pce
            BY <2>2, <3>2, <3>3, <3>4, <5>1
          <5> QED
            BY <5>2 DEF all
        <4>5. (AlignUp(fixed) + len) % 8 = 0
          BY <3>3, <4>3, ByteFacts
        <4> DEFINE up == AlignUp(fixed) + len
        <4>6. up \in Int /\ up % 8 = 0 /\ pce \in Int
          BY <2>2, <3>3, <4>3, <4>5
        <4> HIDE DEF up
        <4>7. (up + pce) % 8 = 0
          BY <2>2, <4>6, ByteFacts
        <4> QED
          BY <2>1, <3>1, <4>4, <4>7 DEF up
      <3>6. CASE tp.block # 0
        <4>1. fixed = 0
          BY <3>6 DEF LatmFixedBits
        <4>2. from = tp.valid
          BY <1>1, <2>4, <3>6 DEF SubFrameStart, IsLatm
        <4>3. (tp.valid + tp.fillBits) % 8 = 0
          BY <2>1, <2>4, <3>6 DEF ByteInv, Begins
        <4> DEFINE x == tp.valid + tp.fillBits
                   y == x + len
        <4>4. x \in Int /\ x % 8 = 0 /\ pce \in Int
          BY <1>1, <2>2, <4>3
        <4> HIDE DEF fixed, from, x
        <4>5. y \in Int /\ y % 8 = 0
          BY <3>3, <4>4, ByteFacts
        <4>6. tp'.valid + tp'.fillBits = y + pce
          BY <1>1, <2>1, <2>2, <3>2, <3>3, <4>1, <4>2 DEF x
        <4> HIDE DEF y
        <4>7. (y + pce) % 8 = 0
          BY <2>2, <4>4, <4>5, ByteFacts
        <4> QED
          BY <2>1, <3>1, <4>6, <4>7
      <3> QED
        BY <3>5, <3>6
    <2>5. ~Begins' /\ (IsLatm' <=> IsLatm)
      BY <2>1, SameConfig DEF Begins, Coding, Estimated
    <2> QED
      BY <1>1, <2>1, <2>3, <2>4, <2>5 DEF ByteInv
  <1>4. CASE WriteBitstream
    <2>1. /\ pc = "payload" /\ pc' = "end" /\ cfg' = cfg /\ tp'.fillBits = tp.fillBits
      BY <1>4, WrittenFields DEF WriteBitstream
    <2>2. /\ frame.total \in Nat /\ frame.total % 8 = 0
          /\ cfg.fmt # "dab" => tp'.valid = tp.valid + frame.total
      BY <1>4, WrittenBytes
    <2>3. ~Begins' /\ ~Begins /\ (IsLatm' <=> IsLatm)
      BY <2>1, SameConfig DEF Begins, Coding, Estimated
    <2>4. cfg.fmt = "adts" => tp'.valid % 8 = 0
      BY <1>1, <2>1, <2>2 DEF ByteInv
    <2>5. IsLatm => tp'.fillBits \in 0 .. 7 /\ (tp'.valid + tp'.fillBits) % 8 = 0
      <3> SUFFICES ASSUME IsLatm
                   PROVE  tp'.fillBits \in 0 .. 7 /\ (tp'.valid + tp'.fillBits) % 8 = 0
        OBVIOUS
      <3> DEFINE x == tp.valid + tp.fillBits
                 n == frame.total
      <3>1. x % 8 = 0 /\ tp.fillBits \in 0 .. 7 /\ x \in Int
        BY <1>1, <2>1, <2>3 DEF ByteInv
      <3>2. n \in Int /\ n % 8 = 0 /\ tp'.valid + tp'.fillBits = x + n
        BY <1>1, <2>1, <2>2
      <3> HIDE DEF x, n
      <3> QED
        BY <2>1, <3>1, <3>2, ByteFacts
    <2> QED
      BY <1>1, <2>1, <2>3, <2>4, <2>5 DEF ByteInv
  <1>5. CASE EndUnit
    <2> DEFINE end == IF cfg.fmt = "dab" THEN DabUnitEnd(tp) ELSE tp.valid
               crc == IF cfg.fmt = "dab" \/ (cfg.fmt = "adts" /\ cfg.crc /\ cfg.nSubFrames > 1)
                      THEN 16 ELSE 0
    <2>1. /\ pc = "end" /\ pc' \in {"handout", "failed"} /\ cfg' = cfg
          /\ tp'.fillBits = tp.fillBits /\ end \in Nat /\ crc \in {0, 16}
          /\ tp'.valid = end + crc
      BY <1>5, UnitFields
    <2>2. ~Begins' /\ ~Begins /\ (IsLatm' <=> IsLatm)
      BY <2>1, SameConfig DEF Begins, Coding, Estimated
    <2>3. cfg.fmt \in {"adts", "dab"} => end % 8 = 0
      BY <1>1, <2>1, DabUnitEndFacts DEF ByteInv
    <2>4. IsLatm => end = tp.valid /\ crc = 0
      BY DEF IsLatm
    <2>5. IsLatm => tp.fillBits \in 0 .. 7 /\ (tp.valid + tp.fillBits) % 8 = 0
      BY <2>1, <2>2 DEF ByteInv
    <2> HIDE DEF end, crc
    <2>6. cfg.fmt \in {"adts", "dab"} => tp'.valid % 8 = 0
      BY <2>1, <2>3
    <2> QED
      BY <1>1, <2>1, <2>2, <2>4, <2>5, <2>6 DEF ByteInv
  <1>6. CASE HandOut
    <2>1. /\ pc = "handout" /\ pc' \in {"frame", "failed"} /\ cfg' = cfg
          /\ tp'.fillBits = tp.fillBits
          /\ ~IsLatm => tp'.valid = tp.valid
          /\ IsLatm /\ tp.block + 1 >= cfg.nSubFrames => tp'.block = 0
          /\ IsLatm /\ ~(tp.block + 1 >= cfg.nSubFrames) =>
                tp'.block = tp.block + 1 /\ tp'.valid = tp.valid
      BY <1>6, OutFields
    <2>2. ~Begins /\ (IsLatm' <=> IsLatm)
      BY <2>1, SameConfig DEF Begins, Coding, Estimated
    <2>3. IsLatm /\ pc' # "failed" =>
             /\ tp'.fillBits \in 0 .. 7
             /\ ~Begins' => (tp'.valid + tp'.fillBits) % 8 = 0
      <3> SUFFICES ASSUME IsLatm, pc' # "failed"
                   PROVE  /\ tp'.fillBits \in 0 .. 7
                          /\ ~Begins' => (tp'.valid + tp'.fillBits) % 8 = 0
        OBVIOUS
      <3>1. tp.fillBits \in 0 .. 7 /\ (tp.valid + tp.fillBits) % 8 = 0
        BY <2>1, <2>2 DEF ByteInv
      <3>2. ~Begins' => tp'.block # 0
        BY <2>1 DEF Begins
      <3> QED
        BY <2>1, <3>1, <3>2
    <2>4. cfg.fmt \in {"adts", "dab"} => tp'.valid % 8 = 0
      BY <1>1, <2>1 DEF ByteInv
    <2> QED
      BY <1>1, <2>1, <2>2, <2>3, <2>4 DEF ByteInv
  <1>7. CASE UNCHANGED vars
    BY <1>7, SameFormat, SameConfig DEF ByteInv, Begins, vars
  <1> QED
    BY <1>2, <1>3, <1>4, <1>5, <1>6, <1>7, StepCases


(* The payload adds the bits that were counted: what is left of the header *)
(* is closed after it.  DAB+ writes ID_END and the alignment then, too.    *)
LEMMA PayloadUnit ==
    ASSUME TypeInv, BudgetInv, ByteInv, WriteBitstream
    PROVE  AccessUnitBits(tp') = tp.valid - tp.start + Closing(tp) + frame.total
  <1>1. /\ pc = "payload" /\ cfg \in Configurations /\ tp \in TpState /\ tp' \in TpState
        /\ tp.valid \in Nat /\ tp.start \in Nat /\ tp'.valid \in Nat
        /\ tp.fillBits \in Nat
        /\ tp'.block = tp.block /\ tp'.start = tp.start /\ tp'.fillBits = tp.fillBits
    BY WrittenFields DEF TypeInv, TypeOK, WriteBitstream, TpState
  <1>2. /\ frame.total \in Nat /\ frame.total % 8 = 0
        /\ cfg.fmt # "dab" => tp'.valid = tp.valid + frame.total
        /\ cfg.fmt = "dab" => /\ tp'.valid + 3 <= tp.valid + frame.total
                              /\ tp.valid + frame.total <= tp'.valid + 3 + 7
    BY WrittenBytes
  <1>3. CASE cfg.fmt = "dab"
    <2> DEFINE closed == AlignUp(tp'.valid + 3)
    <2>1. tp.valid % 8 = 0
      BY <1>1, <1>3 DEF ByteInv
    <2>2. closed = tp.valid + frame.total
      <3> DEFINE x == tp.valid
                 n == frame.total
                 v == tp'.valid
      <3>1. /\ x \in Nat /\ n \in Nat /\ v \in Nat /\ x % 8 = 0 /\ n % 8 = 0
            /\ v + 3 <= x + n /\ x + n <= v + 3 + 7
        BY <1>1, <1>2, <1>3, <2>1
      <3> HIDE DEF x, n, v
      <3>2. AlignUp(v + 3) = x + n
        BY <3>1 DEF AlignUp
      <3> QED
        BY <3>2 DEF x, n, v
    <2> HIDE DEF closed
    <2>3. AccessUnitBits(tp') = tp'.valid - tp'.start + DabUnitBits(tp')
      BY <1>3, UnitOfFormat
    <2>4. DabHeaderBits(tp') = DabHeaderBits(tp) /\ DabHeaderBits(tp) \in Nat
      BY <1>1, <1>3, DabFacts DEF DabHeaderBits
    <2>5. DabUnitBits(tp') = Closing(tp) + 3 + (closed - (tp'.valid + 3))
      BY <1>1, <1>3, <2>4 DEF DabUnitBits, Closing, closed
    <2>6. Closing(tp) \in Nat
      BY <1>3, <2>4 DEF Closing
    <2> QED
      BY <1>1, <1>2, <2>2, <2>3, <2>5, <2>6
  <1>4. CASE cfg.fmt = "adts"
    <2> DEFINE crc == IF cfg.crc /\ cfg.nSubFrames > 1 THEN 16 ELSE 0
    <2>1. AccessUnitBits(tp') = tp'.valid - tp'.start + crc /\ Closing(tp) = crc /\ crc \in Nat
      BY <1>4, UnitOfFormat DEF Closing
    <2> HIDE DEF crc
    <2> QED
      BY <1>1, <1>2, <1>4, <2>1
  <1>5. CASE IsLatm
    <2> DEFINE fill == IF tp.block = 0 THEN tp.fillBits ELSE 0
    <2>1. AccessUnitBits(tp') = tp'.valid - tp'.start + fill
      BY <1>1, <1>5, UnitOfFormat
    <2>2. Closing(tp) = fill /\ fill \in Nat
      BY <1>1, <1>5 DEF Closing, IsLatm
    <2>3. tp'.valid = tp.valid + frame.total
      BY <1>2, <1>5 DEF IsLatm
    <2> HIDE DEF fill
    <2> QED
      BY <1>1, <1>2, <2>1, <2>2, <2>3
  <1>6. CASE cfg.fmt = "raw"
    <2>1. AccessUnitBits(tp') = tp'.valid - tp'.start + 0
      BY <1>6, UnitOfFormat
    <2>2. Closing(tp) = 0
      BY <1>6 DEF Closing, IsLatm
    <2> QED
      BY <1>1, <1>2, <1>6, <2>1, <2>2
  <1> QED
    BY <1>1, <1>3, <1>4, <1>5, <1>6, CfgFacts DEF Formats, IsLatm

LEMMA CountedStep ==
    ASSUME TypeInv, BudgetInv, ByteInv, CountedInv, [Next]_vars
    PROVE  CountedInv'
  <1>1. CASE BeginFrame \/ CodingStep
    BY <1>1, BeforeFields DEF CountedInv, Coding, Estimated
  <1>2. CASE WriteHeader
    <2>1. /\ pc = "header" /\ pc' = "payload" /\ cfg' = cfg /\ frame' = frame
          /\ tp' = WriteAccessUnit(tp, frame.total)
      BY <1>2, HeaderFields
    <2>2. /\ cfg \in Configurations /\ tp \in TpState /\ tp.block \in Nat
          /\ frame.static \in Nat /\ frame.dyn \in Nat /\ frame.ext \in Nat
          /\ frame.fill \in Nat /\ frame.static > 0
      <3>1. /\ frame.static \in Nat /\ frame.least \in Nat /\ frame.dyn \in Nat
            /\ frame.ext \in Nat /\ frame.fill \in Nat
        BY DEF TypeInv, TypeOK, FrameState
      <3>2. frame.least \in 1 .. frame.static
        BY <2>1 DEF TypeInv, FrameOK, Writing
      <3>3. cfg \in Configurations /\ tp \in TpState /\ tp.block \in Nat
        BY DEF TypeInv, TypeOK, TpState
      <3> QED
        BY <3>1, <3>2, <3>3
    <2>3. frame.total \in Nat /\ frame.total > 0 /\ frame.total % 8 = 0
      <3>1. /\ frame.total = UsedBits(frame) + frame.fill + frame.align
            /\ frame.total % 8 = 0 /\ frame.align \in 0 .. 7
        BY <2>1 DEF BudgetInv, TotalInv, Writing
      <3> QED
        BY <2>2, <3>1 DEF UsedBits
    <2>4. IsLatm => tp.fillBits = LatmFillBits(tp) \/ tp.block # 0
      BY <2>1 DEF ByteInv, Begins
    <2>5. tp'.valid - tp'.start + Closing(tp') = StaticBits(tp, frame.total)
      BY <2>1, <2>2, <2>3, <2>4, FrontAndClosing
    <2>6. ~(cfg.unlock /\ IsLatm) => frame.hdr = StaticBits(tp, frame.total)
      BY <2>1 DEF BudgetInv, HeaderInv
    <2> QED
      BY <2>1, <2>5, <2>6, SameConfig, SameUnit DEF CountedInv
  <1>3. CASE WriteBitstream
    <2>1. pc = "payload" /\ pc' = "end" /\ cfg' = cfg /\ frame' = frame
      BY <1>3 DEF WriteBitstream
    <2>2. AccessUnitBits(tp') = tp.valid - tp.start + Closing(tp) + frame.total
      BY <1>3, PayloadUnit
    <2>3. ~(cfg.unlock /\ IsLatm) => tp.valid - tp.start + Closing(tp) = frame.hdr
      BY <2>1 DEF CountedInv
    <2>4. frame.hdr \in Nat /\ frame.total \in Nat
      BY DEF TypeInv, TypeOK, FrameState
    <2>5. ~(cfg.unlock /\ IsLatm) => AccessUnitBits(tp') = frame.total + frame.hdr
      BY <2>2, <2>3, <2>4
    <2> QED
      BY <2>1, <2>5, SameConfig, SameUnit DEF CountedInv
  <1>4. CASE EndUnit \/ HandOut
    <2>1. pc' \notin {"payload", "end"}
      BY <1>4, UnitFields, OutFields
    <2> QED
      BY <2>1 DEF CountedInv
  <1>5. CASE UNCHANGED vars
    <2>1. cfg' = cfg /\ tp' = tp /\ frame' = frame /\ pc' = pc
      BY <1>5 DEF vars
    <2> QED
      BY <2>1, SameConfig, SameUnit DEF CountedInv
  <1> QED
    BY <1>1, <1>2, <1>3, <1>4, <1>5, StepCases

(* No access unit is larger than the buffer of a decoder. *)
LEMMA MaxBitsFit ==
    ASSUME cfg \in Configurations
    PROVE  MaxBits \in Nat /\ MaxBits <= BufferSize
  <1>1. /\ BufferSize \in Nat /\ AverageBits \in Nat /\ AverageBits <= BufferSize
        /\ BitRes \in Nat /\ AverageBitsPerFrame \in Nat /\ MaxBits \in Nat
    BY ReservoirFacts
  <1>2. AlignDown(AverageBitsPerFrame + 15) \in Int
    BY <1>1 DEF AlignDown
  <1> QED
    BY <1>1, <1>2, CfgFacts DEF MaxBits, Least, Most

LEMMA HeaderTotal ==
    ASSUME TypeInv, BeginFrame \/ CodingStep, pc' = "header"
    PROVE  frame'.total <= BufferSize'
  <1>1. Align
    BY DEF CodingStep, BeginFrame, QuantizeOutOfRange, Quantize, Reduce, ReduceNothing, FillUp,
           SettleHeader, Fail
  <1>2. /\ cfg \in Configurations /\ cfg' = cfg /\ frame \in FrameState
        /\ qc.maxBitsPerFrame = MaxBits /\ frame' = Aligned(frame)
        /\ ~(frame'.total > qc.maxBitsPerFrame)
    BY <1>1 DEF Align, Fail, TypeInv, TypeOK, QcFixed
  <1>3. frame'.total \in Nat
    BY <1>2, AlignedFields DEF FrameState
  <1>4. BufferSize \in Nat
    BY <1>2, ReservoirFacts
  <1> QED
    BY <1>2, <1>3, <1>4, MaxBitsFit, SameConfig

(* The length of a frame of one block is written with its header; that of  *)
(* several blocks when the last is closed; that of LATM when it is handed   *)
(* out.                                                                    *)
LEMMA LengthStep ==
    ASSUME TypeInv, BudgetInv, BlockInv, ByteInv, LengthInv, [Next]_vars
    PROVE  LengthInv'
  <1> DEFINE single == cfg.fmt = "adts" /\ cfg.nSubFrames = 1
  <1>1. /\ cfg \in Configurations /\ tp \in TpState /\ cfg.nSubFrames \in 1 .. 6
        /\ tp.valid \in Nat /\ tp.block \in Nat /\ tp.length \in Int /\ tp.fillBits \in Nat
    BY CfgFacts DEF TypeInv, TypeOK, TpState
  <1>2. CASE BeginFrame \/ CodingStep
    <2>1. pc' = "header" => frame'.total <= BufferSize'
      BY <1>2, HeaderTotal
    <2> QED
      BY <1>2, <2>1, BeforeFields
      DEF LengthInv, FrameLengthFields, AdtsLengthFits, Coding, Estimated
  <1>3. CASE WriteHeader
    <2> DEFINE pce == PceBits(tp)
               au == frame.total + pce
               front == FrontBits(tp, au)
               size == au + AdtsHeaderBits(tp)
    <2>1. /\ pc = "header" /\ pc' = "payload" /\ cfg' = cfg /\ frame' = frame
          /\ front \in Nat /\ frame.total \in Nat
          /\ tp'.valid = SubFrameStart(tp) + front + pce
          /\ tp'.length = IF cfg.fmt = "adts" /\ tp.block = 0
                          THEN AdtsLength(size) ELSE tp.length
      BY <1>3, HeaderFields
    <2>2. single => tp'.length * 8 = tp'.valid + frame.total
      <3> SUFFICES ASSUME single PROVE tp'.length * 8 = tp'.valid + frame.total
        OBVIOUS
      <3>1. tp.block = 0
        BY <1>1, <2>1 DEF BlockInv
      <3>2. SubFrameStart(tp) = 0
        BY <3>1 DEF SubFrameStart
      <3>3. AdtsHeaderBits(tp) = front + 0
        <4>1. front = 56 + (IF cfg.crc THEN 16 + 16 * (cfg.nSubFrames - 1) ELSE 0)
          BY <3>1, FrontOfFormat
        <4>2. AdtsHeaderBits(tp)
                  = (56 + (IF cfg.crc THEN 16 + 16 * (cfg.nSubFrames - 1) ELSE 0)) + 0
          <5>1. ~(cfg.crc /\ cfg.nSubFrames > 1)
            OBVIOUS
          <5> QED
            BY <3>1, <5>1, Zenon DEF AdtsHeaderBits
        <4> QED
          BY <4>1, <4>2
      <3>4. /\ pce \in Nat /\ pce % 8 = 0
            /\ AdtsHeaderBits(tp) \in Nat /\ AdtsHeaderBits(tp) % 8 = 0
        BY <1>1, PceFacts, AdtsFacts
      <3>5. frame.total % 8 = 0
        BY <2>1 DEF BudgetInv, TotalInv, Writing
      <3>6. tp'.length = AdtsLength(size)
        BY <2>1, <3>1
      <3>7. size \in Nat /\ size % 8 = 0 /\ size = tp'.valid + frame.total
        <4> DEFINE n == frame.total
                   head == AdtsHeaderBits(tp)
        <4>a. /\ n \in Nat /\ pce \in Nat /\ head \in Nat /\ front \in Nat
              /\ n % 8 = 0 /\ pce % 8 = 0 /\ head % 8 = 0
          BY <2>1, <3>4, <3>5
        <4>b. size = n + pce + head
          OBVIOUS
        <4>c. tp'.valid = 0 + front + pce
          BY <2>1, <3>2
        <4>d. head = front + 0
          BY <3>3
        <4> HIDE DEF n, pce, head, front, size
        <4>1. /\ n \in Int /\ pce \in Int /\ head \in Int /\ head = front /\ front \in Int
              /\ size = n + pce + head /\ tp'.valid = 0 + front + pce /\ n \in Nat
              /\ n % 8 = 0 /\ pce % 8 = 0 /\ head % 8 = 0
          BY <4>a, <4>b, <4>c, <4>d
        <4>2. (n + pce) % 8 = 0 /\ n + pce \in Int
          BY <4>1, ByteFacts
        <4>3. (n + pce + head) % 8 = 0
          <5> DEFINE both == n + pce
          <5>1. both \in Int /\ both % 8 = 0
            BY <4>2
          <5> HIDE DEF both
          <5>2. (both + head) % 8 = 0
            BY <4>1, <5>1, ByteFacts
          <5> QED
            BY <5>2 DEF both
        <4>4. size = tp'.valid + n
          BY <4>1
        <4>5. size \in Nat
          BY <4>a, <4>b
        <4> QED
          BY <4>1, <4>3, <4>4, <4>5 DEF n
      <3>8. size < 65536
        <4>1. frame.total <= BufferSize /\ BufferSize \in Nat /\ BufferSize <= 49152
          BY <1>1, <2>1, ReservoirFacts DEF LengthInv
        <4>2. pce <= 96
          BY <1>1, CfgFacts, PceFacts
        <4>3. AdtsHeaderBits(tp) <= 72
          BY <3>1, <3>3, FrontOfFormat
        <4> DEFINE head == AdtsHeaderBits(tp)
        <4>4. head \in Nat /\ head <= 72 /\ pce \in Nat /\ size = frame.total + pce + head
          BY <3>4, <4>3
        <4> HIDE DEF head, pce, size
        <4> QED
          BY <2>1, <4>1, <4>2, <4>4
      <3> HIDE DEF size
      <3> QED
        BY <3>6, <3>7, <3>8, AdtsLengthFacts
    <2> QED
      BY <2>1, <2>2 DEF LengthInv, FrameLengthFields
  <1>4. CASE WriteBitstream
    <2>1. /\ pc = "payload" /\ pc' = "end" /\ cfg' = cfg /\ frame' = frame
          /\ tp'.length = tp.length
      BY <1>4, WrittenFields DEF WriteBitstream
    <2>2. cfg.fmt # "dab" => tp'.valid = tp.valid + frame.total
      BY <1>4, WrittenBytes
    <2> QED
      BY <2>1, <2>2 DEF LengthInv, FrameLengthFields
  <1>5. CASE EndUnit
    <2> DEFINE crc == IF cfg.crc /\ cfg.nSubFrames > 1 THEN 16 ELSE 0
    <2>1. /\ pc = "end" /\ pc' \in {"handout", "failed"} /\ cfg' = cfg
          /\ cfg.fmt = "adts" =>
                /\ tp'.valid = tp.valid + crc
                /\ tp'.length = IF cfg.nSubFrames > 1 /\ LastBlock(tp)
                                THEN AdtsLength(tp.valid + crc) ELSE tp.length
                /\ tp'.block = tp.block + 1
      BY <1>5, UnitFields
    <2>2. single => tp'.length * 8 = tp'.valid
      <3>1. single => crc = 0 /\ ~(cfg.nSubFrames > 1)
        OBVIOUS
      <3>2. single => tp.length * 8 = tp.valid
        BY <2>1 DEF LengthInv
      <3> HIDE DEF crc
      <3> QED
        BY <1>1, <2>1, <3>1, <3>2
    <2>3. cfg.fmt = "adts" /\ AdtsLengthFits' /\ tp'.block = cfg.nSubFrames =>
              tp'.length * 8 = tp'.valid
      <3> SUFFICES ASSUME cfg.fmt = "adts", tp'.block = cfg.nSubFrames, cfg.nSubFrames > 1,
                          tp'.valid < 8 * 8192
                   PROVE  tp'.length * 8 = tp'.valid
        BY <1>1, <2>1, <2>2 DEF AdtsLengthFits
      <3>1. LastBlock(tp)
        BY <1>1, <2>1 DEF LastBlock
      <3>2. tp.valid % 8 = 0 /\ crc \in {0, 16}
        BY <2>1 DEF ByteInv
      <3>3. tp'.valid = tp.valid + crc /\ tp'.length = AdtsLength(tp.valid + crc)
        BY <2>1, <3>1
      <3> DEFINE v == tp.valid
      <3>4. v \in Nat /\ v % 8 = 0
        BY <1>1, <3>2
      <3> HIDE DEF crc, v
      <3>5. v + crc \in Nat /\ (v + crc) % 8 = 0
        BY <3>2, <3>4
      <3>6. v + crc < 65536
        BY <3>3 DEF v
      <3>7. AdtsLength(v + crc) * 8 = v + crc
        BY <3>5, <3>6, AdtsLengthFacts
      <3> QED
        BY <3>3, <3>7 DEF v
    <2> QED
      BY <2>1, <2>2, <2>3 DEF LengthInv, FrameLengthFields
  <1>6. CASE HandOut
    <2>1. /\ pc = "handout" /\ pc' \in {"frame", "failed"} /\ cfg' = cfg
          /\ ~IsLatm => tp'.valid = tp.valid /\ tp'.length = tp.length
          /\ cfg.fmt \in {"adts", "dab"} =>
                tp'.block = IF tp.block >= cfg.nSubFrames THEN 0 ELSE tp.block
          /\ IsLatm /\ tp.block + 1 >= cfg.nSubFrames =>
                /\ tp'.valid = tp.valid + tp.fillBits
                /\ cfg.fmt = "loas" => tp'.length = (tp.valid + 7) \div 8 - 3
          /\ IsLatm /\ ~(tp.block + 1 >= cfg.nSubFrames) => tp'.block = tp.block + 1
      BY <1>6, OutFields
    <2>2. ASSUME cfg.fmt = "adts", tp'.block = 0, AdtsLengthFits'
          PROVE  tp'.length * 8 = tp'.valid
      <3>1. ~IsLatm
        BY <2>2 DEF IsLatm
      <3>2. tp.block \in 1 .. cfg.nSubFrames
        BY <2>1, <2>2 DEF BlockInv
      <3>3. tp.block = cfg.nSubFrames
        BY <1>1, <2>1, <2>2, <3>2
      <3> QED
        BY <2>1, <2>2, <3>1, <3>3 DEF LengthInv, AdtsLengthFits
    <2>3. ASSUME cfg.fmt = "loas", tp'.block = 0
          PROVE  (tp'.length + 3) * 8 = tp'.valid
      <3>1. IsLatm
        BY <2>3 DEF IsLatm
      <3>2. tp.block + 1 >= cfg.nSubFrames
        BY <1>1, <2>1, <2>3, <3>1
      <3>3. tp.fillBits \in 0 .. 7 /\ (tp.valid + tp.fillBits) % 8 = 0
        BY <2>1, <3>1 DEF ByteInv, Begins, Coding, Estimated
      <3>4. tp'.valid = tp.valid + tp.fillBits /\ tp'.length = (tp.valid + 7) \div 8 - 3
        BY <2>1, <2>3, <3>1, <3>2
      <3> DEFINE v == tp.valid
                 f == tp.fillBits
      <3>5. v \in Nat /\ f \in 0 .. 7 /\ (v + f) % 8 = 0
        BY <1>1, <3>3
      <3> HIDE DEF v, f
      <3>6. ((v + 7) \div 8) * 8 = v + f /\ (v + 7) \div 8 \in Int
        BY <3>5
      <3> QED
        BY <3>4, <3>6 DEF v, f
    <2> QED
      BY <2>1, <2>2, <2>3 DEF LengthInv, FrameLengthFields
  <1>7. CASE UNCHANGED vars
    BY <1>7, SameConfig DEF LengthInv, FrameLengthFields, AdtsLengthFits, vars
  <1> QED
    BY <1>2, <1>3, <1>4, <1>5, <1>6, <1>7, StepCases

LEMMA InitWritten ==
    ASSUME Init
    PROVE  WrittenInv
  <1>1. /\ pc = "frame" /\ tp = TpInit /\ cfg \in Configurations
        /\ cfg.nSubFrames \in 1 .. 6
    BY CfgFacts DEF Init
  <1>2. BlockInv /\ ByteInv
    BY <1>1 DEF TpInit, BlockInv, ByteInv, Begins
  <1>3. CountedInv /\ LengthInv
    BY <1>1 DEF TpInit, CountedInv, LengthInv, FrameLengthFields
  <1> QED
    BY <1>2, <1>3 DEF WrittenInv

AccountInv == TypeInv /\ ConfigInv /\ BudgetInv /\ WrittenInv

LEMMA AccountInvariant == Spec => []AccountInv
  <1>1. Init => AccountInv
    BY InitTypes, InitConfig, InitBudget, InitWritten DEF AccountInv
  <1>2. AccountInv /\ [Next]_vars => AccountInv'
    BY TypeStep, ConfigStep, BudgetStep, BlockStep, ByteStep, CountedStep, LengthStep
    DEF AccountInv, WrittenInv
  <1> QED
    BY <1>1, <1>2, PTL DEF Spec

(* The length a decoder finds its way by is the length of the frame.        *)
THEOREM FrameLengthFieldsAlways == Spec => []FrameLengthFields
  <1>1. AccountInv => FrameLengthFields
    BY DEF AccountInv, WrittenInv, LengthInv
  <1> QED
    BY <1>1, AccountInvariant, PTL

LEMMA WrittenBitsStep ==
    ASSUME AccountInv, WrittenBitsAgree, [Next]_vars
    PROVE  WrittenBitsAgree'
  <1> USE DEF AccountInv
  <1>1. CASE BeginFrame \/ CodingStep
    BY <1>1, BeforeFields, SameConfig DEF WrittenBitsAgree
  <1>2. CASE WriteHeader \/ WriteBitstream
    <2>1. cfg' = cfg /\ error' = error
      BY <1>2 DEF WriteHeader, WriteBitstream
    <2> QED
      BY <2>1, SameConfig DEF WrittenBitsAgree
  <1>3. CASE EndUnit
    <2>1. /\ pc = "end" /\ cfg' = cfg
          /\ error' = error \/ AccessUnitBits(tp) # frame.total + frame.hdr
      BY <1>3, UnitFields
    <2> QED
      BY <2>1, SameConfig DEF WrittenBitsAgree, WrittenInv, CountedInv
  <1>4. CASE HandOut
    <2>1. cfg' = cfg /\ error' \in {error, "au_length"}
      BY <1>4, OutFields
    <2> QED
      BY <2>1, SameConfig DEF WrittenBitsAgree
  <1>5. CASE UNCHANGED vars
    <2>1. cfg' = cfg /\ error' = error
      BY <1>5 DEF vars
    <2> QED
      BY <2>1, SameConfig DEF WrittenBitsAgree
  <1> QED
    BY <1>1, <1>2, <1>3, <1>4, <1>5, StepCases

(* The bits written are the bits counted: the counters that decide on a     *)
(* PCE, a configuration or a header do not move between the two.            *)
THEOREM WrittenBitsAgreeAlways == Spec => []WrittenBitsAgree
  <1>1. Init => AccountInv /\ WrittenBitsAgree
    BY InitTypes, InitConfig, InitBudget, InitWritten
    DEF AccountInv, Init, WrittenBitsAgree
  <1>2. AccountInv /\ WrittenBitsAgree /\ [Next]_vars => (AccountInv /\ WrittenBitsAgree)'
    BY TypeStep, ConfigStep, BudgetStep, BlockStep, ByteStep, CountedStep, LengthStep,
       WrittenBitsStep
    DEF AccountInv, WrittenInv
  <1> QED
    BY <1>1, <1>2, PTL DEF Spec


-----------------------------------------------------------------------------
(* DAB+ superframes *)

LEMMA SamePointed ==
    ASSUME NEW m, NEW n \in Nat, NEW u, NEW w, PointedAt(m, n, u),
           \A i \in 1 .. n : w[i + 1].from = u[i + 1].from
    PROVE  PointedAt(m, n, w)
  BY DEF PointedAt

(* One more marker points at one more access unit. *)
LEMMA PointedAppend ==
    ASSUME NEW n \in Nat, NEW m \in Seq(Nat), NEW u, NEW x \in Nat, PointedAt(m, n, u),
           x = u[n + 2].from \div 8
    PROVE  PointedAt(Append(m, x), n + 1, u)
  <1>1. m = [i \in 1 .. n |-> u[i + 1].from \div 8]
    BY DEF PointedAt
  <1>2. Len(m) = n /\ DOMAIN m = 1 .. n
    BY <1>1
  <1> DEFINE a == Append(m, x)
             p == [i \in 1 .. n + 1 |-> u[i + 1].from \div 8]
  <1>3. /\ a \in Seq(Nat) /\ Len(a) = n + 1 /\ a[n + 1] = x
        /\ \A i \in 1 .. n : a[i] = m[i]
    BY <1>2, AppendProperties
  <1>4. DOMAIN a = 1 .. n + 1 /\ a = [i \in DOMAIN a |-> a[i]]
    BY <1>3
  <1>5. ASSUME NEW i \in 1 .. n + 1
        PROVE  a[i] = p[i]
    <2>1. CASE i = n + 1
      BY <1>3, <2>1
    <2>2. CASE i # n + 1
      <3>1. i \in 1 .. n
        BY <2>2
      <3>2. m[i] = u[i + 1].from \div 8
        BY <1>1, <3>1
      <3> QED
        BY <1>3, <3>1, <3>2
    <2> QED
      BY <2>1, <2>2
  <1> HIDE DEF a
  <1>6. a = p
    BY <1>4, <1>5
  <1> QED
    BY <1>6 DEF PointedAt, a

(* An access unit behind the others. *)
LEMMA TiledAppend ==
    ASSUME NEW u \in Seq(Unit), NEW x \in Unit, Tiled(u),
           u # << >> => u[Len(u)].to = x.from
    PROVE  LET w == u \o <<x>>
           IN  /\ Tiled(w) /\ Len(w) = Len(u) + 1 /\ w[Len(u) + 1] = x
               /\ \A i \in 1 .. Len(u) : w[i] = u[i]
  <1> DEFINE w == u \o <<x>>
             k == Len(u)
  <1>1. /\ k \in Nat /\ Len(w) = k + 1 /\ w[k + 1] = x
        /\ \A i \in 1 .. k : w[i] = u[i]
    BY ConcatProperties
  <1>2. u # << >> <=> k > 0
    OBVIOUS
  <1> HIDE DEF w
  <1>3. ASSUME NEW i \in 1 .. k
        PROVE  w[i].to = w[i + 1].from
    <2>1. CASE i = k
      <3>1. u[k].to = x.from
        BY <1>1, <1>2, <2>1
      <3>2. w[i] = u[k]
        BY <1>1, <2>1
      <3>3. w[i + 1] = x
        BY <1>1, <2>1
      <3> QED
        BY <3>1, <3>2, <3>3
    <2>2. CASE i # k
      <3>1. i \in 1 .. k - 1 /\ i + 1 \in 1 .. k
        BY <1>1, <2>2
      <3>2. u[i].to = u[i + 1].from
        BY <3>1 DEF Tiled
      <3> QED
        BY <1>1, <3>1, <3>2
    <2> QED
      BY <2>1, <2>2
  <1>4. Tiled(w)
    BY <1>1, <1>3 DEF Tiled
  <1> QED
    BY <1>1, <1>4 DEF w

LEMMA InitDab ==
    ASSUME Init
    PROVE  DabInv
  <1>1. pc = "frame" /\ tp.units = << >> /\ tp.block = 0
    BY DEF Init, TpInit
  <1>2. Tiled(tp.units)
    BY <1>1 DEF Tiled
  <1> QED
    BY <1>1, <1>2 DEF DabInv

LEMMA DabStep ==
    ASSUME TypeInv, BlockInv, DabInv, [Next]_vars
    PROVE  DabInv'
  <1>1. /\ cfg \in Configurations /\ tp \in TpState /\ tp.block \in Nat /\ tp.valid \in Nat
        /\ tp.start \in Nat /\ tp.markers \in Seq(Nat) /\ tp.units \in Seq(Unit)
        /\ cfg.nSubFrames \in 1 .. 6
    BY CfgFacts DEF TypeInv, TypeOK, TpState, Unit
  <1>2. CASE BeginFrame \/ CodingStep
    <2>1. /\ cfg' = cfg /\ pc \in {"frame"} \union Coding
          /\ pc' \in Coding \union {"header", "failed"}
          /\ tp'.block = tp.block /\ tp'.valid = tp.valid
          /\ tp'.units = tp.units /\ tp'.markers = tp.markers
      BY <1>2, BeforeFields
    <2>2. SuperframeBits' = SuperframeBits
      BY <2>1 DEF SuperframeBits
    <2> QED
      BY <2>1, <2>2 DEF DabInv, Coding, Estimated
  <1>3. CASE WriteHeader
    <2>1. SUFFICES ASSUME cfg.fmt = "dab"
                   PROVE  /\ Tiled(tp'.units)
                          /\ Len(tp'.units) = tp'.block + 1
                          /\ tp'.units[tp'.block + 1].from = tp'.start
                          /\ PointedAt(tp'.markers, Most(0, tp'.block - 1), tp'.units)
      BY <1>3, HeaderFields DEF DabInv
    <2> DEFINE from  == SubFrameStart(tp)
               front == FrontBits(tp, frame.total + PceBits(tp))
               new == [from |-> from + front, to |-> 0]
               before == IF from = 0 THEN << >> ELSE tp.units
    <2>2. /\ pc = "header" /\ from \in Nat /\ front \in Nat
          /\ tp'.block = tp.block /\ tp'.start = from + front
          /\ tp'.units = before \o <<new>>
          /\ tp'.markers = IF from = 0 THEN << >> ELSE tp.markers
      BY <1>3, <2>1, HeaderFields
    <2>3. new \in Unit /\ new.from = from + front
      BY <2>2 DEF Unit
    <2>4. /\ before \in Seq(Unit) /\ Tiled(before) /\ Len(before) = tp.block
          /\ before # << >> => before[Len(before)].to = new.from
          /\ tp'.markers \in Seq(Nat)
          /\ PointedAt(tp'.markers, Most(0, tp.block - 1), before)
      <3>1. CASE tp.block = 0
        <4>1. from = 0 /\ before = << >> /\ tp'.markers = << >>
          BY <2>2, <3>1 DEF SubFrameStart
        <4>2. Most(0, tp.block - 1) = 0
          BY <3>1 DEF Most
        <4>3. Tiled(<< >>) /\ PointedAt(<< >>, 0, << >>)
          BY DEF Tiled, PointedAt
        <4> HIDE DEF before, from
        <4> QED
          BY <3>1, <4>1, <4>2, <4>3
      <3>2. CASE tp.block # 0
        <4>1. /\ Tiled(tp.units) /\ Len(tp.units) = tp.block
              /\ tp.units[tp.block].to = tp.valid /\ tp.valid > 0
              /\ PointedAt(tp.markers, tp.block - 1, tp.units)
          BY <1>1, <2>1, <2>2, <3>2 DEF DabInv
        <4>2. from = tp.valid
          BY <2>1, <3>2 DEF SubFrameStart
        <4>3. front = 0
          BY <2>1, <3>2, FrontOfFormat
        <4>4. before = tp.units /\ tp'.markers = tp.markers
          BY <2>2, <4>1, <4>2
        <4>5. Most(0, tp.block - 1) = tp.block - 1
          BY <1>1, <3>2 DEF Most
        <4>6. new.from = tp.valid
          BY <1>1, <2>3, <4>2, <4>3
        <4> HIDE DEF before, new
        <4> QED
          BY <1>1, <4>1, <4>4, <4>5, <4>6
      <3> QED
        BY <3>1, <3>2
    <2> HIDE DEF before, new
    <2>5. LET w == before \o <<new>>
          IN  /\ Tiled(w) /\ Len(w) = Len(before) + 1 /\ w[Len(before) + 1] = new
              /\ \A i \in 1 .. Len(before) : w[i] = before[i]
      BY <2>3, <2>4, TiledAppend
    <2>6. /\ Tiled(tp'.units) /\ Len(tp'.units) = tp.block + 1 /\ tp'.units[tp.block + 1] = new
          /\ \A i \in 1 .. tp.block : tp'.units[i] = before[i]
      BY <2>2, <2>4, <2>5
    <2>7. PointedAt(tp'.markers, Most(0, tp.block - 1), tp'.units)
      <3>1. /\ Most(0, tp.block - 1) \in Nat
            /\ \A i \in 1 .. Most(0, tp.block - 1) : i + 1 \in 1 .. tp.block
        BY <1>1 DEF Most
      <3> QED
        BY <2>4, <2>6, <3>1, SamePointed
    <2> QED
      BY <2>2, <2>3, <2>6, <2>7
  <1>4. CASE WriteBitstream
    <2>1. /\ pc = "payload" /\ pc' = "end" /\ cfg' = cfg
          /\ tp'.block = tp.block /\ tp'.start = tp.start
          /\ tp'.units = tp.units /\ tp'.markers = tp.markers
      BY <1>4, WrittenFields DEF WriteBitstream
    <2> QED
      BY <2>1 DEF DabInv
  <1>5. CASE EndUnit
    <2> DEFINE to == DabUnitEnd(tp) + 16
               k == Len(tp.units)
    <2>1. SUFFICES ASSUME cfg.fmt = "dab"
                   PROVE  /\ Tiled(tp'.units)
                          /\ Len(tp'.units) = tp'.block
                          /\ tp'.units[tp'.block].to = tp'.valid /\ tp'.valid > 0
                          /\ PointedAt(tp'.markers, tp'.block - 1, tp'.units)
                          /\ tp'.block = cfg.nSubFrames => tp'.valid >= SuperframeBits
      <3>1. pc = "end" /\ pc' \in {"handout", "failed"} /\ cfg' = cfg
        BY <1>5, UnitFields
      <3>2. SuperframeBits' = SuperframeBits
        BY <3>1 DEF SuperframeBits
      <3> QED
        BY <3>1, <3>2 DEF DabInv
    <2>2. /\ pc = "end" /\ k \in Nat \ {0}
          /\ tp'.valid = to
          /\ Len(tp'.units) = k
          /\ \A i \in 1 .. k - 1 : tp'.units[i] = tp.units[i]
          /\ tp'.units[k].from = tp.units[k].from /\ tp'.units[k].to = to
          /\ tp'.markers = DabMarkers(tp)
          /\ tp'.block = tp.block + 1
      BY <1>5, <2>1, UnitFields
    <2>3. /\ Tiled(tp.units) /\ k = tp.block + 1
          /\ tp.units[tp.block + 1].from = tp.start
          /\ PointedAt(tp.markers, Most(0, tp.block - 1), tp.units)
      BY <2>1, <2>2 DEF DabInv
    <2>4. /\ DabUnitEnd(tp) \in Nat
          /\ LastBlock(tp) => DabUnitEnd(tp) >= SuperframeBits - 16
      BY <1>1, DabUnitEndFacts
    <2>5. tp'.block = cfg.nSubFrames => tp'.valid >= SuperframeBits
      <3>1. SuperframeBits \in Int
        BY <1>1, CfgFacts DEF SuperframeBits
      <3> QED
        BY <1>1, <2>2, <2>4, <3>1 DEF LastBlock
    <2>6. Tiled(tp'.units)
      <3>1. ASSUME NEW i \in 1 .. k - 1
            PROVE  tp'.units[i].to = tp'.units[i + 1].from
        <4>1. tp.units[i].to = tp.units[i + 1].from
          BY <2>3, <3>1 DEF Tiled
        <4>2. tp'.units[i + 1].from = tp.units[i + 1].from
          BY <2>2, <3>1
        <4> QED
          BY <2>2, <3>1, <4>1, <4>2
      <3> QED
        BY <2>2, <3>1 DEF Tiled
    <2>7. PointedAt(tp'.markers, tp.block, tp'.units)
      <3>1. PointedAt(tp'.markers, tp.block, tp.units)
        <4>1. CASE tp.block = 0
          BY <2>2, <2>3, <4>1 DEF DabMarkers, Most
        <4>2. CASE tp.block # 0
          <5> DEFINE n == tp.block - 1
          <5>1. n \in Nat /\ Most(0, n) = n /\ n + 2 = tp.block + 1 /\ n + 1 = tp.block
            BY <1>1, <4>2 DEF Most
          <5>2. tp'.markers = Append(tp.markers, tp.start \div 8) /\ tp.start \div 8 \in Nat
            BY SMTT(30), <1>1, <2>2, <4>2 DEF DabMarkers
          <5>3. PointedAt(tp.markers, n, tp.units)
            BY <2>3, <5>1
          <5>4. tp.start \div 8 = tp.units[n + 2].from \div 8
            BY <2>3, <5>1
          <5> HIDE DEF n
          <5>5. PointedAt(Append(tp.markers, tp.start \div 8), n + 1, tp.units)
            BY <1>1, <5>1, <5>2, <5>3, <5>4, PointedAppend
          <5> QED
            BY <5>1, <5>2, <5>5
        <4> QED
          BY <4>1, <4>2
      <3>2. ASSUME NEW i \in 1 .. tp.block
            PROVE  tp'.units[i + 1].from = tp.units[i + 1].from
        <4>1. i + 1 = k \/ i + 1 \in 1 .. k - 1
          BY <1>1, <2>2, <2>3, <3>2
        <4> HIDE DEF k
        <4> QED
          BY <2>2, <4>1
      <3> QED
        BY <1>1, <3>1, <3>2, SamePointed
    <2>8. tp'.block - 1 = tp.block /\ tp'.block = k /\ tp'.valid > 0
      BY <1>1, <2>2, <2>3, <2>4
    <2> QED
      BY <2>2, <2>5, <2>6, <2>7, <2>8
  <1>6. CASE HandOut
    <2>1. SUFFICES ASSUME cfg.fmt = "dab" PROVE DabInv'
      <3>1. cfg' = cfg
        BY <1>6, OutFields
      <3> QED
        BY <3>1 DEF DabInv
    <2>2. /\ pc = "handout" /\ pc' \in {"frame", "failed"} /\ cfg' = cfg
          /\ tp'.units = tp.units /\ tp'.markers = tp.markers /\ tp'.valid = tp.valid
          /\ tp'.block = IF tp.block >= cfg.nSubFrames THEN 0 ELSE tp.block
      <3>1. ~IsLatm
        BY <2>1 DEF IsLatm
      <3> QED
        BY <1>6, <2>1, <3>1, OutFields
    <2>3. tp.block \in 1 .. cfg.nSubFrames
      BY <2>1, <2>2 DEF BlockInv
    <2>4. /\ Tiled(tp.units) /\ Len(tp.units) = tp.block
          /\ tp.units[tp.block].to = tp.valid /\ tp.valid > 0
          /\ PointedAt(tp.markers, tp.block - 1, tp.units)
          /\ tp.block = cfg.nSubFrames => tp.valid >= SuperframeBits
      BY <2>1, <2>2, <2>3 DEF DabInv
    <2>5. SuperframeBits' = SuperframeBits
      BY <2>2 DEF SuperframeBits
    <2>6. CASE tp.block = cfg.nSubFrames
      <3>1. tp'.block = 0
        BY <1>1, <2>2, <2>6
      <3> QED
        BY <2>2, <2>4, <2>5, <2>6, <3>1 DEF DabInv
    <2>7. CASE tp.block # cfg.nSubFrames
      <3>1. tp'.block = tp.block /\ tp.block > 0 /\ tp.block < cfg.nSubFrames
        BY <1>1, <2>2, <2>3, <2>7
      <3> QED
        BY <1>1, <2>2, <2>4, <2>5, <3>1 DEF DabInv
    <2> QED
      BY <2>6, <2>7
  <1>7. CASE UNCHANGED vars
    BY <1>7 DEF DabInv, SuperframeBits, vars
  <1> QED
    BY <1>2, <1>3, <1>4, <1>5, <1>6, <1>7, StepCases

(* A complete DAB+ superframe whose access units fit its subchannel is       *)
(* exactly as large as it, its units lie one behind the other, and the      *)
(* header points at them.  (That they fit is what the code's comment claims  *)
(* and the run frame_coder_superframe refutes.)                                       *)
THEOREM SuperframeExactAlways == Spec => [](SuperframeFits => SuperframeExact)
  <1>1. Init => AccountInv /\ DabInv
    BY InitTypes, InitConfig, InitBudget, InitWritten, InitDab DEF AccountInv
  <1>2. AccountInv /\ DabInv /\ [Next]_vars => (AccountInv /\ DabInv)'
    BY TypeStep, ConfigStep, BudgetStep, BlockStep, ByteStep, CountedStep, LengthStep, DabStep
    DEF AccountInv, WrittenInv
  <1>3. AccountInv /\ DabInv => (SuperframeFits => SuperframeExact)
    <2>1. SUFFICES ASSUME TypeInv, DabInv, SuperframeFits,
                          cfg.fmt = "dab", pc = "frame", tp.block = 0, tp.units # << >>
                   PROVE  /\ tp.valid = SuperframeBits
                          /\ Len(tp.units) = cfg.nSubFrames
                          /\ \A i \in 1 .. Len(tp.units) - 1 :
                                tp.units[i].to = tp.units[i + 1].from
                          /\ tp.markers = [i \in 1 .. Len(tp.units) - 1 |->
                                              tp.units[i + 1].from \div 8]
      BY DEF AccountInv, SuperframeExact
    <2>2. tp.valid \in Nat /\ SuperframeBits \in Nat
      <3>1. cfg \in Configurations /\ tp.valid \in Nat
        BY <2>1 DEF TypeInv, TypeOK, TpState
      <3>2. cfg.subch \in Nat
        BY <3>1, CfgFacts
      <3> QED
        BY <3>1, <3>2 DEF SuperframeBits
    <2>3. tp.valid <= SuperframeBits /\ tp.valid >= SuperframeBits
      BY <2>1 DEF SuperframeFits, DabInv
    <2>4. Len(tp.units) = cfg.nSubFrames /\ PointedAt(tp.markers, cfg.nSubFrames - 1, tp.units)
      BY <2>1 DEF DabInv
    <2>5. Tiled(tp.units)
      BY <2>1 DEF DabInv
    <2> QED
      BY <2>2, <2>3, <2>4, <2>5 DEF Tiled, PointedAt
  <1> QED
    BY <1>1, <1>2, <1>3, PTL DEF Spec

=============================================================================
