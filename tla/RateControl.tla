----------------------------- MODULE RateControl -----------------------------
(***************************************************************************)
(* The bit budget of a frame: src/src-fdk-aac/libAACenc/src/qc_main.cpp    *)
(* and the part of FDKaacEnc_Initialize() that sets it up.  One channel    *)
(* element; how many bits a quantisation takes is a choice.                *)
(*                                                                         *)
(* In constant bit rate every frame is granted the average and may take    *)
(* more out of the bit reservoir.  The header is estimated before the      *)
(* frame is coded and known after it; fill elements keep the reservoir     *)
(* from overflowing.                                                       *)
(***************************************************************************)
EXTENDS TpEnc

MinBufSize == 6144      \* MIN_BUFSIZE_PER_EFF_CHAN
BitresMin == 300        \* BITRES_MIN
BitresMinLd == 500      \* BITRES_MIN_LD
BitresMaxLd == 4000     \* BITRES_MAX_LD

RateConfigOK(c) ==
    /\ c.mode \in {"cbr", "vbr"}
    /\ c.unlock \in BOOLEAN                       \* --unlock-bitrate
    /\ c.bitRate \in Nat \ {0} /\ c.sampleRate \in Nat \ {0}
    /\ c.frameLength \in Nat \ {0} /\ c.frameLength % 8 = 0
    /\ c.channels \in 1 .. 8                      \* nChannelsEff; no LFE: nChannels
    /\ c.lowDelay \in BOOLEAN                     \* isLowDelay(audioObjectType)
    /\ c.lowDelay => c.er
    \* The default reservoir of low delay, interpolated over the bit rate.
    /\ c.ldReservoir \in AlignDown(BitresMinLd) .. BitresMaxLd /\ c.ldReservoir % 8 = 0
    /\ c.bitresMode \in {"default", "full", "reduced", "disabled"}   \* --bitres-mode
    /\ c.reservoir \in Nat                        \* --vbr-reservoir; 0: default
    /\ c.capBits \in Nat \union {-1}              \* config->maxBitsPerFrame
    \* FDKaacEnc_AdjustEncSettings(): several access units share the 13 bits of a length.
    /\ c.nSubFrames > 1 /\ c.fmt = "adts" => c.capBits \in 0 .. (8 * 8191) \div c.nSubFrames
    /\ c.nSubFrames > 1 /\ c.fmt = "loas" => c.capBits \in 0 .. (8 * 8192) \div c.nSubFrames
    /\ c.maxIterations \in Nat \ {0}
    \* Side information of a frame: static bits, the least they can be
    \* reduced to, and extension payload with ID_END.
    /\ \A s \in c.sides : /\ s.least \in Nat \ {0} /\ s.ext \in Nat
                          /\ s.static \in Nat /\ s.least <= s.static
                          /\ c.er \/ s.ext >= 3
    /\ c.demands \subseteq Nat /\ c.demands # {}  \* Bits of a quantised spectrum.
    \* FDKaacEnc_LimitBitrate(): the average fits the decoder's buffer.
    /\ LET x == (c.frameLength \div 8) * c.bitRate
       IN  8 * ((x \div c.sampleRate) + (IF x % c.sampleRate = 0 THEN 0 ELSE 1))
               <= MinBufSize * c.channels

ASSUME ConfigAssumption == \A c \in Configurations : TpConfigOK(c) /\ RateConfigOK(c)

VARIABLES
    qc,         \* QC_STATE
    frame       \* QC_OUT of the frame being coded.

QcState == [bitResTot : Int, bitResTotMax : Int, paddingRest : Int,
            maxBitsPerFrame : Nat, minBitsPerFrame : Int]

FrameState == [avg : Nat, hdr : Nat,           \* avgTotalBits, globHdrBits
               static : Nat, least : Nat, ext : Nat,
               granted : Int, maxDyn : Int,    \* grantedDynBits, maxDynBits
               dyn : Nat,                      \* usedDynBits
               iterations : Nat,
               counted : BOOLEAN,              \* dyn is of this frame.
               decrease : BOOLEAN,             \* decreaseBitConsumption == 1
               fill : Nat, align : Nat, total : Nat]

Least(a, b) == IF a < b THEN a ELSE b      \* fixMin(), fMin()
Most(a, b) == IF a > b THEN a ELSE b       \* fixMax(), fMax()

-----------------------------------------------------------------------------
(* FDKaacEnc_Initialize() *)

AverageBitsPerFrame == (cfg.bitRate * cfg.frameLength) \div cfg.sampleRate
AverageBits == AlignUp(AverageBitsPerFrame)
BufferSize == MinBufSize * cfg.channels

BitRes ==
    LET most == BufferSize - AverageBits
    IN  CASE cfg.mode = "vbr"   -> BufferSize
          [] cfg.mode # "vbr" /\ cfg.reservoir > 0 -> Least(AlignDown(cfg.reservoir), most)
          [] cfg.mode # "vbr" /\ cfg.reservoir = 0 ->
                IF cfg.lowDelay THEN Least(cfg.ldReservoir, most) ELSE most

MaxBits ==
    LET capped(bits) == IF cfg.capBits = -1 THEN bits ELSE Least(bits, cfg.capBits)
    IN  IF cfg.mode = "vbr" THEN Most(capped(BufferSize), AverageBits)
        ELSE Least(BufferSize,
                   Most(capped(Least(BufferSize, AverageBits + BitRes)),
                        AlignDown(AverageBitsPerFrame + 15)))

MinBits ==
    IF cfg.mode = "vbr" THEN 0
    ELSE Least(Most(0, AlignDown(AverageBitsPerFrame - 1) - BitRes
                       - StaticBits(TpInit, AverageBits + BitRes)),
               AlignDown(AverageBitsPerFrame - StaticBits(TpInit, MaxBits)))

(* The mode the room over the average calls for, unless it is given. *)
BitResMode ==
    CASE cfg.bitresMode # "default" -> cfg.bitresMode
      [] cfg.bitresMode = "default" ->
            IF MaxBits - AverageBits
                   >= (IF cfg.lowDelay THEN BitresMinLd ELSE BitresMin) * cfg.channels
            THEN "full"
            ELSE IF MaxBits > AverageBits THEN "reduced" ELSE "disabled"

(* isCBRAdjustment: everything but a variable bit rate with a full reservoir *)
CbrAdjustment == cfg.mode = "cbr" \/ BitResMode # "full"

QcInit == [bitResTot |-> BitRes, bitResTotMax |-> BitRes,
           paddingRest |-> cfg.sampleRate,
           maxBitsPerFrame |-> MaxBits, minBitsPerFrame |-> MinBits]

-----------------------------------------------------------------------------
(* FDKaacEnc_AdjustBitrate() *)

(* granuleLength bytes times the bit rate: the frame length is its quotient *)
(* by the sample rate, the remainder is saved up for a padding byte.        *)
BytesTimesRate == (cfg.frameLength \div 8) * cfg.bitRate

PaddingOn(q) == q.paddingRest - (BytesTimesRate % cfg.sampleRate) <= 0

AvgTotalBits(q) == 8 * ((BytesTimesRate \div cfg.sampleRate) + (IF PaddingOn(q) THEN 1 ELSE 0))

NextPaddingRest(q) ==
    q.paddingRest - (BytesTimesRate % cfg.sampleRate)
    + (IF PaddingOn(q) THEN cfg.sampleRate ELSE 0)

-----------------------------------------------------------------------------
(* FDKaacEnc_QCMain() *)

(* Mutant: the header is estimated for a frame of average size. *)
HeaderEstimateAverage(q, avg) == StaticBits(tp, avg)

(* "Take maximum possible frame size into account": what the frame may be *)
(* when it takes the whole reservoir.                                     *)
HeaderEstimate(q, avg) == StaticBits(tp, avg + q.bitResTot)

(* The average it is given: the limit of a frame when there is no average. *)
Budget(q, f) == IF CbrAdjustment THEN f.avg ELSE q.maxBitsPerFrame

(* FDKaacEnc_BitResRedistribution(): its errors and, for one element, the *)
(* level the element is given.                                            *)
BitResError(q) ==
    CASE q.bitResTot < 0            -> "bitres_too_low"
      [] q.bitResTot > q.bitResTotMax -> "bitres_too_high"
      [] OTHER                      -> "none"

BitResLevel(q, f) == Most(0, Least(q.bitResTot, q.maxBitsPerFrame - Budget(q, f)))

(* FDKaacEnc_prepareBitDistribution() *)
GrantedDynBits(q, f) ==
    AlignDown(Least(q.maxBitsPerFrame, Budget(q, f)) - f.hdr) - (f.static + f.ext)

MaxDynBits(q, f) == AlignDown(q.maxBitsPerFrame) - (f.static + f.ext)

(* Not even the least side information can be paid. *)
TooLow(q, f) ==
    /\ GrantedDynBits(q, f) + q.bitResTot < 0
    /\ GrantedDynBits(q, f) + q.bitResTot < f.least - f.static

Prepared(q, f) ==
    [f EXCEPT !.granted = IF TooLow(q, f) /\ cfg.unlock THEN 0 ELSE GrantedDynBits(q, f),
              !.maxDyn = MaxDynBits(q, f),
              !.iterations = 0, !.counted = FALSE, !.decrease = FALSE]

TotalAvailableBits(q, f) == Least(q.maxBitsPerFrame, Budget(q, f) + BitResLevel(q, f))

(* getTotalConsumedBits() *)
TotalConsumedBits(f) == AlignUp(f.dyn + f.static + f.ext) + f.hdr

(* FDKaacEnc_reduceBitConsumption() has nothing left to reduce; before the *)
(* first count the dynamic bits it looks at are those of the frame before.  *)
Exhausted(f) ==
    f.iterations > cfg.maxIterations \/ (f.iterations = cfg.maxIterations /\ f.dyn = 0)

(* Mutant: the pass of crash recovery is not counted. *)
ReductionsUncounted(f) ==
    {[f EXCEPT !.iterations = IF @ < cfg.maxIterations THEN @ + 1 ELSE @,
               !.static = @ - saved, !.granted = @ + saved, !.maxDyn = @ + saved] :
        saved \in IF f.iterations = cfg.maxIterations THEN {0, f.static - f.least} ELSE {0}}

(* What it may leave behind: the gain is raised, and at last crash recovery *)
(* cuts the spectrum from the top; with all of it gone the side information *)
(* is the least there is.                                                   *)
Reductions(f) ==
    {[f EXCEPT !.iterations = @ + 1,
               !.static = @ - saved, !.granted = @ + saved, !.maxDyn = @ + saved] :
        saved \in IF f.iterations = cfg.maxIterations THEN {0, f.static - f.least} ELSE {0}}

(* Bits of the spectrum: a coarser quantisation takes no more, and none at  *)
(* all are taken only when no scale factor band is left.                    *)
Demands(f) ==
    {d \in cfg.demands : /\ f.counted => d <= f.dyn
                         /\ d = 0 => f.static = f.least}

Overshoot(f) == f.dyn > f.maxDyn

(* The loop ends when the frame can be paid, or cannot be made smaller.    *)
(* (avgTotalDynBits is 0, so the code's other conditions always hold.)     *)
QuantizationDone(q, f) ==
    /\ \/ TotalConsumedBits(f) <= TotalAvailableBits(q, f)
       \/ f.dyn = 0 /\ f.decrease
    /\ ~Overshoot(f)

-----------------------------------------------------------------------------
(* After quantisation *)

UsedBits(f) == f.static + f.dyn + f.ext

(* Mutant: what the reservoir can take may be more than there is. *)
FillForReservoirUnbounded(q, f) ==
    LET delta == f.granted - f.dyn
        space == q.bitResTotMax - q.bitResTot
    IN  delta - AlignDown(Most(0, space - 7))

(* Bits that fit neither the frame nor the reservoir. *)
FillForReservoir(q, f) ==
    LET delta == f.granted - f.dyn
        space == q.bitResTotMax - q.bitResTot
    IN  Most(delta % 8, delta - AlignDown(Most(0, space - 7)))

(* FDKaacEnc_updateFillBits() *)
UpdateFillBits(q, f) ==
    LET base == IF cfg.mode = "vbr" THEN (f.granted - f.dyn) % 8 ELSE FillForReservoir(q, f)
        fill == base + AlignUp(Most(0, q.minBitsPerFrame - (UsedBits(f) + base)))
    IN  [f EXCEPT !.fill = fill, !.total = UsedBits(f) + fill]

(* Mutant: the header saved goes to the reservoir even when that is full. *)
HeaderSettledUnbounded(q, f, t) ==
    LET exact == StaticBits(t, f.total)
    IN  <<[q EXCEPT !.bitResTot = @ + (f.hdr - exact)], [f EXCEPT !.hdr = exact]>>

(* FDKaacEnc_FinalizeBitConsumption(), first half: the header turned out   *)
(* smaller than estimated.  The reservoir takes the difference; what it    *)
(* cannot take becomes fill bits, which may make the header grow again.    *)
HeaderSettled(q, f, t) ==
    LET exact == StaticBits(t, f.total)
        space == q.bitResTotMax - (q.bitResTot + (f.granted - (f.dyn + f.fill)))
        diff  == AlignUp(Most(0, (f.hdr - exact) - space))
        hdr   == StaticBits(t, f.total + diff)
    IN  IF cfg.mode = "vbr" \/ exact = f.hdr
        THEN <<q, [f EXCEPT !.hdr = exact]>>
        ELSE <<[q EXCEPT !.bitResTot = @ + (f.hdr - exact - diff) - (hdr - exact)],
               [f EXCEPT !.fill = @ + diff, !.total = @ + diff,
                         !.granted = @ + diff, !.hdr = hdr]>>

(* Second half: what fill elements can express, and the alignment. *)
Aligned(f) ==
    LET fill0 == FillData(f.fill)
        align == 7 - ((UsedBits(f) + fill0 - 1) % 8)
        fill  == IF align + fill0 - f.fill = 8 /\ fill0 > 8 THEN fill0 - 8 ELSE fill0
    IN  [f EXCEPT !.fill = fill, !.align = align, !.total = UsedBits(f) + fill + align]

(* Mutant: the alignment bits are not taken out of the reservoir. *)
UpdateBitresWithoutAlign(q, f) ==
    LET level == q.bitResTot + f.granted - (f.dyn + f.fill)
    IN  [q EXCEPT !.bitResTot =
            IF cfg.mode = "vbr" THEN Least(q.maxBitsPerFrame, q.bitResTotMax)
            ELSE IF cfg.unlock THEN Most(0, level) ELSE level]

(* FDKaacEnc_updateBitres() *)
UpdateBitres(q, f) ==
    LET level == q.bitResTot + f.granted - (f.dyn + f.fill + f.align)
    IN  [q EXCEPT !.bitResTot =
            IF cfg.mode = "vbr" THEN Least(q.maxBitsPerFrame, q.bitResTotMax)
            ELSE IF cfg.unlock THEN Most(0, level) ELSE level]

=============================================================================
