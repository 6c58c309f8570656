----------------------------- MODULE FrameCoder -----------------------------
(***************************************************************************)
(* FDKaacEnc_EncodeFrame(): one frame after the other through the rate     *)
(* control (RateControl) and the transport encoder (TpEnc).                *)
(*                                                                         *)
(* What the psychoacoustics and the spectral coding decide is a choice:    *)
(* the side information of a frame, whether a quantised value is out of    *)
(* range, and the bits of every quantisation.                              *)
(***************************************************************************)
EXTENDS RateControl

VARIABLES
    pc,
    error,      \* What FDKaacEnc_EncodeFrame() returned.
    balance     \* Bits granted less bits written, since the start (history).

vars == <<cfg, tp, qc, frame, pc, error, balance>>

Errors == {"none", "bitres_too_low", "bitres_too_high", "quant_error",
           "written_bits", "au_length"}

(* The dynamic bits are the only ones a later frame may read. *)
NoFrame(dyn) ==
    [avg |-> 0, hdr |-> 0, static |-> 0, least |-> 0, ext |-> 0,
     granted |-> 0, maxDyn |-> 0, dyn |-> dyn, iterations |-> 0,
     counted |-> FALSE, decrease |-> FALSE, fill |-> 0, align |-> 0, total |-> 0]

Init ==
    /\ cfg \in Configurations
    /\ tp = TpInit
    /\ qc = QcInit
    /\ frame = NoFrame(0)
    /\ pc = "frame"
    /\ error = "none"
    /\ balance = 0

Fail(e) ==
    /\ error' = e
    /\ pc' = "failed"
    /\ UNCHANGED balance

-----------------------------------------------------------------------------
(* Psychoacoustics, extension payload, average, header estimate, and the   *)
(* distribution of the bits.                                               *)
BeginFrame ==
    /\ pc = "frame"
    /\ \E side \in cfg.sides :
        LET avg == AvgTotalBits(qc)
            f   == [frame EXCEPT !.avg = avg,
                                 !.hdr = HeaderEstimate(qc, avg),
                                 !.static = side.static,
                                 !.least = side.least,
                                 !.ext = side.ext]
        IN  /\ qc' = [qc EXCEPT !.paddingRest = NextPaddingRest(qc)]
            /\ tp' = [tp EXCEPT !.fillBits = IF IsLatm THEN LatmFillBits(tp) ELSE 0]
            /\ frame' = Prepared(qc, f)
            /\ IF BitResError(qc) # "none" THEN Fail(BitResError(qc))
               ELSE IF TooLow(qc, f) /\ ~cfg.unlock THEN Fail("bitres_too_low")
               ELSE pc' = "quantize" /\ UNCHANGED <<error, balance>>
    /\ UNCHANGED cfg

(* A value out of range: the gain goes up before a bit is counted.  With   *)
(* nothing left to reduce --unlock-bitrate accepts the value.              *)
QuantizeOutOfRange ==
    /\ pc = "quantize"
    /\ ~frame.counted /\ ~(cfg.unlock /\ Exhausted(frame))
    /\ frame' = [frame EXCEPT !.decrease = TRUE]
    /\ pc' = "reduce"
    /\ UNCHANGED <<cfg, tp, qc, error, balance>>

(* A quantisation whose bits are counted. *)
Quantize ==
    /\ pc = "quantize"
    /\ \E d \in Demands(frame) :
        LET f == [frame EXCEPT !.dyn = d, !.counted = TRUE]
        IN  IF QuantizationDone(qc, f)
            THEN frame' = f /\ pc' = "fill"
            ELSE frame' = [f EXCEPT !.decrease = TRUE] /\ pc' = "reduce"
    /\ UNCHANGED <<cfg, tp, qc, error, balance>>

Reduce ==
    /\ pc = "reduce"
    /\ ~Exhausted(frame)
    /\ frame' \in Reductions(frame)
    /\ pc' = "quantize"
    /\ UNCHANGED <<cfg, tp, qc, error, balance>>

(* With --unlock-bitrate the frame is kept as it is: passes that change    *)
(* nothing are cut off after 64 of them (frankenOuterIter).                *)
ReduceNothing ==
    /\ pc = "reduce"
    /\ Exhausted(frame)
    /\ IF ~cfg.unlock THEN Fail("quant_error")
       ELSE pc' = (IF frame.counted THEN "fill" ELSE "quantize") /\ UNCHANGED <<error, balance>>
    /\ UNCHANGED <<cfg, tp, qc, frame>>

(* FDKaacEnc_updateFillBits() *)
FillUp ==
    /\ pc = "fill"
    /\ frame' = UpdateFillBits(qc, frame)
    /\ pc' = "settle"
    /\ UNCHANGED <<cfg, tp, qc, error, balance>>

(* FDKaacEnc_FinalizeBitConsumption(): the exact header ... *)
SettleHeader ==
    /\ pc = "settle"
    /\ qc' = HeaderSettled(qc, frame, tp)[1]
    /\ frame' = HeaderSettled(qc, frame, tp)[2]
    /\ pc' = "align"
    /\ UNCHANGED <<cfg, tp, error, balance>>

(* ... the alignment, the limits of a frame, and the reservoir after it. *)
Align ==
    /\ pc = "align"
    /\ frame' = Aligned(frame)
    /\ IF frame'.total > qc.maxBitsPerFrame \/ frame'.total < qc.minBitsPerFrame
       THEN Fail("quant_error") /\ UNCHANGED qc
       ELSE /\ qc' = UpdateBitres(qc, frame')
            /\ pc' = "header"
            /\ balance' = IF cfg.mode = "vbr" \/ cfg.unlock THEN 0
                          ELSE balance + frame'.avg - (frame'.total + frame'.hdr)
            /\ UNCHANGED error
    /\ UNCHANGED <<cfg, tp>>

WriteHeader ==
    /\ pc = "header"
    /\ tp' = WriteAccessUnit(tp, frame.total)
    /\ pc' = "payload"
    /\ UNCHANGED <<cfg, qc, frame, error, balance>>

(* FDKaacEnc_WriteBitstream(): DAB+ writes ID_END and the alignment itself. *)
WriteBitstream ==
    /\ pc = "payload"
    /\ tp' = [tp EXCEPT !.valid = @ + UsedBits(frame) + FillData(frame.fill)
                                 + IF cfg.fmt = "dab" THEN -3 ELSE frame.align]
    /\ pc' = "end"
    /\ UNCHANGED <<cfg, qc, frame, error, balance>>

(* The access unit is closed and measured. *)
EndUnit ==
    /\ pc = "end"
    /\ tp' = EndAccessUnit(tp)
    /\ IF AccessUnitBits(tp) # frame.total + frame.hdr THEN Fail("written_bits")
       ELSE pc' = "handout" /\ UNCHANGED <<error, balance>>
    /\ UNCHANGED <<cfg, qc, frame>>

(* The frame is handed out when its access units are complete. *)
HandOut ==
    /\ pc = "handout"
    /\ tp' = GetFrame(tp)
    /\ frame' = NoFrame(frame.dyn)
    /\ IF FrameTooLong(tp) THEN Fail("au_length")
       ELSE pc' = "frame" /\ UNCHANGED <<error, balance>>
    /\ UNCHANGED <<cfg, qc>>

Failed == pc = "failed" /\ UNCHANGED vars

Next ==
    \/ BeginFrame
    \/ QuantizeOutOfRange
    \/ Quantize
    \/ Reduce
    \/ ReduceNothing
    \/ FillUp
    \/ SettleHeader
    \/ Align
    \/ WriteHeader
    \/ WriteBitstream
    \/ EndUnit
    \/ HandOut
    \/ Failed

(* A frame is coded by one thread of control that does not stop in it. *)
Spec == Init /\ [][Next]_vars /\ WF_vars(Next)

-----------------------------------------------------------------------------
(* The history stays in its range because the reservoir does. *)
TypeOK ==
    /\ cfg \in Configurations
    /\ tp \in TpState
    /\ qc \in QcState
    /\ frame \in FrameState
    /\ pc \in {"frame", "quantize", "reduce", "fill", "settle", "align",
              "header", "payload", "end", "handout", "failed"}
    /\ error \in Errors
    /\ balance \in Int

(* A reservoir of no bits (--vbr-reservoir 1 to 7, or an average that fills *)
(* the decoder's buffer) cannot pay for a LATM length that grows again.     *)
NoReservoir == IsLatm /\ BitRes = 0

(* A frame that is paid for leaves a reservoir the next one can use: the   *)
(* level is never negative, so that BitResRedistribution() has no reason   *)
(* to refuse it, and never above the maximum.  A frame that                *)
(* --unlock-bitrate forces through may leave it above: it is granted more  *)
(* than the average holds, and only the lower end is clamped.              *)
ReservoirInRange ==
    /\ pc \in {"frame", "header"} /\ ~NoReservoir => qc.bitResTot >= 0
    /\ ~cfg.unlock =>
          /\ pc \in {"frame", "header"} => qc.bitResTot <= qc.bitResTotMax
          /\ error # "bitres_too_high"

(* With a constant bit rate every bit is accounted for: what the reservoir *)
(* has lost since the start is what the frames took beyond their average,  *)
(* through estimates, fill bits, alignment and crash recovery.             *)
AverageHolds ==
    (cfg.mode = "cbr" /\ ~cfg.unlock /\ pc \in {"frame", "header"}) =>
        qc.bitResTot = qc.bitResTotMax + balance

(* "is always positive" (the assertion of bitsToBitres): the header        *)
(* estimated for the largest frame is not smaller than that of the frame   *)
(* that was coded.  (With --unlock-bitrate a frame may be larger.)         *)
HeaderNeverUnderestimated ==
    (pc = "settle" /\ cfg.mode = "cbr" /\ ~cfg.unlock) => StaticBits(tp, frame.total) <= frame.hdr

(* The bits written are the bits counted, and the counters that decide on  *)
(* a PCE, a configuration or the header of a frame have not moved between  *)
(* the two.  (In LATM a frame that --unlock-bitrate forces through has a    *)
(* header estimated before its length is aligned.)                         *)
WrittenBitsAgree == ~(cfg.unlock /\ IsLatm) => error # "written_bits"

(* A complete DAB+ superframe has exactly the size of its subchannel; its  *)
(* access units lie one behind the other, and the header points at them.   *)
SuperframeExact ==
    (cfg.fmt = "dab" /\ pc = "frame" /\ tp.block = 0 /\ tp.units # << >>) =>
        /\ tp.valid = SuperframeBits
        /\ Len(tp.units) = cfg.nSubFrames
        /\ \A i \in 1 .. Len(tp.units) - 1 : tp.units[i].to = tp.units[i + 1].from
        /\ tp.markers = [i \in 1 .. Len(tp.units) - 1 |-> tp.units[i + 1].from \div 8]

(* aacenc.cpp, "DAB+: tune per-AU bitrate/maxBits so all AUs fit the       *)
(* superframe data area".                                                  *)
SuperframeFits ==
    (cfg.fmt = "dab" /\ pc \in {"handout", "frame"}) => tp.valid <= SuperframeBits

(* The 13 bits of its length can say how long an ADTS frame is: always     *)
(* when it has one block.  Several (AACENC_TPSUBFRAMES, which the frontend  *)
(* never sets) have an equal share of them each, but header and PCE come    *)
(* on top.                                                                 *)
AdtsLengthFits == cfg.nSubFrames = 1 \/ tp.valid < 8 * 8192

(* The length a decoder finds its way by is the length of the frame. *)
FrameLengthFields ==
    (pc = "frame" /\ tp.block = 0 /\ tp.units # << >>) =>
        /\ cfg.fmt = "adts" /\ AdtsLengthFits => tp.length * 8 = tp.valid
        /\ cfg.fmt = "loas" => (tp.length + 3) * 8 = tp.valid

(* Someone who tunes in gets the configuration: no more than headerPeriod  *)
(* access units go by without a PCE and no more than headerPeriod frames   *)
(* without a mux configuration.                                            *)
ConfigRepeated ==
    cfg.headerPeriod > 0 =>
        /\ tp.sincePce <= cfg.headerPeriod
        /\ tp.sinceSmc <= cfg.headerPeriod

(* The quantisation loop ends, with a frame or with an error. *)
QuantizationEnds == pc = "quantize" ~> pc \notin {"quantize", "reduce"}

=============================================================================
