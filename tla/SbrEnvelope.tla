----------------------------- MODULE SbrEnvelope -----------------------------
(***************************************************************************)
(* The time/frequency grids of an SBR element, frame by frame:             *)
(* FDKsbrEnc_extractSbrEnvelope1() looks for transients in each channel,   *)
(* FDKsbrEnc_extractSbrEnvelope2() lays the grids and decides whether the  *)
(* pair may be coded as one, the grids are written, and the decoder of     *)
(* this repository reads them and joins them to what it had before.        *)
(*                                                                         *)
(* The energies are abstract: where a transient is found, whether a frame  *)
(* is split in two without one, and whether coupling takes fewer bits are  *)
(* choices.                                                                *)
(***************************************************************************)
EXTENDS SbrGridBits

CONSTANTS
    Configurations,         \* Encoder configurations (see ConfigType).
    SinglePositions,        \* Slots in which one channel's transient is found,
    PairPositions           \* and those used for a pair of channels.

ConfigType == [slots    : SlotCounts,
               lowDelay : BOOLEAN,
               static   : {0, 1, 2, 4},       \* numEnvStatic; 0: by transients
               stereo   : {"mono", "left_right", "coupling", "switch"},
               freqResFixFix : {<<r, s>> : r, s \in {FreqResLow, FreqResHigh}},
               transIsLow : BOOLEAN]

ASSUME SbrAssumption ==
    /\ Configurations \subseteq ConfigType
    /\ PairPositions \subseteq SinglePositions
    /\ SinglePositions \subseteq Nat

VARIABLES
    cfg,
    phase,          \* The step the frame is at.
    gen,            \* SBR_ENVELOPE_FRAME of each channel.
    tran,           \* transient_info of each channel,
    preTran,        \* and of the frame before: pre_transient_info.
    grid, info,     \* What the encoder laid for the frame.
    mode,           \* stereoMode after the grids were compared.
    bits,           \* The grids in the bitstream, and bs_coupling.
    decoded,        \* FRAME_INFO of each channel in the decoder.
    stop,           \* prevFrameData.stopPos of each channel.
    onsets          \* Transients not before this frame (history).

vars == <<cfg, phase, gen, tran, preTran, grid, info, mode, bits, decoded, stop, onsets>>

Channels == IF cfg.stereo = "mono" THEN {0} ELSE {0, 1}
NoTransient == [pos |-> 0, flag |-> FALSE, ahead |-> FALSE]
NoBits == [coupling |-> FALSE, grids |-> <<>>]

(* Between two frames nothing is kept of the grids themselves. *)
NoFrame ==
    /\ grid = <<>> /\ info = <<>> /\ decoded = <<>>
    /\ bits = NoBits /\ mode = "none"

Init ==
    /\ cfg \in Configurations
    /\ phase = "analyse"
    /\ gen = [ch \in Channels |-> InitGenerator]
    /\ tran = [ch \in Channels |-> NoTransient]
    /\ preTran = tran
    /\ stop = [ch \in Channels |-> cfg.slots]
    /\ onsets = [ch \in Channels |-> {}]
    /\ NoFrame

-----------------------------------------------------------------------------

Positions == {p \in IF cfg.stereo = "mono" THEN SinglePositions ELSE PairPositions :
                 p < cfg.slots}

(* What the detectors and the frame splitter leave in transient_info:      *)
(* without a transient the position says whether the frame is split.  The  *)
(* detector of low delay also looks ahead.                                 *)
TransientInfo ==
    {[pos |-> p, flag |-> TRUE, ahead |-> a] : p \in Positions, a \in {FALSE, cfg.lowDelay}}
      \cup
    {[pos |-> p, flag |-> FALSE, ahead |-> a] : p \in {0, 1}, a \in {FALSE, cfg.lowDelay}}

(* The slot of the frame in which the transient lies. *)
Onset(t) == IF cfg.lowDelay THEN t.pos ELSE t.pos + 4

(* FDKsbrEnc_extractSbrEnvelope1() *)
Analyse ==
    /\ phase = "analyse"
    /\ tran' \in [Channels -> TransientInfo]
    /\ onsets' = [ch \in Channels |->
                    {o - cfg.slots : o \in {q \in onsets[ch] : q >= cfg.slots}}
                      \cup (IF tran'[ch].flag THEN {Onset(tran'[ch])} ELSE {})]
    /\ grid' = <<>> /\ info' = <<>> /\ decoded' = <<>>
    /\ bits' = NoBits /\ mode' = "none"
    /\ phase' = "grid"
    /\ UNCHANGED <<cfg, gen, preTran, stop>>

(* In a pair that is always coupled both channels have the position of     *)
(* the earlier transient, but each keeps its own flag.                     *)
CoupledPosition ==
    IF tran[0].flag = tran[1].flag
    THEN IF tran[0].flag THEN Min({tran[0].pos, tran[1].pos})
                         ELSE Max({tran[0].pos, tran[1].pos})
    ELSE IF tran[0].flag THEN tran[0].pos ELSE tran[1].pos

Transient(ch) ==
    IF cfg.stereo = "coupling" THEN [tran[ch] EXCEPT !.pos = CoupledPosition] ELSE tran[ch]

(* Low delay: a transient at the start of the next frame shortens the last *)
(* envelope of this one.                                                   *)
ShortenBeforeNext(i, t) ==
    IF cfg.lowDelay /\ t.ahead THEN [i EXCEPT !.shortEnv = Len(i.freqRes)] ELSE i

(* Mutant: only the number of envelopes and the borders are compared. *)
SameGridBordersOnly(a, b) == a.borders = b.borders

SameGrid(a, b) ==
    /\ a.borders = b.borders
    /\ a.freqRes = b.freqRes
    /\ a.shortEnv = b.shortEnv

(* FDKsbrEnc_extractSbrEnvelope2(), as far as the grids are concerned *)
Lay ==
    /\ phase = "grid"
    /\ LET made == [ch \in Channels |->
                      FrameInfoGenerator(cfg, gen[ch], Transient(ch), preTran[ch])]
           Own(ch) == IF cfg.stereo = "coupling" THEN 0 ELSE ch
           laid == [ch \in Channels |->
                      ShortenBeforeNext(made[Own(ch)].info, Transient(Own(ch)))]
       IN  /\ gen' = [ch \in Channels |->
                        IF Own(ch) = ch THEN made[ch].gen ELSE gen[ch]]
           /\ grid' = [ch \in Channels |-> made[Own(ch)].grid]
           /\ info' = laid
           /\ mode' = IF cfg.stereo \in {"left_right", "switch"} /\ ~SameGrid(laid[0], laid[1])
                      THEN "left_right" ELSE cfg.stereo
    /\ preTran' = [ch \in Channels |-> Transient(ch)]
    /\ phase' = "write"
    /\ UNCHANGED <<cfg, tran, bits, decoded, stop, onsets>>

(* The pair that may be coupled is when that takes fewer bits (in low      *)
(* delay only with the same amplitude resolution).                         *)
MayCouple == CASE mode = "switch"   -> {FALSE, TRUE}
               [] mode = "coupling" -> {TRUE}
               [] OTHER             -> {FALSE}

(* encodeSbrSingleChannelElement(), encodeSbrChannelPairElement() *)
Write ==
    /\ phase = "write"
    /\ \E coupling \in MayCouple :
          LET sent == IF coupling THEN {0} ELSE Channels
          IN  bits' = [coupling |-> coupling,
                       grids    |-> [ch \in sent |-> EncodeSbrGrid(cfg.slots, grid[ch])]]
    /\ phase' = "read"
    /\ UNCHANGED <<cfg, gen, tran, preTran, grid, info, mode, decoded, stop, onsets>>

(* leanSbrConcealment(): one envelope from where the last frame stopped. *)
Concealment(from) ==
    [Rejected EXCEPT !.borders = <<Max({0, from}), cfg.slots>>,
                     !.freqRes = <<FreqResHigh>>,
                     !.noise = <<Max({0, from}), cfg.slots>>]

(* sbrGetChannelPairElement(), then decodeEnvelope(): a frame that is      *)
(* rejected, or that does not start where the last one stopped, is         *)
(* concealed.                                                              *)
Read ==
    /\ phase = "read"
    /\ LET Sent(ch) == bits.grids[IF bits.coupling THEN 0 ELSE ch]
           Joined(ch) ==
               LET i == ExtractFrameInfo(cfg.slots, cfg.lowDelay, Sent(ch))
                   from == stop[ch] - cfg.slots
               IN  IF i.valid /\ i.borders[1] = from THEN i ELSE Concealment(from)
           read == [ch \in Channels |-> Joined(ch)]
       IN  /\ decoded' = read
           /\ stop' = [ch \in Channels |-> Last(read[ch].borders)]
    /\ phase' = "analyse"
    /\ UNCHANGED <<cfg, gen, tran, preTran, grid, info, mode, bits, onsets>>

Next == Analyse \/ Lay \/ Write \/ Read

Spec == Init /\ [][Next]_vars

-----------------------------------------------------------------------------

FrameInfoType(i, envelopes) ==
    /\ Len(i.freqRes) \in 1 .. envelopes
    /\ Len(i.borders) = Len(i.freqRes) + 1
    /\ i.shortEnv \in 0 .. Len(i.freqRes)
    /\ Len(i.noise) \in 2 .. 3

GridType(g) ==
    /\ g.class \in FrameClasses
    /\ Len(g.relLeft) <= MaxNumRel /\ Len(g.relRight) <= MaxNumRel
    /\ g.class \in {"FIXVAR", "VARFIX"} => Len(g.freq) <= MaxEnvelopesFixVar

(* The state is of its type, and every grid and follow-up fits the arrays  *)
(* of the code: bs_rel_bord[3], v_f[4], v_fLR[5], borders[6],              *)
(* v_bordFollow[5]; the follow-up has a border to start the next frame at  *)
(* and starts within the overlap (fram_gen.h).                             *)
TypeOK ==
    /\ cfg \in Configurations
    /\ phase \in {"analyse", "grid", "write", "read"}
    /\ tran \in [Channels -> TransientInfo] \/ tran = [ch \in Channels |-> NoTransient]
    /\ \A ch \in Channels :
          /\ gen[ch].old \in FrameClasses
          /\ Len(gen[ch].follow.bord) <= MaxEnvelopes
          /\ gen[ch].old \in {"FIXVAR", "VARVAR"} =>
                Len(gen[ch].follow.bord) > 0 /\ gen[ch].follow.bord[1] \in 0 .. 3
          /\ stop[ch] \in cfg.slots .. cfg.slots + Overlap(cfg.lowDelay)
    /\ \A ch \in DOMAIN grid :
          GridType(grid[ch]) /\ FrameInfoType(info[ch], MaxEnvelopes)

(* The decoder never has to conceal what the encoder wrote: every grid is  *)
(* accepted and starts in the slot in which the last one stopped, whatever *)
(* sequence of transients, classes and couplings led to it                 *)
(* (checkFrameInfo(), decodeEnvelope()).                                   *)
NothingConcealed == \A ch \in DOMAIN decoded : decoded[ch].valid

(* What a decoded grid has in common with the one the channel's energies   *)
(* were measured in.                                                       *)
ReadRight(laid, read) ==
    /\ read.borders = laid.borders
    /\ read.freqRes = laid.freqRes
    /\ \/ laid.shortEnv = Max({read.tranEnv, 0})
       \/ cfg.lowDelay /\ laid.shortEnv = Len(laid.freqRes)

(* Frames of 960 samples have segments of odd length, which do not fit     *)
(* sbr_grid(): see DecoderReadsGrid960.                                    *)
OddSegments(ch) == cfg.slots = 15 /\ grid[ch].class \in {"FIXVAR", "VARFIX", "VARVAR"}

(* The decoder applies each envelope where the encoder measured it: the    *)
(* borders, resolutions and the transient envelope it reads for a channel  *)
(* are those of the channel's SBR_FRAME_INFO, also when a pair is coupled  *)
(* and only the left grid is sent (ctrlSignal2FrameInfo(),                 *)
(* encodeSbrGrid(), extractFrameInfo()).                                   *)
DecoderReadsGrid ==
    \A ch \in DOMAIN decoded :
        /\ ~OddSegments(ch) => ReadRight(info[ch], decoded[ch])
        /\ ~OddSegments(ch) /\ ~bits.coupling => decoded[ch].noise = info[ch].noise
        /\ decoded[ch].freqRes = info[ch].freqRes

(* The same without the exception: ctrlSignal2FrameInfo() calls itself     *)
(* "basically the bitstream decoder" (fram_gen.cpp).                       *)
DecoderReadsGrid960 == \A ch \in DOMAIN decoded : ReadRight(info[ch], decoded[ch])

(* Every transient is framed: its onset is a border of the frame that      *)
(* spans it.  Only where transients of consecutive frames compete for      *)
(* borders (VARVAR) may it be moved, by less than dmin slots; a border     *)
(* planned for it in the frame before is not lost otherwise.  Not so for   *)
(* static framing and for a pair that is always coupled, where the grid is *)
(* made for the left channel's transients alone, nor for a transient in    *)
(* the first slots of low delay, whose envelope starts with the frame      *)
(* (FDKsbrEnc_frameInfoGenerator()).                                       *)
OnsetIsBorder ==
    cfg.static = 0 /\ cfg.stereo # "coupling" =>
        \A ch \in DOMAIN info : \A o \in onsets[ch] :
            info[ch].borders[1] <= o /\ o < Last(info[ch].borders) =>
                \E k \in 1 .. Len(info[ch].borders) :
                    LET moved == info[ch].borders[k] - o
                    IN  CASE grid[ch].class = "VARVAR" -> moved \in -(DMin - 1) .. DMin - 1
                          [] cfg.lowDelay /\ o < 2    -> k = 1
                          [] OTHER                    -> moved = 0

=============================================================================
