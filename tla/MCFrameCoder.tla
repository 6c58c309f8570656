---------------------------- MODULE MCFrameCoder ----------------------------
(***************************************************************************)
(* Encoder configurations for TLC.  The rates and frame lengths are real;  *)
(* the reservoir is kept small (--vbr-reservoir) so that every level of it *)
(* is reached, and the demands lie around the frame's average and limit.   *)
(***************************************************************************)
EXTENDS FrameCoder

(* The closed form counts what the loop writes, up to a whole buffer. *)
ASSUME FillElementsAgree == \A n \in 0 .. 6144 : FillElements(n) = FillLoop[n]

Base ==
    [fmt |-> "raw", crc |-> FALSE, er |-> FALSE, nSubFrames |-> 1,
     headerPeriod |-> 0, pceBits |-> 0, smcBits |-> 0, subch |-> 0, dabPad |-> FALSE,
     mode |-> "cbr", unlock |-> FALSE, bitRate |-> 64000, sampleRate |-> 48000,
     frameLength |-> 1024, channels |-> 1, lowDelay |-> FALSE, ldReservoir |-> 496,
     bitresMode |-> "default", reservoir |-> 64, capBits |-> -1,
     maxIterations |-> 5,
     sides |-> {[static |-> 20, least |-> 20, ext |-> 3],
                [static |-> 61, least |-> 20, ext |-> 27]},
     demands |-> {0, 1240, 1300, 1337, 1500}]

(* A rate that needs a padding byte in two frames of three. *)
RawCbr == Base

RawVbr == [Base EXCEPT !.mode = "vbr", !.reservoir = 0, !.demands = {0, 1300, 6100}]

(* The same, budgeted by the average (--bitres-mode). *)
RawVbrReduced == [RawVbr EXCEPT !.bitresMode = "reduced", !.demands = {0, 1300, 3000, 6100}]

(* AAC-LD with the reservoir its bit rate gives it, and few iterations. *)
LowDelay ==
    [Base EXCEPT !.er = TRUE, !.lowDelay = TRUE, !.bitRate = 12000, !.frameLength = 512,
                 !.reservoir = 0, !.maxIterations = 2, !.demands = {0, 90, 130, 600}]

(* Room between the two thresholds of a full reservoir (--max-bits-frame). *)
LowDelayVbr == [LowDelay EXCEPT !.mode = "vbr", !.capBits = 600]

(* A budget below the side information. *)
RawUnlocked ==
    [Base EXCEPT !.unlock = TRUE, !.bitRate = 8000, !.reservoir = 96,
                 !.sides = {[static |-> 61, least |-> 20, ext |-> 190],
                            [static |-> 20, least |-> 20, ext |-> 3]},
                 !.demands = {0, 90, 150}]

(* The same without the switch: the encoder refuses. *)
RawTooLow == [RawUnlocked EXCEPT !.unlock = FALSE]

AdtsPce ==
    [Base EXCEPT !.fmt = "adts", !.crc = TRUE, !.headerPeriod = 2, !.pceBits = 56,
                 !.reservoir = 32, !.demands = {0, 1200, 1337}]

(* Two raw data blocks in a frame (AACENC_TPSUBFRAMES). *)
AdtsBlocks ==
    [AdtsPce EXCEPT !.nSubFrames = 2, !.headerPeriod = 3, !.capBits = (8 * 8191) \div 2]

(* Access units around 255 bytes, where the length takes another byte. *)
Loas ==
    [Base EXCEPT !.fmt = "loas", !.bitRate = 96000, !.headerPeriod = 3,
                 !.smcBits = 45, !.reservoir = 32, !.demands = {0, 1890, 1930, 1990}]

LatmBlocks == [Loas EXCEPT !.fmt = "mcp1", !.er = TRUE, !.nSubFrames = 2, !.headerPeriod = 2,
                           !.maxIterations = 2]

LatmOutOfBand ==
    [Loas EXCEPT !.fmt = "mcp0", !.bitRate = 95000, !.demands = {0, 1900, 1990, 2010}]

(* HE-AAC at 24 kbps: three access units of 960 in three subchannel units. *)
DabHe ==
    [Base EXCEPT !.fmt = "dab", !.nSubFrames = 3, !.subch = 3,
                 !.bitRate = 21200, !.sampleRate = 24000, !.frameLength = 960,
                 !.capBits = 855, !.reservoir = 0,
                 !.sides = {[static |-> 20, least |-> 20, ext |-> 3],
                            [static |-> 61, least |-> 20, ext |-> 203]},
                 !.demands = {0, 500, 700, 790}]

(* HE-AAC v2 at 8 kbps: one subchannel unit; frames whose SBR and PS data *)
(* alone are about a third of the superframe.                             *)
DabLow ==
    [DabHe EXCEPT !.subch = 1, !.bitRate = 6533, !.capBits = 268,
                  !.sides = {[static |-> 20, least |-> 20, ext |-> 43],
                             [static |-> 20, least |-> 20, ext |-> 243]},
                  !.demands = {0, 100, 140}]

LowRate == {DabLow}

MCConfigurations ==
    {RawCbr, RawVbr, RawUnlocked, RawTooLow, AdtsPce, AdtsBlocks, Loas, LatmBlocks,
     LatmOutOfBand, DabHe, RawVbrReduced, LowDelay, LowDelayVbr}

=============================================================================
