-------------------------------- MODULE TpEnc --------------------------------
(***************************************************************************)
(* The transport encoder of src/src-fdk-aac/libMpegTPEnc: the bits each    *)
(* format puts around an access unit, the counters that decide when a      *)
(* configuration is repeated, and the frame handed out when its sub-frames *)
(* are complete.  Bits are counted, not written.                           *)
(*                                                                         *)
(* The encoder asks for the static bits (transportEnc_GetStaticBits())     *)
(* before it codes a frame and checks after writing that it got exactly    *)
(* those: both sides read the same counters, and the access unit moves     *)
(* them.                                                                   *)
(***************************************************************************)
EXTENDS Integers, Sequences

CONSTANT Configurations   \* Encoder configurations (see TpConfigOK).

Formats == {"raw", "adts", "loas", "mcp1", "mcp0", "dab"}

(* What the transport encoder is told by transportEnc_Init(). *)
TpConfigOK(c) ==
    /\ c.fmt \in Formats
    /\ c.crc \in BOOLEAN                       \* CC_PROTECTION
    /\ c.er \in BOOLEAN                        \* error resilient syntax
    /\ c.nSubFrames \in 1 .. 6
    /\ c.headerPeriod \in Nat
    \* 0: no PCE in raw_data_block; MODE_7_1_TOP_FRONT has the longest.
    /\ c.pceBits \in 0 .. 96 /\ c.pceBits % 8 = 0
    /\ c.smcBits \in Nat                       \* streamMuxConfigBits
    /\ c.subch \in Nat                         \* DAB+: bitRate / 8000
    /\ c.dabPad \in BOOLEAN                    \* dac_rate == 0 || sbr_flag == 0
    /\ c.fmt = "adts" => ~c.er /\ c.nSubFrames <= 4     \* adtsWrite_Init()
    /\ c.fmt = "dab" => /\ ~c.er
                        /\ c.nSubFrames \in {2, 3, 4, 6}   \* Of 120 ms.
                        /\ c.dabPad <=> c.nSubFrames # 3

VARIABLES
    cfg,
    tp          \* struct TRANSPORTENC and its writer.

TpState == [block      : Nat,   \* currentBlock, subFrameCnt, curSubFrame
            latmFrame  : Nat,   \* latmFrameCounter
            pceCount   : Int,   \* pceFrameCounter
            fillBits   : Nat,   \* LATM: computed with the header
            start      : Nat,   \* subFrameStartBit, latmSubframeStart, prevBits
            valid      : Nat,   \* FDKgetValidBits()
            length     : Int,   \* The length field of the frame, in bytes.
            units      : Seq([from : Nat, to : Nat]),  \* (history) in the buffer
            markers    : Seq(Nat),                     \* DAB+: au_start
            sincePce   : Nat,   \* Access units since the last PCE (history).
            sinceSmc   : Nat]   \* Frames since the last config (history).

IsLatm == cfg.fmt \in {"loas", "mcp1", "mcp0"}
AlignUp(bits) == ((bits + 7) \div 8) * 8
AlignDown(bits) == (bits \div 8) * 8

(* getPceRepetitionRate() and the writers' Init functions *)
TpInit ==
    [block |-> 0, latmFrame |-> 0,
     pceCount |-> IF cfg.pceBits > 0 /\ cfg.headerPeriod > 0 THEN cfg.headerPeriod ELSE -1,
     fillBits |-> 0, start |-> 0, valid |-> 0, length |-> 0,
     units |-> << >>, markers |-> << >>,
     sincePce |-> 0, sinceSmc |-> 0]

-----------------------------------------------------------------------------
(* Fill elements *)

(* Bits of the fill elements written when n bits are to be filled, as the  *)
(* loop writes them: fewer than seven bits are too few for an element, the *)
(* payload of one is whole bytes, at most 269, and from 15 bytes on its    *)
(* count takes 8 bits more.                                                *)
FillLoop[n \in Nat] ==
    IF n < 7 THEN 0
    ELSE LET header == IF n < 7 + 15 * 8 THEN 7 ELSE 15
             bytes  == (n - header) \div 8
             used   == header + 8 * (IF bytes > 269 THEN 269 ELSE bytes)
         IN  used + FillLoop[n - used]

MaxFillElement == 15 + 8 * 269

(* The same without the loop: bits that are left over. *)
FillLeft(n) ==
    LET last == n % MaxFillElement
    IN  IF last < 7 THEN last ELSE IF last % 8 = 6 THEN 0 ELSE (last + 1) % 8

FillElements(n) == n - FillLeft(n)

(* Error resilient syntax has no element around the payload. *)
FillData(n) == IF cfg.er THEN AlignDown(n) ELSE FillElements(n)

-----------------------------------------------------------------------------
(* Static bits *)

(* A program config element opens the raw_data_block. *)
PceDue(t) == t.pceCount >= cfg.headerPeriod
PceBits(t) == IF PceDue(t) /\ cfg.pceBits > 0 THEN cfg.pceBits ELSE 0

(* insertSetupData, insertMuxSetup *)
SmcDue(t) == cfg.fmt # "mcp0" /\ cfg.headerPeriod > 0 /\ t.latmFrame = 0

(* Bits before the payload length of the first sub-frame of a LATM frame. *)
LatmFixedBits(t) ==
    IF t.block # 0 THEN 0
    ELSE (IF cfg.fmt = "loas" THEN 24 ELSE 0)
         + (IF cfg.fmt = "mcp0" THEN 0 ELSE 1 + (IF SmcDue(t) THEN cfg.smcBits ELSE 0))

LatmFillBits(t) ==
    IF t.block # 0 THEN t.fillBits
    ELSE AlignUp(LatmFixedBits(t)) - LatmFixedBits(t)

(* WriteAuPayloadLengthInfo(): one byte per 255 bytes, and the rest. *)
LatmLengthBits(auBits) == 8 * (1 + auBits \div (255 * 8))

(* Mutant: only the first raw data block has a CRC of its own. *)
AdtsHeaderBitsOneCrc(t) ==
    IF t.block # 0 THEN 0
    ELSE 56 + (IF cfg.crc THEN 16 * cfg.nSubFrames ELSE 0)
         + (IF cfg.crc /\ cfg.nSubFrames > 1 THEN 16 ELSE 0)

AdtsHeaderBits(t) ==
    (IF t.block # 0 THEN 0
     ELSE 56 + (IF cfg.crc THEN 16 + 16 * (cfg.nSubFrames - 1) ELSE 0))
    + (IF cfg.crc /\ cfg.nSubFrames > 1 THEN 16 ELSE 0)

(* The CRC after each access unit is counted as header. *)
DabHeaderBits(t) ==
    (IF t.block # 0 THEN 0
     ELSE 24 + 12 * (cfg.nSubFrames - 1) + (IF cfg.dabPad THEN 4 ELSE 0))
    + 16

(* transportEnc_GetStaticBits *)
StaticBits(t, auBits) ==
    LET au == auBits + PceBits(t)
    IN  PceBits(t)
        + CASE cfg.fmt = "raw"  -> 0
            [] cfg.fmt = "adts" -> AdtsHeaderBits(t)
            [] cfg.fmt = "dab"  -> DabHeaderBits(t)
            [] OTHER            -> AlignUp(LatmFixedBits(t))
                                   + (IF au > 0 THEN LatmLengthBits(au) ELSE 0)

-----------------------------------------------------------------------------
(* An access unit *)

(* What an ADTS decoder reads of a length in bits: 13 bits of bytes. *)
AdtsLength(bits) == (bits \div 8) % 8192

(* The bit a sub-frame starts at: a new frame starts in an empty buffer. *)
SubFrameStart(t) ==
    IF t.block = 0 \/ (cfg.fmt = "raw" /\ t.block >= cfg.nSubFrames) THEN 0 ELSE t.valid

(* Bits written in front of the access unit, behind `from`. *)
FrontBits(t, au) ==
    CASE cfg.fmt = "raw"  -> 0
      [] cfg.fmt = "adts" ->
            IF t.block # 0 THEN 0
            ELSE 56 + (IF cfg.crc THEN 16 + 16 * (cfg.nSubFrames - 1) ELSE 0)
      [] cfg.fmt = "dab"  ->
            IF t.block # 0 THEN 0
            ELSE 24 + 12 * (cfg.nSubFrames - 1) + (IF cfg.dabPad THEN 4 ELSE 0)
      [] OTHER            ->
            \* A length that is not whole bytes is an error nobody looks at.
            LatmFixedBits(t) + (IF au % 8 = 0 THEN LatmLengthBits(au) ELSE 0)

(* The counter restarts with the PCE and counts this access unit. *)
NextPceCount(t) ==
    IF t.pceCount = -1 THEN -1 ELSE 1 + (IF PceDue(t) THEN 0 ELSE t.pceCount)

(* transportEnc_WriteAccessUnit(): everything in front of the elements. *)
WriteAccessUnit(t, frameUsedBits) ==
    LET au   == frameUsedBits + PceBits(t)
        from == SubFrameStart(t)
    IN  [t EXCEPT
            !.block    = IF cfg.fmt = "raw" /\ @ >= cfg.nSubFrames THEN 0 ELSE @,
            !.start    = IF cfg.fmt = "dab" THEN from + FrontBits(t, au) ELSE from,
            !.valid    = from + FrontBits(t, au) + PceBits(t),
            !.length   = IF cfg.fmt = "adts" /\ t.block = 0
                         THEN AdtsLength(au + AdtsHeaderBits(t)) ELSE @,
            !.units    = (IF from = 0 THEN << >> ELSE @)
                         \o <<[from |-> from + FrontBits(t, au), to |-> 0]>>,
            !.markers  = IF from = 0 THEN << >> ELSE @,
            !.pceCount = NextPceCount(t),
            !.sincePce = IF PceBits(t) > 0 THEN 1 ELSE IF cfg.pceBits > 0 THEN @ + 1 ELSE 0,
            !.sinceSmc = IF ~IsLatm \/ cfg.fmt = "mcp0" \/ t.block # 0 THEN @
                         ELSE IF SmcDue(t) THEN 1 ELSE @ + 1]

LastBlock(t) == t.block = cfg.nSubFrames - 1
SuperframeBits == 110 * 8 * cfg.subch

(* Where dabWrite_EndRawDataBlock() puts the CRC: after ID_END and the     *)
(* alignment; the last access unit is filled first, up to the last CRC.    *)
DabUnitEnd(t) ==
    LET room == SuperframeBits - 16 - 3 - t.valid
    IN  AlignUp(t.valid + 3 + IF LastBlock(t) /\ room > 0 THEN FillElements(room) ELSE 0)

(* What it adds to the bits of the access unit: the fill is not counted. *)
DabUnitBits(t) ==
    (IF t.block = 0 THEN DabHeaderBits(t) ELSE 16)
    + 3 + (AlignUp(t.valid + 3) - (t.valid + 3))

(* Mutant: the marker of an access unit is that of the one before it. *)
DabMarkersLate(t) ==
    IF t.block > 0 THEN Append(t.markers, t.units[t.block].from \div 8) ELSE t.markers

(* au_start[block], written for all but the first access unit. *)
DabMarkers(t) ==
    IF t.block > 0 THEN Append(t.markers, t.start \div 8) ELSE t.markers

(* Mutant: the length written with the first block is left as it is. *)
EndAccessUnitKeepsLength(t) ==
    LET end == IF cfg.fmt = "dab" THEN DabUnitEnd(t) ELSE t.valid
        crc == IF cfg.fmt = "dab" \/ (cfg.fmt = "adts" /\ cfg.crc /\ cfg.nSubFrames > 1)
               THEN 16 ELSE 0
    IN  [t EXCEPT
            !.valid   = end + crc,
            !.units[Len(t.units)].to = end + crc,
            !.markers = IF cfg.fmt = "dab" THEN DabMarkers(t) ELSE @,
            !.block   = IF cfg.fmt \in {"adts", "dab"} THEN @ + 1 ELSE @]

(* transportEnc_EndAccessUnit(): the state after it ... *)
EndAccessUnit(t) ==
    LET end == IF cfg.fmt = "dab" THEN DabUnitEnd(t) ELSE t.valid
        crc == IF cfg.fmt = "dab" \/ (cfg.fmt = "adts" /\ cfg.crc /\ cfg.nSubFrames > 1)
               THEN 16 ELSE 0
    IN  [t EXCEPT
            !.valid   = end + crc,
            !.units[Len(t.units)].to = end + crc,
            !.markers = IF cfg.fmt = "dab" THEN DabMarkers(t) ELSE @,
            !.length  = IF cfg.fmt = "adts" /\ cfg.nSubFrames > 1 /\ LastBlock(t)
                        THEN AdtsLength(end + crc) ELSE @,
            !.block   = IF cfg.fmt \in {"adts", "dab"} THEN @ + 1 ELSE @]

(* ... and the size of the access unit it reports to the encoder.  `valid` *)
(* are the bits in the buffer before it.                                   *)
AccessUnitBits(t) ==
    t.valid - t.start
    + CASE cfg.fmt = "dab"  -> DabUnitBits(t)
        [] cfg.fmt = "adts" -> IF cfg.crc /\ cfg.nSubFrames > 1 THEN 16 ELSE 0
        [] IsLatm           -> IF t.block = 0 THEN t.fillBits ELSE 0
        [] OTHER            -> 0

(* transportEnc_GetFrame(): the frame is complete after this sub-frame. *)
FrameComplete(t) ==
    CASE IsLatm           -> t.block + 1 >= cfg.nSubFrames
      [] cfg.fmt = "raw"  -> TRUE
      [] OTHER            -> t.block >= cfg.nSubFrames

(* A LOAS frame has a 13 bit length. *)
FrameTooLong(t) ==
    cfg.fmt = "loas" /\ FrameComplete(t) /\ (t.valid + 7) \div 8 - 3 >= 2 ^ 13

(* Mutant: the counter starts again one frame late. *)
NextLatmFrameLate(t) ==
    IF cfg.headerPeriod = 0 THEN t.latmFrame
    ELSE (t.latmFrame + 1) % (cfg.headerPeriod + 1)

(* latmFrameCounter *)
NextLatmFrame(t) ==
    IF cfg.headerPeriod = 0 THEN t.latmFrame ELSE (t.latmFrame + 1) % cfg.headerPeriod

GetFrame(t) ==
    IF cfg.fmt = "raw" \/ (IsLatm /\ ~FrameComplete(t)) THEN [t EXCEPT !.block = @ + 1]
    ELSE IF IsLatm
    THEN [t EXCEPT !.block     = 0,
                   !.length    = IF cfg.fmt = "loas" THEN (t.valid + 7) \div 8 - 3 ELSE 0,
                   !.valid     = @ + t.fillBits,
                   !.latmFrame = NextLatmFrame(t)]
    ELSE IF FrameComplete(t) THEN [t EXCEPT !.block = 0] ELSE t

=============================================================================
