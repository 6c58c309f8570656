------------------------------- MODULE IcsInfo -------------------------------
(***************************************************************************)
(* ics_info(), the part of a channel's bitstream that says how its block   *)
(* is windowed: what the encoder writes (psy_main.cpp, bitenc.cpp) and     *)
(* what the decoder of this repository reads (channelinfo.cpp, block.cpp). *)
(***************************************************************************)
EXTENDS Integers, Sequences

TransFac == 8      \* Short windows in a frame.
MaxNoOfGroups == 4

Long == "long"
Start == "start"
Short == "short"
Stop == "stop"
LowOv == "lowov"
WrongWindow == "wrong"

CodedSequences == {Long, Start, Short, Stop}
Shapes == {"sine", "kbd", "lol", "wrong"}

(* The order of the enumerations is the order of the two bits on the wire. *)
BlockType == [s \in CodedSequences |->
                CASE s = Long -> 0 [] s = Start -> 1 [] s = Short -> 2 [] s = Stop -> 3]

-----------------------------------------------------------------------------

(* One bit per window: is it joined to the window before it?  The bit of   *)
(* the first window is 0 and falls off when 7 bits are written.            *)
GroupingMask(groups) ==
    LET mask[k \in 0 .. Len(groups)] ==
          IF k = 0 THEN 0
          ELSE IF groups[k] = 0 THEN 2 * mask[k - 1]
          ELSE mask[k - 1] * 2 ^ groups[k] + 2 ^ (groups[k] - 1) - 1
    IN  mask[Len(groups)]

(* FDKaacEnc_encodeIcsInfo() *)
EncodeIcsInfo(out) ==
    [type     |-> BlockType[out.lastWindowSequence],
     shape    |-> IF out.windowShape \in {"kbd", "lol"} THEN 1 ELSE 0,
     grouping |-> IF out.lastWindowSequence = Short
                  THEN out.groupingMask % 2 ^ (TransFac - 1) ELSE 0]

(* The groups the decoder derives from the 7 bits, one for each window     *)
(* but the first: it joins the last group, or opens a new one.             *)
ReadGroups(grouping) ==
    LET len[w \in 0 .. TransFac - 1] ==
          IF w = 0 THEN <<1>>
          ELSE IF (grouping \div 2 ^ (TransFac - 1 - w)) % 2 = 1
          THEN [len[w - 1] EXCEPT ![Len(len[w - 1])] = @ + 1]
          ELSE Append(len[w - 1], 1)
    IN  len[TransFac - 1]

(* IcsRead(): a low-delay stream must not signal anything but long blocks. *)
IcsRead(bits, lowDelay) ==
    LET seq == CHOOSE s \in CodedSequences : BlockType[s] = bits.type
        one == IF lowDelay THEN "lol" ELSE "kbd"
    IN  [valid  |-> lowDelay => seq = Long,
         seq    |-> seq,
         shape  |-> IF bits.shape = 1 THEN one ELSE "sine",
         groups |-> IF seq = Short THEN ReadGroups(bits.grouping) ELSE <<1>>]

(* The left slope CBlock_FrequencyToTime() gives to a block. *)
DecodedLeftSlope(seq, frameLength) ==
    IF seq \in {Long, Start} THEN frameLength ELSE frameLength \div TransFac

=============================================================================
