----------------------------- MODULE SbrGridBits -----------------------------
(***************************************************************************)
(* sbr_grid() in the bitstream: the fields encodeSbrGrid() and             *)
(* encodeLowDelaySbrGrid() write, and the FRAME_INFO the decoder of this   *)
(* repository makes of them (extractFrameInfo(), extractLowDelayGrid()) or *)
(* refuses (checkFrameInfo()).                                             *)
(*                                                                         *)
(* A field is as wide as the code writes it: what does not fit is lost.    *)
(***************************************************************************)
EXTENDS FrameGen

Bits(value, width) == value % 2 ^ width

CeilLog2(n) == CHOOSE k \in 0 .. n : 2 ^ k >= n /\ (k = 0 \/ 2 ^ (k - 1) < n)

(* A distance is written in steps of two slots. *)
RelBits(rel) == [k \in 1 .. Len(rel) |-> Bits((rel[k] - 2) \div 2, 2)]

PointerWidth(n) == CeilLog2(n + 2)

(* The fields of one grid; `count' are the bits that say how many          *)
(* distances there are on each side: what follows is not read right when   *)
(* they lose some, and counts as rejected.                                 *)
EncodeSbrGrid(slots, g) ==
    LET n == Len(g.relLeft) + Len(g.relRight)
    IN  [class    |-> g.class,
         numBits  |-> IF g.class = "FIXFIX" THEN Bits(CeilLog2(g.num), 2) ELSE 0,
         tranPos  |-> Bits(g.tranPos, 4),
         left     |-> Bits(g.left, 2),
         right    |-> Bits(g.right - slots, 2),
         count    |-> <<Bits(Len(g.relLeft), 2), Bits(Len(g.relRight), 2)>>,
         relLeft  |-> RelBits(g.relLeft),
         relRight |-> RelBits(g.relRight),
         p        |-> Bits(g.p, PointerWidth(n)),
         freq     |-> IF g.class = "FIXFIX" THEN <<g.freq[1]>> ELSE g.freq]

-----------------------------------------------------------------------------

(* The decoder's own MAX_ENVELOPES, that of USAC. *)
MaxEnvelopesDecoder == 8

Rejected == [valid |-> FALSE, borders |-> <<>>, freqRes |-> <<>>,
             tranEnv |-> -1, noise |-> <<>>]

(* R -> r *)
Distances(rel) == [k \in 1 .. Len(rel) |-> 2 * rel[k] + 2]

(* The decoder's tables are those of the encoder, and one for the eight    *)
(* envelopes that the encoder never lays.                                  *)
ExtractFixFix(slots, b) ==
    LET num == 2 ^ b.numBits
        def == CreateDefFrameInfo(slots, num)
    IN  [valid |-> TRUE, borders |-> def.borders,
         freqRes |-> [k \in 1 .. num |-> b.freq[1]], tranEnv |-> -1,
         noise |-> def.noise]

ExtractLowDelayGrid(slots, b) ==
    LET borders == <<0>> \o EnvelopeTable(slots, b.tranPos) \o <<slots>>
    IN  [valid |-> b.tranPos < slots, borders |-> borders,
         freqRes |-> SubSeq(b.freq, 1, Len(borders) - 1),
         tranEnv |-> IF b.tranPos < 2 THEN 0 ELSE 1,
         noise |-> <<0, borders[2], slots>>]

ExtractVariable(slots, b) ==
    LET left == IF b.class = "FIXVAR" THEN <<0>> ELSE After(b.left, Distances(b.relLeft))
        right == IF b.class = "VARFIX" THEN <<slots>>
                 ELSE Before(b.right + slots, Distances(b.relRight))
        borders == left \o right
        n == Len(borders) - 2
        tranEnv == CASE b.p = 0 \/ (b.class = "VARFIX" /\ b.p = 1) -> -1
                     [] b.class = "VARFIX" /\ b.p > 1 -> b.p - 1
                     [] OTHER              -> n + 2 - b.p
        middle == CASE b.class = "VARFIX" /\ b.p = 0 -> 1
                    [] b.p = 1 \/ (b.p = 0 /\ b.class # "VARFIX") -> n
                    [] OTHER                         -> tranEnv
        ends == <<borders[1], borders[n + 2]>>
    IN  [valid   |-> /\ b.p <= n + 1 /\ n + 1 <= MaxEnvelopesDecoder
                    /\ b.count = <<Len(b.relLeft), Len(b.relRight)>>,
         borders |-> borders,
         freqRes |-> IF b.class = "FIXVAR" THEN Reverse(b.freq) ELSE b.freq,
         tranEnv |-> tranEnv,
         noise   |-> IF n = 0 THEN ends
                     ELSE <<ends[1], borders[middle + 1], ends[2]>>]

Extract(slots, b) ==
    CASE b.class = "FIXFIX"     -> ExtractFixFix(slots, b)
      [] b.class = "FIXFIXonly" -> ExtractLowDelayGrid(slots, b)
      [] OTHER                  -> ExtractVariable(slots, b)

Ascending(s) == \A k \in 1 .. Len(s) - 1 : s[k] < s[k + 1]

(* checkFrameInfo(): a frame may start at most `overlap' slots late and    *)
(* end as much late, in order, its noise floors at its envelopes.          *)
CheckFrameInfo(slots, overlap, info) ==
    LET first == info.borders[1]
        stop == Last(info.borders)
    IN  /\ Len(info.freqRes) \in 1 .. MaxEnvelopesDecoder
        /\ first \in 0 .. overlap /\ stop \in slots .. slots + overlap
        /\ Ascending(info.borders)
        /\ info.tranEnv <= Len(info.freqRes)
        /\ <<first, stop>> = <<info.noise[1], Last(info.noise)>>
        /\ Ascending(info.noise)
        /\ \A k \in 1 .. Len(info.noise) - 1 :
              info.noise[k] \in {info.borders[j] : j \in 1 .. Len(info.borders) - 1}

(* SBR slots in the decoder's overlap buffer: none in low delay. *)
Overlap(lowDelay) == IF lowDelay THEN 0 ELSE 3

ExtractFrameInfo(slots, lowDelay, b) ==
    LET info == Extract(slots, b)
    IN  IF info.valid /\ CheckFrameInfo(slots, Overlap(lowDelay), info)
        THEN info ELSE Rejected

=============================================================================
