----------------------------- MODULE BlockSwitch -----------------------------
(***************************************************************************)
(* Window switching of one channel element: FDKaacEnc_BlockSwitching() for *)
(* each channel, FDKaacEnc_SyncBlockSwitching() over the element, then the *)
(* filterbank and the output fields, as FDKaacEnc_psyMain() calls them for *)
(* every frame.                                                            *)
(*                                                                         *)
(* The detector sees the samples of the next block: an attack found now    *)
(* makes this block START and the next one SHORT.  Energies are abstract,  *)
(* so whether and where there is an attack is a choice; the Frankenstein   *)
(* options that override the choice, the grouping or the window shape are  *)
(* modelled.                                                               *)
(***************************************************************************)
EXTENDS IcsInfo

CONSTANTS
    Configurations, \* Encoder configurations (see ConfigType).
    AttackWindows,  \* Sub-windows in which an attack may be found.
    Energies,       \* Levels of the energy of the attack's window.
    FrameLength

ConfigType == [element     : {"single", "pair", "lfe"},
               lowDelay    : BOOLEAN,            \* AAC-LD: isLowDelay()
               blockBias   : {"detect", "never", "always"},
               shortGroups : 0 .. 3,
               windowShape : {"stock", "sine", "kbd"}]

ASSUME BlockAssumption ==
    /\ Configurations \subseteq ConfigType
    /\ AttackWindows \subseteq 0 .. TransFac - 1
    /\ {0, 3} \subseteq AttackWindows
    /\ Energies \subseteq Nat /\ 0 \in Energies
    /\ FrameLength \in Nat \ {0} /\ FrameLength % TransFac = 0

VARIABLES
    cfg,
    phase,              \* The call psyMain() makes next.
    (* BLOCK_SWITCHING_CONTROL of each channel *)
    lastWindowSequence, windowShape,
    attack, lastattack, attackIndex, lastAttackIndex,
    attackNrg,          \* windowNrg[1][attackIndex]; 0 without an attack.
    maxWindowNrg,
    groups,             \* groupLen[0 .. noOfGroups - 1]
    (* outside the control structure *)
    mdct,               \* mdctPers: slopes, length and right shape of the last block.
    psyOut              \* What the bitstream writer is given.

detectorVars == <<attack, lastattack, attackIndex, lastAttackIndex, attackNrg,
                  maxWindowNrg>>
vars == <<cfg, phase, lastWindowSequence, windowShape, detectorVars, groups,
          mdct, psyOut>>

Channels == IF cfg.element = "pair" THEN {0, 1} ELSE {0}
WindowSequences == {Long, Start, Short, Stop, LowOv}

-----------------------------------------------------------------------------

(* Mutant: the row of a past attack looks only at the new one. *)
NextLookAheadForgets(last, la, a) ==
    CASE last \in {Long, Stop} -> IF a THEN Start ELSE Long
      [] last = Start          -> IF a THEN Short ELSE Stop
      [] last = Short          -> IF a THEN Short ELSE Stop
      [] OTHER                 -> WrongWindow

(* Mutant: no start block between a long and a short one. *)
NextLookAheadNoStart(last, la, a) ==
    CASE last \in {Long, Stop} -> IF a THEN Short ELSE Long
      [] last = Short          -> IF la \/ a THEN Short ELSE Stop
      [] OTHER                 -> WrongWindow

(* chgWndSqLkAhd *)
NextLookAhead(last, la, a) ==
    CASE last \in {Long, Stop} -> IF a THEN Start ELSE Long
      [] last = Start          -> Short
      [] last = Short          -> IF la \/ a THEN Short ELSE Stop
      [] OTHER                 -> WrongWindow

(* chgWndSq *)
NextLowDelay(last, a) ==
    CASE last \in {Long, Stop}   -> IF a THEN Start ELSE Long
      [] last \in {Start, LowOv} -> IF a THEN LowOv ELSE Stop
      [] OTHER                   -> WrongWindow

(* synchronizedBlockTypeTable: a long block takes the other's type, start, *)
(* short and stop are reconciled by a short block.                         *)
Synchronized(p, q) ==
    CASE p = q    -> p
      [] p = Long -> q
      [] q = Long -> p
      [] {p, q} = {LowOv, Short} -> WrongWindow
      [] LowOv \in {p, q} /\ Short \notin {p, q} -> LowOv
      [] OTHER    -> Short

(* blockType2windowShape *)
StockShape(lowDelay, seq) ==
    CASE seq = Short -> IF lowDelay THEN "wrong" ELSE "sine"
      [] seq = LowOv -> IF lowDelay THEN "kbd" ELSE "wrong"
      [] seq = Start -> IF lowDelay THEN "kbd" ELSE "sine"
      [] OTHER       -> IF lowDelay THEN "sine" ELSE "kbd"

(* frWinShape() over the table: --window-shape holds for AAC-LC only. *)
WindowShape(seq) ==
    LET stock == StockShape(cfg.lowDelay, seq)
    IN  IF cfg.lowDelay \/ cfg.windowShape = "stock" \/ stock = "wrong"
        THEN stock ELSE cfg.windowShape

SuggestedGroupingTable ==
    [i \in 0 .. TransFac - 1 |->
        CASE i = 0 -> <<1, 3, 3, 1>> [] i = 1 -> <<1, 1, 3, 3>>
          [] i = 2 -> <<2, 1, 3, 2>> [] i = 3 -> <<3, 1, 3, 1>>
          [] i = 4 -> <<3, 1, 1, 3>> [] i = 5 -> <<3, 2, 1, 2>>
          [] OTHER -> <<3, 3, 1, 1>>]

(* --short-groups 3: [0 .. a-2] [a-1] [a] [a+1 .. 7], without empty groups *)
TightGrouping(a) ==
    (IF a >= 2 THEN <<a - 1>> ELSE << >>) \o (IF a >= 1 THEN <<1>> ELSE << >>)
        \o <<1>> \o (IF a < TransFac - 1 THEN <<TransFac - 1 - a>> ELSE << >>)

SuggestedGrouping(a) ==
    CASE cfg.shortGroups = 0 -> SuggestedGroupingTable[a]
      [] cfg.shortGroups = 1 -> <<TransFac>>
      [] cfg.shortGroups = 2 -> <<2, 2, 2, 2>>
      [] OTHER               -> TightGrouping(a)

-----------------------------------------------------------------------------

(* FDKaacEnc_InitBlockSwitching() and mdct_init() for every channel. *)
Init ==
    /\ cfg \in Configurations
    /\ phase = "detect0"
    /\ lastWindowSequence = [c \in Channels |-> Long]
    /\ windowShape = [c \in Channels |-> WindowShape(Long)]
    /\ attack = [c \in Channels |-> FALSE]
    /\ lastattack = [c \in Channels |-> FALSE]
    /\ attackIndex = [c \in Channels |-> 0]
    /\ lastAttackIndex = [c \in Channels |-> 0]
    /\ attackNrg = [c \in Channels |-> 0]
    /\ maxWindowNrg = [c \in Channels |-> 0]
    /\ groups = [c \in Channels |-> <<0, 0, 0, 0>>]
    /\ mdct = [c \in Channels |-> [fr |-> 0, tl |-> 0, fl |-> 0, wrs |-> "sine"]]
    /\ psyOut = [c \in Channels |-> [lastWindowSequence |-> Long,
                                     windowShape |-> "sine", groupingMask |-> 0]]

Windows == IF cfg.lowDelay THEN 0 .. 3 ELSE 0 .. TransFac - 1

(* What the search over the sub-windows ends with.  The index is that of   *)
(* the last window above the threshold, also when the quiet-frame gate     *)
(* withdraws the attack, and that of the last frame when none is.          *)
Found(c) ==
    LET placed == AttackWindows \cap Windows
        hit    == [attack : BOOLEAN, index : placed]
        none   == [attack |-> FALSE, index |-> attackIndex[c]]
        forced == [attack : {TRUE}, index : placed]
    IN  IF cfg.blockBias = "always" THEN forced ELSE hit \cup {none}

(* Mutant: an attack that spreads goes on counting windows. *)
DetectionsCountOn(c) ==
    LET spread == IF attack[c] /\ attackIndex[c] \in Windows /\ attackIndex[c] + 1 \notin Windows
                  THEN {[attack |-> TRUE, index |-> attackIndex[c] + 1]} ELSE {}
    IN  Found(c) \cup spread

(* The attack in the last window of the frame before may spread over the   *)
(* frame border; --block-bias 0 withdraws it all.                          *)
Detections(c) ==
    LET spread == IF attack[c] /\ attackIndex[c] \in Windows /\ attackIndex[c] + 1 \notin Windows
                  THEN {[attack |-> TRUE, index |-> 0]} ELSE {}
        all    == Found(c) \cup (IF \E d \in Found(c) : ~d.attack THEN spread ELSE {})
    IN  IF cfg.blockBias = "never"
        THEN {[d EXCEPT !.attack = FALSE] : d \in all} ELSE all

Detect(c) ==
    \E d \in Detections(c), nrg \in Energies :
        /\ d.attack \/ nrg = 0
        /\ LET seq == IF cfg.lowDelay
                      THEN NextLowDelay(lastWindowSequence[c], d.attack)
                      ELSE NextLookAhead(lastWindowSequence[c], attack[c], d.attack)
           IN  /\ lastWindowSequence' = [lastWindowSequence EXCEPT ![c] = seq]
               /\ windowShape' = [windowShape EXCEPT ![c] = WindowShape(seq)]
        /\ attack' = [attack EXCEPT ![c] = d.attack]
        /\ attackIndex' = [attackIndex EXCEPT ![c] = d.index]
        /\ attackNrg' = [attackNrg EXCEPT ![c] = nrg]
        /\ lastattack' = [lastattack EXCEPT ![c] = attack[c]]
        /\ lastAttackIndex' = [lastAttackIndex EXCEPT ![c] = attackIndex[c]]
        /\ IF cfg.lowDelay
           THEN UNCHANGED <<groups, maxWindowNrg>>
           ELSE /\ groups' = [groups EXCEPT ![c] = SuggestedGrouping(attackIndex[c])]
                /\ maxWindowNrg' = [maxWindowNrg EXCEPT
                                      ![c] = IF attack[c] THEN attackNrg[c] ELSE 0]

(* An LFE channel is always long with a sine window. *)
DetectLfe(c) ==
    /\ lastWindowSequence' = [lastWindowSequence EXCEPT ![c] = Long]
    /\ windowShape' = [windowShape EXCEPT ![c] = "sine"]
    /\ groups' = [groups EXCEPT ![c] = <<1>>]
    /\ UNCHANGED detectorVars

(* FDKaacEnc_BlockSwitching() for channel c *)
BlockSwitching(c) ==
    /\ phase = IF c = 0 THEN "detect0" ELSE "detect1"
    /\ phase' = IF c + 1 \in Channels THEN "detect1" ELSE "sync"
    /\ IF cfg.element = "lfe" THEN DetectLfe(c) ELSE Detect(c)
    /\ UNCHANGED <<cfg, mdct, psyOut>>

(* Whose grouping a pair of short blocks takes, given the sequences the    *)
(* two channels had.                                                       *)
SharedGroups(seqLeft, seqRight) ==
    CASE seqLeft = Short /\ seqRight = Short ->
            IF maxWindowNrg[0] > maxWindowNrg[1] THEN groups[0] ELSE groups[1]
      [] seqLeft = Short /\ seqRight # Short -> groups[0]
      [] seqLeft # Short /\ seqRight = Short -> groups[1]
      [] OTHER                               -> <<4, 4>>

(* In AAC-LD a window that is neither long nor stop becomes a long one     *)
(* with the low-overlap shape.                                             *)
Translate(seq, shape) ==
    IF cfg.lowDelay /\ seq \notin {Long, Stop}
    THEN [seq |-> Long, shape |-> "lol"] ELSE [seq |-> seq, shape |-> shape]

SyncPair ==
    LET patch == Synchronized(Synchronized(Long, lastWindowSequence[0]), lastWindowSequence[1])
        final == Translate(patch, WindowShape(patch))
        (* windowSequenceLeftOld and -RightOld are read after both have    *)
        (* been set to patchType.                                          *)
        shared == IF patch = Short THEN SharedGroups(patch, patch) ELSE <<1>>
    IN  IF patch = WrongWindow
        THEN /\ phase' = "error"
             /\ UNCHANGED <<lastWindowSequence, windowShape, groups>>
        ELSE /\ phase' = "transform"
             /\ lastWindowSequence' = [c \in Channels |-> final.seq]
             /\ windowShape' = [c \in Channels |-> final.shape]
             /\ groups' = IF cfg.lowDelay THEN groups ELSE [c \in Channels |-> shared]

SyncSingle ==
    LET final == Translate(lastWindowSequence[0], windowShape[0])
    IN  /\ phase' = "transform"
        /\ lastWindowSequence' = [lastWindowSequence EXCEPT ![0] = final.seq]
        /\ windowShape' = [windowShape EXCEPT ![0] = final.shape]
        /\ groups' = IF cfg.lowDelay \/ lastWindowSequence[0] = Short
                     THEN groups ELSE [groups EXCEPT ![0] = <<1>>]

(* FDKaacEnc_SyncBlockSwitching(); psyMain() always has a common window. *)
SyncBlockSwitching ==
    /\ phase = "sync"
    /\ IF cfg.element = "pair" THEN SyncPair ELSE SyncSingle
    /\ UNCHANGED <<cfg, detectorVars, mdct, psyOut>>

(* FDKaacEnc_Transform_Real() and mdct_block(): the left slope of a block  *)
(* is the right slope of the block before.                                 *)
Transformed(c) ==
    LET seq == lastWindowSequence[c]
        fr  == IF seq \in {Start, Short} THEN FrameLength \div TransFac
               ELSE IF windowShape[c] = "lol" THEN FrameLength - (3 * FrameLength) \div 4
               ELSE FrameLength
        first == mdct[c].fr = 0
    IN  [fr  |-> fr,
         tl  |-> IF seq = Short THEN FrameLength \div TransFac ELSE FrameLength,
         fl  |-> IF first THEN fr ELSE mdct[c].fr,
         wrs |-> windowShape[c]]

(* Mutant: the stock rule "short is sine" also with --window-shape. *)
OutputShortIsSine(c) ==
    [lastWindowSequence |-> lastWindowSequence[c],
     windowShape |-> IF lastWindowSequence[c] = Short THEN "sine" ELSE windowShape[c],
     groupingMask |-> GroupingMask(groups[c])]

(* The fields psyMain() builds for the bitstream writer. *)
Output(c) ==
    [lastWindowSequence |-> lastWindowSequence[c],
     windowShape |-> IF lastWindowSequence[c] = Short /\ cfg.windowShape = "stock"
                     THEN "sine" ELSE windowShape[c],
     groupingMask |-> GroupingMask(groups[c])]

Transform ==
    /\ phase = "transform"
    /\ phase' = "detect0"
    /\ mdct' = [c \in Channels |-> Transformed(c)]
    /\ psyOut' = [c \in Channels |-> Output(c)]
    /\ UNCHANGED <<cfg, lastWindowSequence, windowShape, detectorVars, groups>>

Next ==
    \/ \E c \in Channels : BlockSwitching(c)
    \/ SyncBlockSwitching
    \/ Transform

Spec == Init /\ [][Next]_vars

-----------------------------------------------------------------------------
(* Properties *)

FrameCoded == phase = "detect0" /\ \A c \in Channels : mdct[c].tl # 0

(* No call meets a window sequence its tables have no entry for, so        *)
(* FDKaacEnc_SyncBlockSwitching() never reports "mixed up LC and LD".      *)
TypeOK ==
    /\ cfg \in Configurations
    /\ phase \in {"detect0", "detect1", "sync", "transform"}
    /\ lastWindowSequence \in [Channels -> WindowSequences]
    /\ windowShape \in [Channels -> {"sine", "kbd", "lol"}]
    /\ attack \in [Channels -> BOOLEAN]
    /\ lastattack \in [Channels -> BOOLEAN]
    /\ attackIndex \in [Channels -> AttackWindows]
    /\ lastAttackIndex \in [Channels -> AttackWindows]
    /\ attackNrg \in [Channels -> Energies]
    /\ maxWindowNrg \in [Channels -> Energies]

(* An attack found in the look-ahead is coded in short windows in the next *)
(* frame, whatever the other channel of the pair made of the frame between *)
(* (block_switch.cpp chgWndSqLkAhd and synchronizedBlockTypeTable).        *)
AttackIsCodedShort ==
    phase = "transform" /\ ~cfg.lowDelay =>
        \A c \in Channels : lastattack[c] => lastWindowSequence[c] = Short

(* mdct_block() computes nl = (tl - fl) / 2 and nr = (tl - fr) / 2 from    *)
(* the slope of the block before; a long slope kept for a short transform  *)
(* would index the samples from a negative offset.                         *)
SlopesFitTransform ==
    \A c \in Channels : mdct[c].fl <= mdct[c].tl /\ mdct[c].fr <= mdct[c].tl

(* The overlap of two frames cancels its aliasing: the left slope the      *)
(* encoder used is the one the decoder derives from the window sequence.   *)
(* (The first block has nothing before it; in AAC-LD the decoder adapts    *)
(* the left slope by itself.)  A step of the filterbank only.              *)
SlopesMeet ==
    [][ \A c \in Channels :
          mdct'[c] # mdct[c] /\ mdct[c].fr # 0 /\ ~cfg.lowDelay =>
             mdct'[c].fl = DecodedLeftSlope(psyOut'[c].lastWindowSequence, FrameLength) ]_vars

(* What the decoder reads back is what the filterbank did: the sequence,   *)
(* the shape of the right slope and the groups of the short windows, and   *)
(* it accepts the block (psy_main.cpp: "the bitstream must carry the same  *)
(* one").  Both channels of a pair share one ics_info(), the left one's.   *)
DecoderSeesBlock ==
    FrameCoded =>
        LET read == IcsRead(EncodeIcsInfo(psyOut[0]), cfg.lowDelay)
        IN  /\ read.valid
            /\ \A c \in Channels :
                 /\ read.seq = lastWindowSequence[c]
                 /\ read.shape = mdct[c].wrs
                 /\ read.seq = Short => read.groups = groups[c]

=============================================================================
