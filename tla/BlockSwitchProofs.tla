-------------------------- MODULE BlockSwitchProofs --------------------------
(***************************************************************************)
(* What BlockSwitch does for every set of options, every place of attacks  *)
(* and every frame length: sequences are legal, attacks are coded short,   *)
(* the slopes of neighbouring blocks match, and the decoder reads back     *)
(* what was done.                                                          *)
(***************************************************************************)
EXTENDS BlockSwitch, SequenceTheorems, TLAPS

ShortSlope == FrameLength \div TransFac
LowSlope == FrameLength - (3 * FrameLength) \div 4

(* Channels the detector has not been called for in this frame, and those  *)
(* it has, up to the transform.                                            *)
Fresh(c) == phase = "detect0" \/ (phase = "detect1" /\ c = 1)
Looked(c) == phase \in {"sync", "transform"} \/ (phase = "detect1" /\ c = 0)

(* The right slope of the last block tells which sequences may follow.     *)
LookAheadInv(c) ==
    /\ lastWindowSequence[c] \in CodedSequences
    /\ windowShape[c] # "lol"
    /\ mdct[c].fr \in {0, FrameLength, ShortSlope}
    /\ attack[c] => lastWindowSequence[c] \in {Start, Short}
    /\ Fresh(c) =>
          IF lastWindowSequence[c] \in {Start, Short} THEN mdct[c].fr = ShortSlope
          ELSE mdct[c].fr = FrameLength \/ (mdct[c].fr = 0 /\ lastWindowSequence[c] = Long)
    /\ Looked(c) =>
          IF mdct[c].fr = ShortSlope THEN lastWindowSequence[c] \in {Short, Stop}
          ELSE lastWindowSequence[c] \in {Long, Start}
    /\ Looked(c) /\ lastattack[c] => lastWindowSequence[c] = Short

(* A low-delay block is long when it is transformed.                       *)
LowDelayInv(c) ==
    /\ lastWindowSequence[c] \in {Long, Start}
    /\ Fresh(c) \/ phase = "transform" => lastWindowSequence[c] = Long
    /\ mdct[c].fr \in {0, FrameLength, LowSlope}

LfeInv ==
    cfg.element = "lfe" =>
        /\ lastWindowSequence[0] = Long
        /\ ~attack[0] /\ ~lastattack[0]
        /\ mdct[0].fr # ShortSlope

(* Both channels of a pair have the same window. *)
PairInv ==
    cfg.element = "pair" =>
        /\ ~cfg.lowDelay => mdct[0].fr = mdct[1].fr
        /\ phase \in {"detect0", "transform"} => lastWindowSequence[0] = lastWindowSequence[1]

MdctType == mdct \in [Channels -> [fr : Nat, tl : Nat, fl : Nat, wrs : {"sine", "kbd", "lol"}]]

IInv ==
    /\ TypeOK
    /\ MdctType
    /\ phase = "detect1" => cfg.element = "pair"
    /\ \A c \in Channels : IF cfg.lowDelay THEN LowDelayInv(c) ELSE LookAheadInv(c)
    /\ LfeInv
    /\ PairInv
    /\ SlopesFitTransform

-----------------------------------------------------------------------------

(* The configuration is one of the type BlockAssumption gives. *)
LEMMA ConfigFacts ==
    ASSUME cfg \in Configurations
    PROVE  /\ cfg.element \in {"single", "pair", "lfe"}
           /\ cfg.lowDelay \in BOOLEAN
           /\ cfg.blockBias \in {"detect", "never", "always"}
           /\ cfg.windowShape \in {"stock", "sine", "kbd"}
  BY BlockAssumption DEF ConfigType

(* The three slopes are different and fit a frame. *)
LEMMA SlopeFacts ==
    /\ FrameLength \in Nat /\ FrameLength > 0
    /\ ShortSlope \in Nat /\ 0 < ShortSlope /\ ShortSlope < FrameLength
    /\ LowSlope \in Nat /\ 0 < LowSlope /\ LowSlope <= FrameLength
  BY BlockAssumption DEF ShortSlope, LowSlope, TransFac

(* frWinShape() has a shape for every sequence that is transformed. *)
LEMMA ShapeFacts ==
    ASSUME cfg \in Configurations,
           NEW s \in {Long, Start, Short, Stop},
           cfg.lowDelay => s \in {Long, Start}
    PROVE  WindowShape(s) \in {"sine", "kbd"}
  BY ConfigFacts DEF WindowShape, StockShape, Long, Start, Short, Stop, LowOv

(* The invariant holds at the start. *)
LEMMA InitIInv == Init => IInv
  <1> SUFFICES ASSUME Init PROVE IInv
    OBVIOUS
  <1> USE DEF Init, Long, Start, Short, Stop, LowOv, CodedSequences, WindowSequences
  <1>1. /\ Channels = {0} \/ Channels = {0, 1}
        /\ cfg.element = "lfe" => Channels = {0}
        /\ cfg.element = "pair" => Channels = {0, 1}
    BY DEF Channels
  <1>2. WindowShape(Long) \in {"sine", "kbd"}
    BY ShapeFacts
  <1>3. TypeOK
    BY <1>2, BlockAssumption DEF TypeOK
  <1>4. MdctType /\ SlopesFitTransform
    BY DEF MdctType, SlopesFitTransform
  <1>5. \A c \in Channels : LowDelayInv(c)
    BY <1>1 DEF LowDelayInv
  <1>6. \A c \in Channels : LookAheadInv(c)
    BY <1>1, <1>2, SlopeFacts DEF LookAheadInv, Fresh, Looked
  <1>7. LfeInv /\ PairInv
    BY <1>1, SlopeFacts DEF LfeInv, PairInv
  <1> QED
    BY <1>3, <1>4, <1>5, <1>6, <1>7 DEF IInv

-----------------------------------------------------------------------------

(* The detector names a window it was allowed to look at. *)
LEMMA DetectionFacts ==
    ASSUME TypeOK, NEW c \in Channels, NEW d \in Detections(c)
    PROVE  d.attack \in BOOLEAN /\ d.index \in AttackWindows
  <1> DEFINE D == [attack : BOOLEAN, index : AttackWindows]
  <1>1. Found(c) \subseteq D
    <2> DEFINE placed == AttackWindows \cap Windows
    <2>1. attackIndex[c] \in AttackWindows
      BY DEF TypeOK
    <2>2. \/ Found(c) = [attack : {TRUE}, index : placed]
          \/ Found(c) = [attack : BOOLEAN, index : placed]
                          \cup {[attack |-> FALSE, index |-> attackIndex[c]]}
      BY DEF Found
    <2>3. placed \subseteq AttackWindows
      OBVIOUS
    <2> HIDE DEF placed
    <2>4. [attack : {TRUE}, index : placed] \subseteq D
      BY <2>3
    <2>5. [attack : BOOLEAN, index : placed] \subseteq D
      BY <2>3
    <2>6. [attack |-> FALSE, index |-> attackIndex[c]] \in D
      BY <2>1
    <2> HIDE DEF D
    <2> QED
      BY <2>2, <2>4, <2>5, <2>6
  <1>2. [attack |-> TRUE, index |-> 0] \in D
    BY BlockAssumption
  <1>3. CASE cfg.blockBias = "never"
    <2>1. PICK e \in Found(c) \cup {[attack |-> TRUE, index |-> 0]} : d = [e EXCEPT !.attack = FALSE]
      BY <1>3 DEF Detections
    <2> QED
      BY <1>1, <1>2, <2>1
  <1>4. CASE cfg.blockBias # "never"
    <2>1. d \in Found(c) \cup {[attack |-> TRUE, index |-> 0]}
      BY <1>4 DEF Detections
    <2> QED
      BY <1>1, <1>2, <2>1
  <1> QED
    BY <1>3, <1>4

(* An element has one channel or two. *)
LEMMA ChannelFacts ==
    /\ Channels = {0} \/ Channels = {0, 1}
    /\ cfg.element = "lfe" => Channels = {0}
    /\ cfg.element = "pair" => Channels = {0, 1}
    /\ cfg.element # "pair" => Channels = {0}
  BY DEF Channels

(* The detector of channel c moves its sequence to a legal successor. *)
LEMMA DetectIInv ==
    ASSUME IInv, NEW c \in Channels, BlockSwitching(c), cfg.element # "lfe"
    PROVE  IInv'
  <1>0. TypeOK /\ MdctType
    BY DEF IInv
  <1>1. UNCHANGED <<cfg, mdct, psyOut>> /\ Channels' = Channels
    BY DEF BlockSwitching, Channels
  <1>2. PICK d \in Detections(c), nrg \in Energies :
          LET seq == IF cfg.lowDelay
                     THEN NextLowDelay(lastWindowSequence[c], d.attack)
                     ELSE NextLookAhead(lastWindowSequence[c], attack[c], d.attack)
          IN  /\ lastWindowSequence' = [lastWindowSequence EXCEPT ![c] = seq]
              /\ windowShape' = [windowShape EXCEPT ![c] = WindowShape(seq)]
              /\ attack' = [attack EXCEPT ![c] = d.attack]
              /\ attackIndex' = [attackIndex EXCEPT ![c] = d.index]
              /\ attackNrg' = [attackNrg EXCEPT ![c] = nrg]
              /\ lastattack' = [lastattack EXCEPT ![c] = attack[c]]
              /\ lastAttackIndex' = [lastAttackIndex EXCEPT ![c] = attackIndex[c]]
              /\ \/ UNCHANGED maxWindowNrg
                 \/ maxWindowNrg' = [maxWindowNrg EXCEPT
                                       ![c] = IF attack[c] THEN attackNrg[c] ELSE 0]
    BY DEF BlockSwitching, Detect
  <1> DEFINE seq == IF cfg.lowDelay
                    THEN NextLowDelay(lastWindowSequence[c], d.attack)
                    ELSE NextLookAhead(lastWindowSequence[c], attack[c], d.attack)
  <1>3. d.attack \in BOOLEAN /\ d.index \in AttackWindows /\ nrg \in Energies
    BY <1>0, DetectionFacts
  <1>4. phase \in {"detect0", "detect1"} /\ Fresh(c)
        /\ phase' \in {"detect1", "sync"}
        /\ (phase' = "detect1" => c = 0 /\ phase = "detect0" /\ cfg.element = "pair")
    BY ChannelFacts DEF BlockSwitching, Fresh
  <1>5. /\ seq \in {Long, Start, Short, Stop}
        /\ cfg.lowDelay => seq \in {Long, Start}
        /\ ~cfg.lowDelay =>
             /\ IF mdct[c].fr = ShortSlope THEN seq \in {Short, Stop} ELSE seq \in {Long, Start}
             /\ d.attack => seq \in {Start, Short}
             /\ attack[c] => seq = Short
    <2>1. CASE cfg.lowDelay
      <3>1. lastWindowSequence[c] = Long
        BY <1>4, <2>1 DEF IInv, LowDelayInv
      <3> QED
        BY <2>1, <3>1 DEF NextLowDelay, Long, Start, Stop, LowOv
    <2>2. CASE ~cfg.lowDelay
      <3>1. LookAheadInv(c)
        BY <2>2 DEF IInv
      <3> QED
        BY <1>3, <1>4, <2>2, <3>1, SlopeFacts
           DEF LookAheadInv, NextLookAhead, CodedSequences, Long, Start, Short, Stop
    <2> QED
      BY <2>1, <2>2
  <1>6. WindowShape(seq) \in {"sine", "kbd"}
    BY <1>0, <1>5, ShapeFacts DEF TypeOK
  <1> HIDE DEF seq
  <1>7. TypeOK'
    <2>1. /\ lastWindowSequence' \in [Channels -> WindowSequences]
          /\ windowShape' \in [Channels -> {"sine", "kbd", "lol"}]
      BY <1>0, <1>2, <1>5, <1>6 DEF TypeOK, WindowSequences, seq
    <2>2. /\ attack' \in [Channels -> BOOLEAN] /\ lastattack' \in [Channels -> BOOLEAN]
          /\ attackIndex' \in [Channels -> AttackWindows]
          /\ lastAttackIndex' \in [Channels -> AttackWindows]
          /\ attackNrg' \in [Channels -> Energies]
      BY <1>0, <1>2, <1>3 DEF TypeOK
    <2>3. maxWindowNrg' \in [Channels -> Energies]
      BY <1>0, <1>2, BlockAssumption DEF TypeOK
    <2> QED
      BY <1>0, <1>1, <1>4, <2>1, <2>2, <2>3 DEF TypeOK
  <1>8. ASSUME NEW e \in Channels
        PROVE  IF cfg.lowDelay THEN LowDelayInv(e)' ELSE LookAheadInv(e)'
    <2>1. e = c => /\ lastWindowSequence'[e] = seq /\ windowShape'[e] = WindowShape(seq)
                   /\ attack'[e] = d.attack /\ lastattack'[e] = attack[c]
                   /\ ~Fresh(e)' /\ Looked(e)'
      BY <1>0, <1>2, <1>4, ChannelFacts DEF TypeOK, Fresh, Looked, seq
    <2>2. e # c => /\ lastWindowSequence'[e] = lastWindowSequence[e]
                   /\ windowShape'[e] = windowShape[e]
                   /\ attack'[e] = attack[e] /\ lastattack'[e] = lastattack[e]
                   /\ Fresh(e)' = Fresh(e) /\ Looked(e)' = Looked(e)
      BY <1>0, <1>2, <1>4, ChannelFacts DEF TypeOK, Fresh, Looked, BlockSwitching
    <2>3. CASE cfg.lowDelay
      BY <1>1, <1>4, <1>5, <2>1, <2>2, <2>3 DEF IInv, LowDelayInv
    <2>4. CASE ~cfg.lowDelay
      BY <1>1, <1>5, <1>6, <2>1, <2>2, <2>4
         DEF IInv, LookAheadInv, CodedSequences, Long, Start, Short, Stop
    <2> QED
      BY <2>3, <2>4
  <1>9. PairInv' /\ LfeInv'
    BY <1>1, <1>4 DEF IInv, PairInv, LfeInv
  <1>10. MdctType' /\ SlopesFitTransform'
    BY <1>1 DEF IInv, MdctType, SlopesFitTransform
  <1> QED
    BY <1>1, <1>4, <1>7, <1>8, <1>9, <1>10 DEF IInv

(* An LFE channel stays long. *)
LEMMA DetectLfeIInv ==
    ASSUME IInv, NEW c \in Channels, BlockSwitching(c), cfg.element = "lfe"
    PROVE  IInv'
  <1>1. c = 0 /\ Channels = {0} /\ Channels' = Channels
    BY ChannelFacts DEF BlockSwitching, Channels
  <1>2. /\ UNCHANGED <<cfg, mdct, psyOut, detectorVars>>
        /\ phase = "detect0" /\ phase' = "sync"
        /\ lastWindowSequence' = [lastWindowSequence EXCEPT ![0] = Long]
        /\ windowShape' = [windowShape EXCEPT ![0] = "sine"]
    BY <1>1 DEF BlockSwitching, DetectLfe
  <1>3. TypeOK /\ MdctType /\ LfeInv
    BY DEF IInv
  <1>4. lastWindowSequence'[0] = Long /\ windowShape'[0] = "sine"
    BY <1>1, <1>2, <1>3 DEF TypeOK
  <1>5. TypeOK'
    BY <1>1, <1>2, <1>3 DEF TypeOK, detectorVars, WindowSequences
  <1>6. CASE cfg.lowDelay
    <2>1. LowDelayInv(0)'
      BY <1>1, <1>2, <1>4, <1>6 DEF IInv, LowDelayInv
    <2> QED
      BY <1>1, <1>2, <1>3, <1>4, <1>5, <1>6, <2>1
         DEF IInv, LfeInv, PairInv, MdctType, SlopesFitTransform, detectorVars
  <1>7. CASE ~cfg.lowDelay
    <2>1. LookAheadInv(0)'
      BY <1>1, <1>2, <1>3, <1>4, <1>7
         DEF IInv, LookAheadInv, LfeInv, Fresh, Looked, CodedSequences, detectorVars
    <2> QED
      BY <1>1, <1>2, <1>3, <1>4, <1>5, <1>7, <2>1
         DEF IInv, LfeInv, PairInv, MdctType, SlopesFitTransform, detectorVars
  <1> QED
    BY <1>3, <1>6, <1>7, ConfigFacts DEF TypeOK

(* Two sequences that may follow the same block are synchronised to one    *)
(* that may, and that is short or start when one of the two is.            *)
LEMMA SynchronizedFacts ==
    ASSUME NEW p, NEW q,
           (p \in {Long, Start} /\ q \in {Long, Start}) \/ (p \in {Short, Stop} /\ q \in {Short, Stop})
    PROVE  LET patch == Synchronized(Synchronized(Long, p), q)
           IN  /\ patch \in {p, q}
               /\ (p \in {Start, Short} \/ q \in {Start, Short}) => patch \in {Start, Short}
               /\ (p = Short \/ q = Short) => patch = Short
  BY DEF Synchronized, Long, Start, Short, Stop, LowOv, WrongWindow

(* The synchronisation leaves a pair with one legal sequence, and a        *)
(* low-delay block long.                                                   *)
LEMMA SyncIInv == IInv /\ SyncBlockSwitching => IInv'
  <1> SUFFICES ASSUME IInv, SyncBlockSwitching PROVE IInv'
    OBVIOUS
  <1>1. /\ UNCHANGED <<cfg, mdct, psyOut, detectorVars>>
        /\ phase = "sync" /\ Channels' = Channels
    BY DEF SyncBlockSwitching, Channels
  <1>2. TypeOK /\ MdctType /\ LfeInv /\ PairInv /\ SlopesFitTransform
    BY DEF IInv
  <1>3. /\ cfg.lowDelay \in BOOLEAN
        /\ cfg \in Configurations
        /\ cfg.element \in {"single", "pair", "lfe"}
    BY <1>2, ConfigFacts DEF TypeOK
  <1>4. ASSUME NEW c \in Channels
        PROVE  /\ cfg.lowDelay => LowDelayInv(c)
               /\ ~cfg.lowDelay => LookAheadInv(c)
               /\ Looked(c)
    BY <1>1 DEF IInv, Looked
  <1>5. ASSUME phase' = "transform",
               NEW seq, NEW shape, shape \in {"sine", "kbd", "lol"}, cfg.element = "pair",
               lastWindowSequence' = [c \in Channels |-> seq],
               windowShape' = [c \in Channels |-> shape],
               cfg.lowDelay => seq = Long,
               ~cfg.lowDelay =>
                   /\ shape # "lol"
                   /\ seq \in IF mdct[0].fr = ShortSlope THEN {Short, Stop} ELSE {Long, Start}
                   /\ attack[0] \/ attack[1] => seq \in {Start, Short}
                   /\ lastattack[0] \/ lastattack[1] => seq = Short
        PROVE  IInv'
    <2>1. Channels = {0, 1}
      BY <1>5, ChannelFacts
    <2>2. \A c \in Channels : lastWindowSequence'[c] = seq /\ windowShape'[c] = shape
      BY <1>5
    <2>3. seq \in {Long, Start, Short, Stop}
      BY <1>3, <1>5
    <2>4. TypeOK'
      BY <1>1, <1>2, <1>5, <2>3 DEF TypeOK, detectorVars, WindowSequences
    <2>5. ASSUME NEW c \in Channels, cfg.lowDelay PROVE LowDelayInv(c)'
      BY <1>1, <1>4, <1>5, <2>2, <2>5 DEF LowDelayInv
    <2>6. ASSUME NEW c \in Channels, ~cfg.lowDelay PROVE LookAheadInv(c)'
      <3>1. mdct[c].fr = mdct[0].fr
        BY <1>2, <1>5, <2>1, <2>6 DEF PairInv
      <3>2. /\ lastWindowSequence'[c] \in CodedSequences
            /\ windowShape'[c] # "lol"
            /\ mdct'[c].fr \in {0, FrameLength, ShortSlope}
        BY <1>1, <1>4, <1>5, <2>2, <2>3, <2>6 DEF LookAheadInv, CodedSequences
      <3>3. /\ attack'[c] => lastWindowSequence'[c] \in {Start, Short}
            /\ lastattack'[c] => lastWindowSequence'[c] = Short
        BY <1>1, <1>5, <2>1, <2>2, <2>6 DEF detectorVars
      <3>4. ~Fresh(c)'
        BY <1>5 DEF Fresh
      <3>5. IF mdct'[c].fr = ShortSlope THEN lastWindowSequence'[c] \in {Short, Stop}
            ELSE lastWindowSequence'[c] \in {Long, Start}
        BY <1>1, <1>5, <2>2, <2>6, <3>1
      <3> QED
        BY <3>2, <3>3, <3>4, <3>5 DEF LookAheadInv
    <2>7. MdctType' /\ LfeInv' /\ PairInv' /\ SlopesFitTransform'
      BY <1>1, <1>2, <1>5, <2>1, <2>2
         DEF MdctType, LfeInv, PairInv, SlopesFitTransform
    <2> QED
      BY <1>1, <1>3, <1>5, <2>4, <2>5, <2>6, <2>7 DEF IInv
  <1>6. CASE cfg.element = "pair"
    <2> DEFINE p == lastWindowSequence[0]
               q == lastWindowSequence[1]
               patch == Synchronized(Synchronized(Long, p), q)
               final == Translate(patch, WindowShape(patch))
    <2>1. Channels = {0, 1} /\ SyncPair
      BY <1>6, ChannelFacts DEF SyncBlockSwitching
    <2>2. \/ p \in {Long, Start} /\ q \in {Long, Start}
          \/ ~cfg.lowDelay /\ p \in {Short, Stop} /\ q \in {Short, Stop}
      BY <1>2, <1>3, <1>4, <1>6, <2>1 DEF LowDelayInv, LookAheadInv, PairInv
    <2>3. /\ patch \in {p, q}
          /\ (p \in {Start, Short} \/ q \in {Start, Short}) => patch \in {Start, Short}
          /\ (p = Short \/ q = Short) => patch = Short
      BY <2>2, SynchronizedFacts
    <2>4. /\ patch # WrongWindow
          /\ patch \in {Long, Start, Short, Stop}
          /\ cfg.lowDelay => patch \in {Long, Start}
      BY <2>2, <2>3 DEF WrongWindow, Long, Start, Short, Stop
    <2>5. WindowShape(patch) \in {"sine", "kbd"}
      BY <1>3, <2>4, ShapeFacts
    <2>6. /\ phase' = "transform"
          /\ lastWindowSequence' = [c \in Channels |-> final.seq]
          /\ windowShape' = [c \in Channels |-> final.shape]
      BY <2>1, <2>4 DEF SyncPair
    <2>7. ~cfg.lowDelay =>
            /\ patch \in IF mdct[0].fr = ShortSlope THEN {Short, Stop} ELSE {Long, Start}
            /\ attack[0] \/ attack[1] => patch \in {Start, Short}
            /\ lastattack[0] \/ lastattack[1] => patch = Short
      BY <1>2, <1>4, <1>6, <2>1, <2>3 DEF LookAheadInv, PairInv
    <2>8. /\ final.shape \in {"sine", "kbd", "lol"}
          /\ cfg.lowDelay => final.seq = Long
          /\ ~cfg.lowDelay => final.seq = patch /\ final.shape # "lol"
      BY <1>3, <2>4, <2>5 DEF Translate, Long, Start, Short, Stop
    <2> HIDE DEF final, patch, p, q
    <2> QED
      BY <1>5, <1>6, <2>6, <2>7, <2>8
  <1>7. CASE cfg.element # "pair"
    <2> DEFINE final == Translate(lastWindowSequence[0], windowShape[0])
    <2>1. Channels = {0} /\ SyncSingle
      BY <1>7, ChannelFacts DEF SyncBlockSwitching
    <2>2. /\ phase' = "transform"
          /\ lastWindowSequence' = [lastWindowSequence EXCEPT ![0] = final.seq]
          /\ windowShape' = [windowShape EXCEPT ![0] = final.shape]
      BY <2>1 DEF SyncSingle
    <2>3. /\ final.seq \in WindowSequences
          /\ final.shape \in {"sine", "kbd", "lol"}
          /\ cfg.lowDelay => final.seq = Long
          /\ ~cfg.lowDelay => /\ final.seq = lastWindowSequence[0]
                              /\ final.shape = windowShape[0]
      <3>1. windowShape[0] \in {"sine", "kbd", "lol"} /\ lastWindowSequence[0] \in WindowSequences
        BY <1>2, <2>1 DEF TypeOK
      <3>2. cfg.lowDelay => lastWindowSequence[0] \in {Long, Start}
        BY <1>4, <2>1 DEF LowDelayInv
      <3> QED
        BY <1>3, <3>1, <3>2 DEF Translate, Long, Start, Stop, WindowSequences
    <2> HIDE DEF final
    <2>4. lastWindowSequence'[0] = final.seq /\ windowShape'[0] = final.shape
      BY <1>2, <2>1, <2>2 DEF TypeOK
    <2>5. TypeOK'
      BY <1>1, <1>2, <2>2, <2>3 DEF TypeOK, detectorVars
    <2>6. cfg.lowDelay => LowDelayInv(0)'
      BY <1>1, <1>4, <2>1, <2>3, <2>4 DEF LowDelayInv, Long
    <2>7. ~cfg.lowDelay => LookAheadInv(0)'
      BY <1>1, <1>4, <2>1, <2>2, <2>3, <2>4 DEF LookAheadInv, Fresh, Looked, detectorVars
    <2>8. MdctType' /\ LfeInv' /\ PairInv' /\ SlopesFitTransform'
      BY <1>1, <1>2, <1>3, <1>7, <2>1, <2>3, <2>4
         DEF MdctType, LfeInv, PairInv, SlopesFitTransform, detectorVars
    <2> QED
      BY <1>1, <1>3, <2>1, <2>2, <2>5, <2>6, <2>7, <2>8 DEF IInv
  <1> QED
    BY <1>6, <1>7

-----------------------------------------------------------------------------

(* What the filterbank does with the block of channel c. *)
LEMMA TransformFacts ==
    ASSUME IInv, Transform, NEW c \in Channels
    PROVE  LET short == lastWindowSequence[c] = Short
               slope == IF mdct[c].fr = 0 THEN mdct'[c].fr ELSE mdct[c].fr
           IN  /\ mdct'[c] \in [fr : Nat, tl : Nat, fl : Nat, wrs : {"sine", "kbd", "lol"}]
               /\ mdct'[c].fl = slope
               /\ mdct'[c].tl = IF short THEN ShortSlope ELSE FrameLength
               /\ cfg.lowDelay => mdct'[c].fr \in {FrameLength, LowSlope}
               /\ ~cfg.lowDelay =>
                     mdct'[c].fr = IF lastWindowSequence[c] \in {Start, Short}
                                   THEN ShortSlope ELSE FrameLength
  <1>1. mdct'[c] = Transformed(c)
    BY DEF Transform
  <1>2. TypeOK /\ MdctType
    BY DEF IInv
  <1>3. /\ lastWindowSequence[c] \in WindowSequences
        /\ windowShape[c] \in {"sine", "kbd", "lol"}
        /\ mdct[c].fr \in Nat
    BY <1>2 DEF TypeOK, MdctType
  <1>4. phase = "transform" /\ cfg.lowDelay \in BOOLEAN
    BY <1>2, ConfigFacts DEF Transform, TypeOK
  <1>5. /\ cfg.lowDelay => lastWindowSequence[c] = Long
        /\ ~cfg.lowDelay => windowShape[c] # "lol"
    BY <1>4 DEF IInv, LowDelayInv, LookAheadInv
  <1> DEFINE fr == IF lastWindowSequence[c] \in {Start, Short} THEN ShortSlope
                   ELSE IF windowShape[c] = "lol" THEN LowSlope
                   ELSE FrameLength
  <1>6. mdct'[c] = [fr |-> fr,
                    tl |-> IF lastWindowSequence[c] = Short THEN ShortSlope ELSE FrameLength,
                    fl |-> IF mdct[c].fr = 0 THEN fr ELSE mdct[c].fr,
                    wrs |-> windowShape[c]]
    BY <1>1 DEF Transformed, ShortSlope, LowSlope
  <1>7. /\ fr \in {ShortSlope, LowSlope, FrameLength}
        /\ cfg.lowDelay => fr \in {FrameLength, LowSlope}
        /\ ~cfg.lowDelay => fr = IF lastWindowSequence[c] \in {Start, Short}
                                 THEN ShortSlope ELSE FrameLength
    BY <1>5 DEF Long, Start, Short
  <1> HIDE DEF fr
  <1> QED
    BY <1>3, <1>6, <1>7, SlopeFacts

(* The filterbank overlaps each block with slopes that fit, and leaves a   *)
(* slope the next sequence can follow.                                     *)
LEMMA TransformIInv == IInv /\ Transform => IInv'
  <1> SUFFICES ASSUME IInv, Transform PROVE IInv'
    OBVIOUS
  <1>1. /\ UNCHANGED <<cfg, lastWindowSequence, windowShape, detectorVars, groups>>
        /\ phase = "transform" /\ phase' = "detect0" /\ Channels' = Channels
    BY DEF Transform, Channels
  <1>2. TypeOK /\ MdctType /\ LfeInv /\ PairInv
    BY DEF IInv
  <1>3. cfg.lowDelay \in BOOLEAN
    BY <1>2, ConfigFacts DEF TypeOK
  <1>4. ASSUME NEW c \in Channels
        PROVE  /\ cfg.lowDelay => LowDelayInv(c)
               /\ ~cfg.lowDelay => LookAheadInv(c)
               /\ mdct[c].fr \in Nat
    BY <1>2 DEF IInv, MdctType
  <1>5. TypeOK'
    BY <1>1, <1>2 DEF TypeOK, detectorVars
  <1>6. MdctType'
    <2>1. mdct' = [c \in Channels |-> Transformed(c)]
      BY DEF Transform
    <2>2. \A c \in Channels :
            mdct'[c] \in [fr : Nat, tl : Nat, fl : Nat, wrs : {"sine", "kbd", "lol"}]
      BY TransformFacts
    <2> QED
      BY <1>1, <2>1, <2>2 DEF MdctType
  <1>7. ASSUME NEW c \in Channels, cfg.lowDelay PROVE LowDelayInv(c)'
    BY <1>1, <1>4, <1>7, TransformFacts DEF LowDelayInv
  <1>8. ASSUME NEW c \in Channels, ~cfg.lowDelay PROVE LookAheadInv(c)'
    <2>1. mdct'[c].fr = IF lastWindowSequence[c] \in {Start, Short} THEN ShortSlope ELSE FrameLength
      BY <1>8, TransformFacts
    <2> QED
      BY <1>1, <1>4, <1>8, <2>1 DEF LookAheadInv, Fresh, Looked, detectorVars
  <1>9. LfeInv'
    <2>1. ASSUME cfg.element = "lfe" PROVE mdct'[0].fr # ShortSlope
      <3>1. 0 \in Channels /\ lastWindowSequence[0] = Long
        BY <1>2, <2>1, ChannelFacts DEF LfeInv
      <3>2. CASE cfg.lowDelay
        <4>1. mdct'[0].fr \in {FrameLength, LowSlope}
          BY <3>1, <3>2, TransformFacts
        <4> QED
          BY <4>1, BlockAssumption DEF ShortSlope, LowSlope, TransFac
      <3>3. CASE ~cfg.lowDelay
        <4>1. mdct'[0].fr = FrameLength
          BY <3>1, <3>3, TransformFacts DEF Long, Start, Short
        <4> QED
          BY <4>1, SlopeFacts
      <3> QED
        BY <1>3, <3>2, <3>3
    <2> QED
      BY <1>1, <1>2, <2>1 DEF LfeInv, detectorVars
  <1>10. PairInv'
    <2>1. ASSUME cfg.element = "pair", ~cfg.lowDelay PROVE mdct'[0].fr = mdct'[1].fr
      <3>1. 0 \in Channels /\ 1 \in Channels /\ lastWindowSequence[0] = lastWindowSequence[1]
        BY <1>1, <1>2, <2>1, ChannelFacts DEF PairInv
      <3>2. ASSUME NEW c \in Channels
            PROVE  mdct'[c].fr = IF lastWindowSequence[c] \in {Start, Short}
                                 THEN ShortSlope ELSE FrameLength
        BY <2>1, TransformFacts
      <3> QED
        BY <3>1, <3>2
    <2> QED
      BY <1>1, <1>2, <2>1 DEF PairInv
  <1>11. SlopesFitTransform'
    <2>1. ASSUME NEW c \in Channels PROVE mdct'[c].fl <= mdct'[c].tl /\ mdct'[c].fr <= mdct'[c].tl
      <3>1. /\ mdct'[c].fl = IF mdct[c].fr = 0 THEN mdct'[c].fr ELSE mdct[c].fr
            /\ mdct'[c].tl = IF lastWindowSequence[c] = Short THEN ShortSlope ELSE FrameLength
            /\ cfg.lowDelay => mdct'[c].fr \in {FrameLength, LowSlope}
            /\ ~cfg.lowDelay => mdct'[c].fr = IF lastWindowSequence[c] \in {Start, Short}
                                              THEN ShortSlope ELSE FrameLength
        BY TransformFacts
      <3>2. CASE cfg.lowDelay
        <4>1. lastWindowSequence[c] # Short /\ mdct[c].fr \in {0, FrameLength, LowSlope}
          BY <1>4, <3>2 DEF LowDelayInv, Long, Start, Short
        <4> QED
          BY <3>1, <3>2, <4>1, SlopeFacts
      <3>3. CASE ~cfg.lowDelay
        <4>1. /\ mdct[c].fr \in {0, FrameLength, ShortSlope}
              /\ lastWindowSequence[c] = Short => mdct[c].fr = ShortSlope
          BY <1>1, <1>4, <3>3 DEF LookAheadInv, Looked, Long, Start, Short
        <4> QED
          BY <3>1, <3>3, <4>1, SlopeFacts
      <3> QED
        BY <1>3, <3>2, <3>3
    <2> QED
      BY <1>1, <2>1 DEF SlopesFitTransform
  <1> QED
    BY <1>1, <1>5, <1>6, <1>7, <1>8, <1>9, <1>10, <1>11 DEF IInv

-----------------------------------------------------------------------------

(* Every step keeps the invariant. *)
LEMMA NextIInv == IInv /\ [Next]_vars => IInv'
  <1> SUFFICES ASSUME IInv, [Next]_vars PROVE IInv'
    OBVIOUS
  <1>1. CASE UNCHANGED vars
    <2>1. \A c \in Channels : /\ LowDelayInv(c)' = LowDelayInv(c)
                               /\ LookAheadInv(c)' = LookAheadInv(c)
      BY <1>1 DEF vars, detectorVars, LowDelayInv, LookAheadInv, Fresh, Looked
    <2> QED
      BY <1>1, <2>1 DEF IInv, vars, detectorVars, TypeOK, MdctType, LfeInv, PairInv,
                        SlopesFitTransform, Channels
  <1>2. CASE Next
    BY <1>2, DetectIInv, DetectLfeIInv, SyncIInv, TransformIInv DEF Next
  <1> QED
    BY <1>1, <1>2

(* The automaton of each channel and the synchronisation of the pair stay  *)
(* together, whatever the options and the attacks.                         *)
THEOREM IInvHolds == Spec => []IInv
  BY InitIInv, NextIInv, PTL DEF Spec

(* No table is asked for a sequence it has no entry for; the               *)
(* synchronisation never reports an error.                                 *)
THEOREM TypeCorrect == Spec => []TypeOK
  BY IInvHolds, PTL DEF IInv

(* An attack in the look-ahead is coded in short blocks one frame later,   *)
(* in every channel of the element.                                        *)
THEOREM AttackIsCodedShortHolds == Spec => []AttackIsCodedShort
  <1>1. IInv => AttackIsCodedShort
    BY DEF IInv, LookAheadInv, Looked, AttackIsCodedShort
  <1> QED
    BY <1>1, IInvHolds, PTL

(* mdct_block() is never given a slope longer than its transform.          *)
THEOREM SlopesFitTransformHolds == Spec => []SlopesFitTransform
  BY IInvHolds, PTL DEF IInv

(* The encoder's left slope is the one the decoder derives.                *)
THEOREM SlopesMeetHolds == Spec => SlopesMeet
  <1> DEFINE Meets == \A c \in Channels :
                 mdct'[c] # mdct[c] /\ mdct[c].fr # 0 /\ ~cfg.lowDelay =>
                    mdct'[c].fl = DecodedLeftSlope(psyOut'[c].lastWindowSequence, FrameLength)
  <1>1. ASSUME IInv, Transform, NEW c \in Channels, mdct[c].fr # 0, ~cfg.lowDelay
        PROVE  mdct'[c].fl = DecodedLeftSlope(psyOut'[c].lastWindowSequence, FrameLength)
    <2>1. mdct'[c].fl = mdct[c].fr
      BY <1>1, TransformFacts
    <2>2. psyOut'[c].lastWindowSequence = lastWindowSequence[c]
      BY <1>1 DEF Transform, Output
    <2>3. LookAheadInv(c) /\ phase = "transform"
      BY <1>1 DEF IInv, Transform
    <2>4. mdct[c].fr = IF lastWindowSequence[c] \in {Long, Start} THEN FrameLength ELSE ShortSlope
      BY <1>1, <2>3, SlopeFacts DEF LookAheadInv, Looked, Long, Start, Short, Stop
    <2> QED
      BY <2>1, <2>2, <2>4 DEF DecodedLeftSlope, ShortSlope
  <1>2. IInv /\ [Next]_vars => [Meets]_vars
    <2> SUFFICES ASSUME IInv, Next PROVE Meets
      OBVIOUS
    <2>1. CASE Transform
      BY <1>1, <2>1
    <2>2. CASE ~Transform
      <3>1. UNCHANGED mdct
        BY <2>2 DEF Next, BlockSwitching, SyncBlockSwitching
      <3> QED
        BY <3>1
    <2> QED
      BY <2>1, <2>2
  <1> QED
    BY <1>2, IInvHolds, PTL DEF Spec, SlopesMeet

-----------------------------------------------------------------------------
(* What the decoder reads *)

(* The turn of the loop of IcsRead() for one bit. *)
Joined(len, bit) ==
    IF bit = 1 THEN [len EXCEPT ![Len(len)] = @ + 1] ELSE Append(len, 1)

(* The turns of the loop of psyMain() for a group of n windows. *)
Masked(mask, n) == IF n = 0 THEN 2 * mask ELSE mask * 2 ^ n + 2 ^ (n - 1) - 1

(* The groups of all eight windows come from seven turns of the loop. *)
LEMMA ReadGroupsUnrolled ==
    ASSUME NEW g
    PROVE  \E f : /\ f[0] = <<1>>
                  /\ \A w \in 1 .. 7 : f[w] = Joined(f[w - 1], (g \div 2 ^ (7 - w)) % 2)
                  /\ ReadGroups(g) = f[7]
  <1> DEFINE bit(w) == (g \div 2 ^ (7 - w)) % 2
             step(f, w) == IF w = 0 THEN <<1>>
                           ELSE IF (g \div 2 ^ (TransFac - 1 - w)) % 2 = 1
                           THEN [f[w - 1] EXCEPT ![Len(f[w - 1])] = @ + 1]
                           ELSE Append(f[w - 1], 1)
             len == CHOOSE f : f = [w \in 0 .. TransFac - 1 |-> step(f, w)]
  <1>1. ReadGroups(g) = len[TransFac - 1]
    BY DEF ReadGroups
  <1>2. TransFac - 1 = 7
    BY DEF TransFac
  <1>3. \E f : f = [w \in 0 .. TransFac - 1 |-> step(f, w)]
    <2>1. \A f, w : w \in 1 .. 7 => step(f, w) = Joined(f[w - 1], bit(w))
      BY <1>2 DEF Joined
    <2>2. \A f : step(f, 0) = <<1>>
      OBVIOUS
    <2> HIDE DEF step, bit
    <2> DEFINE l1 == Joined(<<1>>, bit(1))
               l2 == Joined(l1, bit(2))
               l3 == Joined(l2, bit(3))
               l4 == Joined(l3, bit(4))
               l5 == Joined(l4, bit(5))
               l6 == Joined(l5, bit(6))
               l7 == Joined(l6, bit(7))
               h == [w \in 0 .. 7 |->
                       CASE w = 0 -> <<1>> [] w = 1 -> l1 [] w = 2 -> l2 [] w = 3 -> l3
                         [] w = 4 -> l4 [] w = 5 -> l5 [] w = 6 -> l6 [] OTHER -> l7]
    <2>3. /\ l2 = Joined(l1, bit(2)) /\ l3 = Joined(l2, bit(3)) /\ l4 = Joined(l3, bit(4))
          /\ l5 = Joined(l4, bit(5)) /\ l6 = Joined(l5, bit(6)) /\ l7 = Joined(l6, bit(7))
          /\ l1 = Joined(<<1>>, bit(1))
      OBVIOUS
    <2> HIDE DEF l1, l2, l3, l4, l5, l6, l7
    <2>4. /\ h[0] = <<1>> /\ h[1] = l1 /\ h[2] = l2 /\ h[3] = l3
          /\ h[4] = l4 /\ h[5] = l5 /\ h[6] = l6 /\ h[7] = l7
      OBVIOUS
    <2>5. ASSUME NEW w \in 0 .. 7 PROVE h[w] = step(h, w)
      <3> HIDE DEF h
      <3>1. CASE w = 0
        BY <2>2, <2>4, <3>1
      <3>2. CASE w # 0
        <4>1. step(h, w) = Joined(h[w - 1], bit(w))
          BY <2>1, <3>2
        <4>2. h[w] = Joined(h[w - 1], bit(w))
          <5>1. w \in {1, 2, 3, 4, 5, 6, 7}
            BY <3>2
          <5>2. /\ 1 - 1 = 0 /\ 2 - 1 = 1 /\ 3 - 1 = 2 /\ 4 - 1 = 3 /\ 5 - 1 = 4
                /\ 6 - 1 = 5 /\ 7 - 1 = 6
            OBVIOUS
          <5> QED
            BY <2>3, <2>4, <5>1, <5>2
        <4> QED
          BY <4>1, <4>2
      <3> QED
        BY <3>1, <3>2
    <2>6. h = [w \in 0 .. 7 |-> step(h, w)]
      <3>1. h = [w \in 0 .. 7 |-> h[w]]
        OBVIOUS
      <3> HIDE DEF h
      <3> QED
        BY <2>5, <3>1
    <2> HIDE DEF h
    <2> QED
      BY <1>2, <2>6
  <1>4. len = [w \in 0 .. TransFac - 1 |-> step(len, w)]
    BY <1>3, Zenon
  <1> HIDE DEF len
  <1>5. \A w \in 0 .. 7 : len[w] = step(len, w)
    BY <1>2, <1>4
  <1>6. len[0] = <<1>> /\ \A w \in 1 .. 7 : len[w] = Joined(len[w - 1], (g \div 2 ^ (7 - w)) % 2)
    BY <1>2, <1>5 DEF Joined
  <1> QED
    BY <1>1, <1>2, <1>6

(* The mask of n groups comes from n turns. *)
LEMMA MaskUnrolled ==
    ASSUME NEW s, NEW n \in 1 .. 4, Len(s) = n
    PROVE  \E f : /\ f[0] = 0
                  /\ \A k \in 1 .. n : f[k] = Masked(f[k - 1], s[k])
                  /\ GroupingMask(s) = f[n]
  <1> DEFINE step(f, k) == IF k = 0 THEN 0
                           ELSE IF s[k] = 0 THEN 2 * f[k - 1]
                           ELSE f[k - 1] * 2 ^ s[k] + 2 ^ (s[k] - 1) - 1
             mask == CHOOSE f : f = [k \in 0 .. Len(s) |-> step(f, k)]
  <1>1. GroupingMask(s) = mask[Len(s)]
    BY DEF GroupingMask
  <1>2. \A f : step(f, 0) = 0 /\ \A k \in 1 .. n : step(f, k) = Masked(f[k - 1], s[k])
    BY DEF Masked
  <1>3. \E f : f = [k \in 0 .. Len(s) |-> step(f, k)]
    <2> HIDE DEF step
    <2> DEFINE m1 == Masked(0, s[1])
               m2 == Masked(m1, s[2])
               m3 == Masked(m2, s[3])
               m4 == Masked(m3, s[4])
               h == [k \in 0 .. n |->
                       CASE k = 0 -> 0 [] k = 1 -> m1 [] k = 2 -> m2 [] k = 3 -> m3 [] OTHER -> m4]
    <2>1. /\ m1 = Masked(0, s[1]) /\ m2 = Masked(m1, s[2])
          /\ m3 = Masked(m2, s[3]) /\ m4 = Masked(m3, s[4])
      OBVIOUS
    <2> HIDE DEF m1, m2, m3, m4
    <2>2. /\ h[0] = 0
          /\ h[1] = m1
          /\ n >= 2 => h[2] = m2
          /\ n >= 3 => h[3] = m3
          /\ n >= 4 => h[4] = m4
      OBVIOUS
    <2>3. ASSUME NEW k \in 0 .. n PROVE h[k] = step(h, k)
      <3> HIDE DEF h
      <3>1. /\ k \in {0, 1, 2, 3, 4}
            /\ k = 2 => n >= 2
            /\ k = 3 => n >= 3
            /\ k = 4 => n >= 4
        OBVIOUS
      <3>2. k # 0 => step(h, k) = Masked(h[k - 1], s[k])
        BY <1>2
      <3>3. 1 - 1 = 0 /\ 2 - 1 = 1 /\ 3 - 1 = 2 /\ 4 - 1 = 3
        OBVIOUS
      <3> QED
        BY <1>2, <2>1, <2>2, <3>1, <3>2, <3>3
    <2>4. h = [k \in 0 .. n |-> step(h, k)]
      <3>1. h = [k \in 0 .. n |-> h[k]]
        OBVIOUS
      <3> HIDE DEF h
      <3> QED
        BY <2>3, <3>1
    <2> HIDE DEF h
    <2> QED
      BY <2>4
  <1>4. mask = [k \in 0 .. Len(s) |-> step(mask, k)]
    BY <1>3, Zenon
  <1> HIDE DEF mask
  <1>5. \A k \in 0 .. n : mask[k] = step(mask, k)
    BY <1>4
  <1>6. mask[0] = 0 /\ \A k \in 1 .. n : mask[k] = Masked(mask[k - 1], s[k])
    BY <1>2, <1>5
  <1> QED
    BY <1>1, <1>6

(* t is s with one more element. *)
Extends(s, e, t) ==
    /\ s \in Seq(Nat) /\ e \in Nat /\ t \in Seq(Nat)
    /\ Len(t) = Len(s) + 1 /\ t[Len(t)] = e
    /\ \A i \in 1 .. Len(s) : t[i] = s[i]

(* A sequence is known by its elements. *)
LEMMA AppendedIs ==
    ASSUME NEW s, NEW e, NEW t, Extends(s, e, t)
    PROVE  Append(s, e) = t
  BY SeqEqual DEF Extends

(* A window joins the last group, or opens one: any four group lengths. *)
LEMMA JoinedLengths ==
    ASSUME NEW a \in Nat, NEW b \in Nat, NEW c \in Nat, NEW d \in Nat
    PROVE  /\ Joined(<<a>>, 1) = <<a + 1>>
           /\ Joined(<<a, b>>, 1) = <<a, b + 1>>
           /\ Joined(<<a, b, c>>, 1) = <<a, b, c + 1>>
           /\ Joined(<<a, b, c, d>>, 1) = <<a, b, c, d + 1>>
           /\ Joined(<<a>>, 0) = <<a, 1>>
           /\ Joined(<<a, b>>, 0) = <<a, b, 1>>
           /\ Joined(<<a, b, c>>, 0) = <<a, b, c, 1>>
  <1>1. /\ Append(<<a>>, 1) = <<a, 1>>
        /\ Append(<<a, b>>, 1) = <<a, b, 1>>
        /\ Append(<<a, b, c>>, 1) = <<a, b, c, 1>>
    <2>1. Append(<<a>>, 1) = <<a, 1>>
      <3> DEFINE s == <<a>>
                 t == <<a, 1>>
      <3>1. /\ s \in Seq(Nat) /\ Len(s) = 1 /\ t \in Seq(Nat) /\ Len(t) = 2 /\ t[2] = 1
            /\ \A i \in 1 .. 1 : t[i] = s[i]
        OBVIOUS
      <3> HIDE DEF s, t
      <3>2. Append(s, 1) = t
        <4>1. Extends(s, 1, t)
          BY <3>1 DEF Extends
        <4> QED
          BY <4>1, AppendedIs
      <3> QED
        BY <3>2 DEF s, t
    <2>2. Append(<<a, b>>, 1) = <<a, b, 1>>
      <3> DEFINE s == <<a, b>>
                 t == <<a, b, 1>>
      <3>1. /\ s \in Seq(Nat) /\ Len(s) = 2 /\ t \in Seq(Nat) /\ Len(t) = 3 /\ t[3] = 1
            /\ \A i \in 1 .. 2 : t[i] = s[i]
        OBVIOUS
      <3> HIDE DEF s, t
      <3>2. Append(s, 1) = t
        <4>1. Extends(s, 1, t)
          BY <3>1 DEF Extends
        <4> QED
          BY <4>1, AppendedIs
      <3> QED
        BY <3>2 DEF s, t
    <2>3. Append(<<a, b, c>>, 1) = <<a, b, c, 1>>
      <3> DEFINE s == <<a, b, c>>
                 t == <<a, b, c, 1>>
      <3>1. /\ s \in Seq(Nat) /\ Len(s) = 3 /\ t \in Seq(Nat) /\ Len(t) = 4 /\ t[4] = 1
            /\ \A i \in 1 .. 3 : t[i] = s[i]
        OBVIOUS
      <3> HIDE DEF s, t
      <3>2. Append(s, 1) = t
        <4>1. Extends(s, 1, t)
          BY <3>1 DEF Extends
        <4> QED
          BY <4>1, AppendedIs
      <3> QED
        BY <3>2 DEF s, t
    <2> QED
      BY <2>1, <2>2, <2>3
  <1>2. /\ Joined(<<a>>, 1) = <<a + 1>>
        /\ Joined(<<a, b>>, 1) = <<a, b + 1>>
        /\ Joined(<<a, b, c>>, 1) = <<a, b, c + 1>>
        /\ Joined(<<a, b, c, d>>, 1) = <<a, b, c, d + 1>>
    BY DEF Joined
  <1> QED
    BY <1>1, <1>2 DEF Joined

(* The same for all lengths; at most four groups are opened. *)
LEMMA JoinedFacts ==
    /\ \A a \in Nat : /\ Joined(<<a>>, 1) = <<a + 1>>
                      /\ Joined(<<a>>, 0) = <<a, 1>>
    /\ \A a, b \in Nat : /\ Joined(<<a, b>>, 1) = <<a, b + 1>>
                         /\ Joined(<<a, b>>, 0) = <<a, b, 1>>
    /\ \A a, b, c \in Nat : /\ Joined(<<a, b, c>>, 1) = <<a, b, c + 1>>
                            /\ Joined(<<a, b, c>>, 0) = <<a, b, c, 1>>
    /\ \A a, b, c, d \in Nat : Joined(<<a, b, c, d>>, 1) = <<a, b, c, d + 1>>
  <1>1. \A a \in Nat : Joined(<<a>>, 1) = <<a + 1>> /\ Joined(<<a>>, 0) = <<a, 1>>
    BY JoinedLengths
  <1>2. \A a, b \in Nat : Joined(<<a, b>>, 1) = <<a, b + 1>> /\ Joined(<<a, b>>, 0) = <<a, b, 1>>
    BY JoinedLengths
  <1>3. \A a, b, c \in Nat : /\ Joined(<<a, b, c>>, 1) = <<a, b, c + 1>>
                             /\ Joined(<<a, b, c>>, 0) = <<a, b, c, 1>>
    BY JoinedLengths
  <1>4. \A a, b, c, d \in Nat : Joined(<<a, b, c, d>>, 1) = <<a, b, c, d + 1>>
    BY JoinedLengths
  <1> QED
    BY <1>1, <1>2, <1>3, <1>4

(* A group of n windows is a zero and n - 1 ones. *)
LEMMA MaskedFacts ==
    ASSUME NEW m \in Nat
    PROVE  /\ Masked(m, 1) = 2 * m
           /\ Masked(m, 2) = 4 * m + 1
           /\ Masked(m, 3) = 8 * m + 3
           /\ Masked(m, 4) = 16 * m + 7
           /\ Masked(m, 5) = 32 * m + 15
           /\ Masked(m, 6) = 64 * m + 31
           /\ Masked(m, 7) = 128 * m + 63
           /\ Masked(m, 8) = 256 * m + 127
  BY DEF Masked

(* What the decoder makes of seven bits. *)
LEMMA ReadBits ==
    ASSUME NEW b1 \in {0, 1}, NEW b2 \in {0, 1}, NEW b3 \in {0, 1}, NEW b4 \in {0, 1},
           NEW b5 \in {0, 1}, NEW b6 \in {0, 1}, NEW b7 \in {0, 1}
    PROVE  ReadGroups(64 * b1 + 32 * b2 + 16 * b3 + 8 * b4 + 4 * b5 + 2 * b6 + b7) =
             Joined(Joined(Joined(Joined(Joined(Joined(Joined(<<1>>,
               b1), b2), b3), b4), b5), b6), b7)
  <1> DEFINE g == 64 * b1 + 32 * b2 + 16 * b3 + 8 * b4 + 4 * b5 + 2 * b6 + b7
  <1>1. PICK f : /\ f[0] = <<1>>
                 /\ \A w \in 1 .. 7 : f[w] = Joined(f[w - 1], (g \div 2 ^ (7 - w)) % 2)
                 /\ ReadGroups(g) = f[7]
    BY ReadGroupsUnrolled
  <1>2. /\ (g \div 64) % 2 = b1 /\ (g \div 32) % 2 = b2 /\ (g \div 16) % 2 = b3
        /\ (g \div 8) % 2 = b4 /\ (g \div 4) % 2 = b5 /\ (g \div 2) % 2 = b6
        /\ (g \div 1) % 2 = b7
    OBVIOUS
  <1> HIDE DEF g
  <1>3. /\ 2 ^ 6 = 64 /\ 2 ^ 5 = 32 /\ 2 ^ 4 = 16 /\ 2 ^ 3 = 8 /\ 2 ^ 2 = 4 /\ 2 ^ 1 = 2 /\ 2 ^ 0 = 1
    OBVIOUS
  <1>4. /\ f[1] = Joined(f[0], b1) /\ f[2] = Joined(f[1], b2)
        /\ f[3] = Joined(f[2], b3) /\ f[4] = Joined(f[3], b4)
        /\ f[5] = Joined(f[4], b5) /\ f[6] = Joined(f[5], b6)
        /\ f[7] = Joined(f[6], b7)
    BY <1>1, <1>2, <1>3
  <1> QED
    BY <1>1, <1>4 DEF g

(* The decoder reads the groups that were written, from the bits that were. *)
Returned(s) == ReadGroups(GroupingMask(s) % 2 ^ (TransFac - 1)) = s

(* The mask of up to four groups. *)
LEMMA MaskOf ==
    /\ \A a : GroupingMask(<<a>>) = Masked(0, a)
    /\ \A a, b : GroupingMask(<<a, b>>) = Masked(Masked(0, a), b)
    /\ \A a, b, c : GroupingMask(<<a, b, c>>) = Masked(Masked(Masked(0, a), b), c)
    /\ \A a, b, c, d :
          GroupingMask(<<a, b, c, d>>) = Masked(Masked(Masked(Masked(0, a), b), c), d)
  <1>1. ASSUME NEW a
        PROVE  GroupingMask(<<a>>) = Masked(0, a)
    <2> DEFINE s == <<a>>
    <2>1. Len(s) = 1 /\ s[1] = a
      OBVIOUS
    <2> HIDE DEF s
    <2>2. PICK f : /\ f[0] = 0
                   /\ \A k \in 1 .. 1 : f[k] = Masked(f[k - 1], s[k])
                   /\ GroupingMask(s) = f[1]
      BY <2>1, MaskUnrolled
    <2>3. f[1] = Masked(f[0], a)
      BY <2>1, <2>2
    <2> QED
      BY <2>2, <2>3 DEF s
  <1>2. ASSUME NEW a, NEW b
        PROVE  GroupingMask(<<a, b>>) = Masked(Masked(0, a), b)
    <2> DEFINE s == <<a, b>>
    <2>1. Len(s) = 2 /\ s[1] = a /\ s[2] = b
      OBVIOUS
    <2> HIDE DEF s
    <2>2. PICK f : /\ f[0] = 0
                   /\ \A k \in 1 .. 2 : f[k] = Masked(f[k - 1], s[k])
                   /\ GroupingMask(s) = f[2]
      BY <2>1, MaskUnrolled
    <2>3. f[1] = Masked(f[0], a) /\ f[2] = Masked(f[1], b)
      BY <2>1, <2>2
    <2> QED
      BY <2>2, <2>3 DEF s
  <1>3. ASSUME NEW a, NEW b, NEW c
        PROVE  GroupingMask(<<a, b, c>>) = Masked(Masked(Masked(0, a), b), c)
    <2> DEFINE s == <<a, b, c>>
    <2>1. Len(s) = 3 /\ s[1] = a /\ s[2] = b /\ s[3] = c
      OBVIOUS
    <2> HIDE DEF s
    <2>2. PICK f : /\ f[0] = 0
                   /\ \A k \in 1 .. 3 : f[k] = Masked(f[k - 1], s[k])
                   /\ GroupingMask(s) = f[3]
      BY <2>1, MaskUnrolled
    <2>3. f[1] = Masked(f[0], a) /\ f[2] = Masked(f[1], b) /\ f[3] = Masked(f[2], c)
      BY <2>1, <2>2
    <2> QED
      BY <2>2, <2>3 DEF s
  <1>4. ASSUME NEW a, NEW b, NEW c, NEW d
        PROVE  GroupingMask(<<a, b, c, d>>) = Masked(Masked(Masked(Masked(0, a), b), c), d)
    <2> DEFINE s == <<a, b, c, d>>
    <2>1. Len(s) = 4 /\ s[1] = a /\ s[2] = b /\ s[3] = c /\ s[4] = d
      OBVIOUS
    <2> HIDE DEF s
    <2>2. PICK f : /\ f[0] = 0
                   /\ \A k \in 1 .. 4 : f[k] = Masked(f[k - 1], s[k])
                   /\ GroupingMask(s) = f[4]
      BY <2>1, MaskUnrolled
    <2>3. f[1] = Masked(f[0], a) /\ f[2] = Masked(f[1], b) /\ f[3] = Masked(f[2], c) /\ f[4] = Masked(f[3], d)
      BY <2>1, <2>2
    <2> QED
      BY <2>2, <2>3 DEF s
  <1> QED
    BY <1>1, <1>2, <1>3, <1>4

(* All groupings an encoder may be told to use. *)
GroupLists ==
    {<<1, 3, 3, 1>>, <<1, 1, 3, 3>>, <<2, 1, 3, 2>>, <<3, 1, 3, 1>>,
     <<3, 1, 1, 3>>, <<3, 2, 1, 2>>, <<3, 3, 1, 1>>, <<8>>,
     <<2, 2, 2, 2>>, <<1, 7>>, <<1, 1, 6>>, <<1, 1, 1, 5>>,
     <<2, 1, 1, 4>>, <<4, 1, 1, 2>>, <<5, 1, 1, 1>>, <<6, 1, 1>>}

(* Each of them reaches the decoder: the mask, its seven bits, and what *)
(* they are read as.                                                    *)
LEMMA GroupsReturn == \A s \in GroupLists : Returned(s)
  <1>0. 2 ^ (TransFac - 1) = 128
    <2>1. TransFac - 1 = 7 /\ 2 ^ 7 = 128
      BY DEF TransFac
    <2> QED
      BY <2>1
  <1>1. Returned(<<1, 3, 3, 1>>)
    <2>1. /\ Masked(0, 1) = 0 /\ Masked(0, 3) = 3 /\ Masked(3, 3) = 27
          /\ Masked(27, 1) = 54
      BY MaskedFacts
    <2>2. /\ Joined(<<1>>, 0) = <<1, 1>> /\ Joined(<<1, 1>>, 1) = <<1, 2>>
          /\ Joined(<<1, 2>>, 1) = <<1, 3>> /\ Joined(<<1, 3>>, 0) = <<1, 3, 1>>
          /\ Joined(<<1, 3, 1>>, 1) = <<1, 3, 2>>
          /\ Joined(<<1, 3, 2>>, 1) = <<1, 3, 3>>
          /\ Joined(<<1, 3, 3>>, 0) = <<1, 3, 3, 1>>
      BY JoinedFacts
    <2>3. GroupingMask(<<1, 3, 3, 1>>) % 128 = 54
      BY <2>1, MaskOf
    <2>4. 64 * 0 + 32 * 1 + 16 * 1 + 8 * 0 + 4 * 1 + 2 * 1 + 0 = 54
      OBVIOUS
    <2>5. ReadGroups(54) = <<1, 3, 3, 1>>
      BY <2>2, <2>4, ReadBits
    <2> QED
      BY <1>0, <2>3, <2>5 DEF Returned
  <1>2. Returned(<<1, 1, 3, 3>>)
    <2>1. /\ Masked(0, 1) = 0 /\ Masked(0, 1) = 0 /\ Masked(0, 3) = 3
          /\ Masked(3, 3) = 27
      BY MaskedFacts
    <2>2. /\ Joined(<<1>>, 0) = <<1, 1>> /\ Joined(<<1, 1>>, 0) = <<1, 1, 1>>
          /\ Joined(<<1, 1, 1>>, 1) = <<1, 1, 2>>
          /\ Joined(<<1, 1, 2>>, 1) = <<1, 1, 3>>
          /\ Joined(<<1, 1, 3>>, 0) = <<1, 1, 3, 1>>
          /\ Joined(<<1, 1, 3, 1>>, 1) = <<1, 1, 3, 2>>
          /\ Joined(<<1, 1, 3, 2>>, 1) = <<1, 1, 3, 3>>
      BY JoinedFacts
    <2>3. GroupingMask(<<1, 1, 3, 3>>) % 128 = 27
      BY <2>1, MaskOf
    <2>4. 64 * 0 + 32 * 0 + 16 * 1 + 8 * 1 + 4 * 0 + 2 * 1 + 1 = 27
      OBVIOUS
    <2>5. ReadGroups(27) = <<1, 1, 3, 3>>
      BY <2>2, <2>4, ReadBits
    <2> QED
      BY <1>0, <2>3, <2>5 DEF Returned
  <1>3. Returned(<<2, 1, 3, 2>>)
    <2>1. /\ Masked(0, 2) = 1 /\ Masked(1, 1) = 2 /\ Masked(2, 3) = 19
          /\ Masked(19, 2) = 77
      BY MaskedFacts
    <2>2. /\ Joined(<<1>>, 1) = <<2>> /\ Joined(<<2>>, 0) = <<2, 1>>
          /\ Joined(<<2, 1>>, 0) = <<2, 1, 1>>
          /\ Joined(<<2, 1, 1>>, 1) = <<2, 1, 2>>
          /\ Joined(<<2, 1, 2>>, 1) = <<2, 1, 3>>
          /\ Joined(<<2, 1, 3>>, 0) = <<2, 1, 3, 1>>
          /\ Joined(<<2, 1, 3, 1>>, 1) = <<2, 1, 3, 2>>
      BY JoinedFacts
    <2>3. GroupingMask(<<2, 1, 3, 2>>) % 128 = 77
      BY <2>1, MaskOf
    <2>4. 64 * 1 + 32 * 0 + 16 * 0 + 8 * 1 + 4 * 1 + 2 * 0 + 1 = 77
      OBVIOUS
    <2>5. ReadGroups(77) = <<2, 1, 3, 2>>
      BY <2>2, <2>4, ReadBits
    <2> QED
      BY <1>0, <2>3, <2>5 DEF Returned
  <1>4. Returned(<<3, 1, 3, 1>>)
    <2>1. /\ Masked(0, 3) = 3 /\ Masked(3, 1) = 6 /\ Masked(6, 3) = 51
          /\ Masked(51, 1) = 102
      BY MaskedFacts
    <2>2. /\ Joined(<<1>>, 1) = <<2>> /\ Joined(<<2>>, 1) = <<3>>
          /\ Joined(<<3>>, 0) = <<3, 1>> /\ Joined(<<3, 1>>, 0) = <<3, 1, 1>>
          /\ Joined(<<3, 1, 1>>, 1) = <<3, 1, 2>>
          /\ Joined(<<3, 1, 2>>, 1) = <<3, 1, 3>>
          /\ Joined(<<3, 1, 3>>, 0) = <<3, 1, 3, 1>>
      BY JoinedFacts
    <2>3. GroupingMask(<<3, 1, 3, 1>>) % 128 = 102
      BY <2>1, MaskOf
    <2>4. 64 * 1 + 32 * 1 + 16 * 0 + 8 * 0 + 4 * 1 + 2 * 1 + 0 = 102
      OBVIOUS
    <2>5. ReadGroups(102) = <<3, 1, 3, 1>>
      BY <2>2, <2>4, ReadBits
    <2> QED
      BY <1>0, <2>3, <2>5 DEF Returned
  <1>5. Returned(<<3, 1, 1, 3>>)
    <2>1. /\ Masked(0, 3) = 3 /\ Masked(3, 1) = 6 /\ Masked(6, 1) = 12
          /\ Masked(12, 3) = 99
      BY MaskedFacts
    <2>2. /\ Joined(<<1>>, 1) = <<2>> /\ Joined(<<2>>, 1) = <<3>>
          /\ Joined(<<3>>, 0) = <<3, 1>> /\ Joined(<<3, 1>>, 0) = <<3, 1, 1>>
          /\ Joined(<<3, 1, 1>>, 0) = <<3, 1, 1, 1>>
          /\ Joined(<<3, 1, 1, 1>>, 1) = <<3, 1, 1, 2>>
          /\ Joined(<<3, 1, 1, 2>>, 1) = <<3, 1, 1, 3>>
      BY JoinedFacts
    <2>3. GroupingMask(<<3, 1, 1, 3>>) % 128 = 99
      BY <2>1, MaskOf
    <2>4. 64 * 1 + 32 * 1 + 16 * 0 + 8 * 0 + 4 * 0 + 2 * 1 + 1 = 99
      OBVIOUS
    <2>5. ReadGroups(99) = <<3, 1, 1, 3>>
      BY <2>2, <2>4, ReadBits
    <2> QED
      BY <1>0, <2>3, <2>5 DEF Returned
  <1>6. Returned(<<3, 2, 1, 2>>)
    <2>1. /\ Masked(0, 3) = 3 /\ Masked(3, 2) = 13 /\ Masked(13, 1) = 26
          /\ Masked(26, 2) = 105
      BY MaskedFacts
    <2>2. /\ Joined(<<1>>, 1) = <<2>> /\ Joined(<<2>>, 1) = <<3>>
          /\ Joined(<<3>>, 0) = <<3, 1>> /\ Joined(<<3, 1>>, 1) = <<3, 2>>
          /\ Joined(<<3, 2>>, 0) = <<3, 2, 1>>
          /\ Joined(<<3, 2, 1>>, 0) = <<3, 2, 1, 1>>
          /\ Joined(<<3, 2, 1, 1>>, 1) = <<3, 2, 1, 2>>
      BY JoinedFacts
    <2>3. GroupingMask(<<3, 2, 1, 2>>) % 128 = 105
      BY <2>1, MaskOf
    <2>4. 64 * 1 + 32 * 1 + 16 * 0 + 8 * 1 + 4 * 0 + 2 * 0 + 1 = 105
      OBVIOUS
    <2>5. ReadGroups(105) = <<3, 2, 1, 2>>
      BY <2>2, <2>4, ReadBits
    <2> QED
      BY <1>0, <2>3, <2>5 DEF Returned
  <1>7. Returned(<<3, 3, 1, 1>>)
    <2>1. /\ Masked(0, 3) = 3 /\ Masked(3, 3) = 27 /\ Masked(27, 1) = 54
          /\ Masked(54, 1) = 108
      BY MaskedFacts
    <2>2. /\ Joined(<<1>>, 1) = <<2>> /\ Joined(<<2>>, 1) = <<3>>
          /\ Joined(<<3>>, 0) = <<3, 1>> /\ Joined(<<3, 1>>, 1) = <<3, 2>>
          /\ Joined(<<3, 2>>, 1) = <<3, 3>> /\ Joined(<<3, 3>>, 0) = <<3, 3, 1>>
          /\ Joined(<<3, 3, 1>>, 0) = <<3, 3, 1, 1>>
      BY JoinedFacts
    <2>3. GroupingMask(<<3, 3, 1, 1>>) % 128 = 108
      BY <2>1, MaskOf
    <2>4. 64 * 1 + 32 * 1 + 16 * 0 + 8 * 1 + 4 * 1 + 2 * 0 + 0 = 108
      OBVIOUS
    <2>5. ReadGroups(108) = <<3, 3, 1, 1>>
      BY <2>2, <2>4, ReadBits
    <2> QED
      BY <1>0, <2>3, <2>5 DEF Returned
  <1>8. Returned(<<8>>)
    <2>1. Masked(0, 8) = 127
      BY MaskedFacts
    <2>2. /\ Joined(<<1>>, 1) = <<2>> /\ Joined(<<2>>, 1) = <<3>>
          /\ Joined(<<3>>, 1) = <<4>> /\ Joined(<<4>>, 1) = <<5>>
          /\ Joined(<<5>>, 1) = <<6>> /\ Joined(<<6>>, 1) = <<7>>
          /\ Joined(<<7>>, 1) = <<8>>
      BY JoinedFacts
    <2>3. GroupingMask(<<8>>) % 128 = 127
      BY <2>1, MaskOf
    <2>4. 64 * 1 + 32 * 1 + 16 * 1 + 8 * 1 + 4 * 1 + 2 * 1 + 1 = 127
      OBVIOUS
    <2>5. ReadGroups(127) = <<8>>
      BY <2>2, <2>4, ReadBits
    <2> QED
      BY <1>0, <2>3, <2>5 DEF Returned
  <1>9. Returned(<<2, 2, 2, 2>>)
    <2>1. /\ Masked(0, 2) = 1 /\ Masked(1, 2) = 5 /\ Masked(5, 2) = 21
          /\ Masked(21, 2) = 85
      BY MaskedFacts
    <2>2. /\ Joined(<<1>>, 1) = <<2>> /\ Joined(<<2>>, 0) = <<2, 1>>
          /\ Joined(<<2, 1>>, 1) = <<2, 2>> /\ Joined(<<2, 2>>, 0) = <<2, 2, 1>>
          /\ Joined(<<2, 2, 1>>, 1) = <<2, 2, 2>>
          /\ Joined(<<2, 2, 2>>, 0) = <<2, 2, 2, 1>>
          /\ Joined(<<2, 2, 2, 1>>, 1) = <<2, 2, 2, 2>>
      BY JoinedFacts
    <2>3. GroupingMask(<<2, 2, 2, 2>>) % 128 = 85
      BY <2>1, MaskOf
    <2>4. 64 * 1 + 32 * 0 + 16 * 1 + 8 * 0 + 4 * 1 + 2 * 0 + 1 = 85
      OBVIOUS
    <2>5. ReadGroups(85) = <<2, 2, 2, 2>>
      BY <2>2, <2>4, ReadBits
    <2> QED
      BY <1>0, <2>3, <2>5 DEF Returned
  <1>10. Returned(<<1, 7>>)
    <2>1. Masked(0, 1) = 0 /\ Masked(0, 7) = 63
      BY MaskedFacts
    <2>2. /\ Joined(<<1>>, 0) = <<1, 1>> /\ Joined(<<1, 1>>, 1) = <<1, 2>>
          /\ Joined(<<1, 2>>, 1) = <<1, 3>> /\ Joined(<<1, 3>>, 1) = <<1, 4>>
          /\ Joined(<<1, 4>>, 1) = <<1, 5>> /\ Joined(<<1, 5>>, 1) = <<1, 6>>
          /\ Joined(<<1, 6>>, 1) = <<1, 7>>
      BY JoinedFacts
    <2>3. GroupingMask(<<1, 7>>) % 128 = 63
      BY <2>1, MaskOf
    <2>4. 64 * 0 + 32 * 1 + 16 * 1 + 8 * 1 + 4 * 1 + 2 * 1 + 1 = 63
      OBVIOUS
    <2>5. ReadGroups(63) = <<1, 7>>
      BY <2>2, <2>4, ReadBits
    <2> QED
      BY <1>0, <2>3, <2>5 DEF Returned
  <1>11. Returned(<<1, 1, 6>>)
    <2>1. Masked(0, 1) = 0 /\ Masked(0, 1) = 0 /\ Masked(0, 6) = 31
      BY MaskedFacts
    <2>2. /\ Joined(<<1>>, 0) = <<1, 1>> /\ Joined(<<1, 1>>, 0) = <<1, 1, 1>>
          /\ Joined(<<1, 1, 1>>, 1) = <<1, 1, 2>>
          /\ Joined(<<1, 1, 2>>, 1) = <<1, 1, 3>>
          /\ Joined(<<1, 1, 3>>, 1) = <<1, 1, 4>>
          /\ Joined(<<1, 1, 4>>, 1) = <<1, 1, 5>>
          /\ Joined(<<1, 1, 5>>, 1) = <<1, 1, 6>>
      BY JoinedFacts
    <2>3. GroupingMask(<<1, 1, 6>>) % 128 = 31
      BY <2>1, MaskOf
    <2>4. 64 * 0 + 32 * 0 + 16 * 1 + 8 * 1 + 4 * 1 + 2 * 1 + 1 = 31
      OBVIOUS
    <2>5. ReadGroups(31) = <<1, 1, 6>>
      BY <2>2, <2>4, ReadBits
    <2> QED
      BY <1>0, <2>3, <2>5 DEF Returned
  <1>12. Returned(<<1, 1, 1, 5>>)
    <2>1. /\ Masked(0, 1) = 0 /\ Masked(0, 1) = 0 /\ Masked(0, 1) = 0
          /\ Masked(0, 5) = 15
      BY MaskedFacts
    <2>2. /\ Joined(<<1>>, 0) = <<1, 1>> /\ Joined(<<1, 1>>, 0) = <<1, 1, 1>>
          /\ Joined(<<1, 1, 1>>, 0) = <<1, 1, 1, 1>>
          /\ Joined(<<1, 1, 1, 1>>, 1) = <<1, 1, 1, 2>>
          /\ Joined(<<1, 1, 1, 2>>, 1) = <<1, 1, 1, 3>>
          /\ Joined(<<1, 1, 1, 3>>, 1) = <<1, 1, 1, 4>>
          /\ Joined(<<1, 1, 1, 4>>, 1) = <<1, 1, 1, 5>>
      BY JoinedFacts
    <2>3. GroupingMask(<<1, 1, 1, 5>>) % 128 = 15
      BY <2>1, MaskOf
    <2>4. 64 * 0 + 32 * 0 + 16 * 0 + 8 * 1 + 4 * 1 + 2 * 1 + 1 = 15
      OBVIOUS
    <2>5. ReadGroups(15) = <<1, 1, 1, 5>>
      BY <2>2, <2>4, ReadBits
    <2> QED
      BY <1>0, <2>3, <2>5 DEF Returned
  <1>13. Returned(<<2, 1, 1, 4>>)
    <2>1. /\ Masked(0, 2) = 1 /\ Masked(1, 1) = 2 /\ Masked(2, 1) = 4
          /\ Masked(4, 4) = 71
      BY MaskedFacts
    <2>2. /\ Joined(<<1>>, 1) = <<2>> /\ Joined(<<2>>, 0) = <<2, 1>>
          /\ Joined(<<2, 1>>, 0) = <<2, 1, 1>>
          /\ Joined(<<2, 1, 1>>, 0) = <<2, 1, 1, 1>>
          /\ Joined(<<2, 1, 1, 1>>, 1) = <<2, 1, 1, 2>>
          /\ Joined(<<2, 1, 1, 2>>, 1) = <<2, 1, 1, 3>>
          /\ Joined(<<2, 1, 1, 3>>, 1) = <<2, 1, 1, 4>>
      BY JoinedFacts
    <2>3. GroupingMask(<<2, 1, 1, 4>>) % 128 = 71
      BY <2>1, MaskOf
    <2>4. 64 * 1 + 32 * 0 + 16 * 0 + 8 * 0 + 4 * 1 + 2 * 1 + 1 = 71
      OBVIOUS
    <2>5. ReadGroups(71) = <<2, 1, 1, 4>>
      BY <2>2, <2>4, ReadBits
    <2> QED
      BY <1>0, <2>3, <2>5 DEF Returned
  <1>14. Returned(<<4, 1, 1, 2>>)
    <2>1. /\ Masked(0, 4) = 7 /\ Masked(7, 1) = 14 /\ Masked(14, 1) = 28
          /\ Masked(28, 2) = 113
      BY MaskedFacts
    <2>2. /\ Joined(<<1>>, 1) = <<2>> /\ Joined(<<2>>, 1) = <<3>>
          /\ Joined(<<3>>, 1) = <<4>> /\ Joined(<<4>>, 0) = <<4, 1>>
          /\ Joined(<<4, 1>>, 0) = <<4, 1, 1>>
          /\ Joined(<<4, 1, 1>>, 0) = <<4, 1, 1, 1>>
          /\ Joined(<<4, 1, 1, 1>>, 1) = <<4, 1, 1, 2>>
      BY JoinedFacts
    <2>3. GroupingMask(<<4, 1, 1, 2>>) % 128 = 113
      BY <2>1, MaskOf
    <2>4. 64 * 1 + 32 * 1 + 16 * 1 + 8 * 0 + 4 * 0 + 2 * 0 + 1 = 113
      OBVIOUS
    <2>5. ReadGroups(113) = <<4, 1, 1, 2>>
      BY <2>2, <2>4, ReadBits
    <2> QED
      BY <1>0, <2>3, <2>5 DEF Returned
  <1>15. Returned(<<5, 1, 1, 1>>)
    <2>1. /\ Masked(0, 5) = 15 /\ Masked(15, 1) = 30 /\ Masked(30, 1) = 60
          /\ Masked(60, 1) = 120
      BY MaskedFacts
    <2>2. /\ Joined(<<1>>, 1) = <<2>> /\ Joined(<<2>>, 1) = <<3>>
          /\ Joined(<<3>>, 1) = <<4>> /\ Joined(<<4>>, 1) = <<5>>
          /\ Joined(<<5>>, 0) = <<5, 1>> /\ Joined(<<5, 1>>, 0) = <<5, 1, 1>>
          /\ Joined(<<5, 1, 1>>, 0) = <<5, 1, 1, 1>>
      BY JoinedFacts
    <2>3. GroupingMask(<<5, 1, 1, 1>>) % 128 = 120
      BY <2>1, MaskOf
    <2>4. 64 * 1 + 32 * 1 + 16 * 1 + 8 * 1 + 4 * 0 + 2 * 0 + 0 = 120
      OBVIOUS
    <2>5. ReadGroups(120) = <<5, 1, 1, 1>>
      BY <2>2, <2>4, ReadBits
    <2> QED
      BY <1>0, <2>3, <2>5 DEF Returned
  <1>16. Returned(<<6, 1, 1>>)
    <2>1. Masked(0, 6) = 31 /\ Masked(31, 1) = 62 /\ Masked(62, 1) = 124
      BY MaskedFacts
    <2>2. /\ Joined(<<1>>, 1) = <<2>> /\ Joined(<<2>>, 1) = <<3>>
          /\ Joined(<<3>>, 1) = <<4>> /\ Joined(<<4>>, 1) = <<5>>
          /\ Joined(<<5>>, 1) = <<6>> /\ Joined(<<6>>, 0) = <<6, 1>>
          /\ Joined(<<6, 1>>, 0) = <<6, 1, 1>>
      BY JoinedFacts
    <2>3. GroupingMask(<<6, 1, 1>>) % 128 = 124
      BY <2>1, MaskOf
    <2>4. 64 * 1 + 32 * 1 + 16 * 1 + 8 * 1 + 4 * 1 + 2 * 0 + 0 = 124
      OBVIOUS
    <2>5. ReadGroups(124) = <<6, 1, 1>>
      BY <2>2, <2>4, ReadBits
    <2> QED
      BY <1>0, <2>3, <2>5 DEF Returned
  <1> QED
    BY <1>1, <1>2, <1>3, <1>4, <1>5, <1>6, <1>7, <1>8,
       <1>9, <1>10, <1>11, <1>12, <1>13, <1>14, <1>15, <1>16 DEF GroupLists

(* The concatenations TightGrouping makes. *)
LEMMA ConcatFacts ==
    /\ << >> \o << >> = << >>
    /\ \A x \in Nat : << >> \o <<x>> = <<x>>
    /\ \A x, e \in Nat : <<x>> \o <<e>> = <<x, e>>
    /\ \A x, y, e \in Nat : <<x, y>> \o <<e>> = <<x, y, e>>
    /\ \A x, y, z, e \in Nat : <<x, y, z>> \o <<e>> = <<x, y, z, e>>
    /\ \A x, y, z \in Nat : <<x, y, z>> \o << >> = <<x, y, z>>
  <1>1. ASSUME NEW s, NEW e, NEW t, Extends(s, e, t)
        PROVE  s \o <<e>> = t
    <2>1. s \in Seq(Nat) /\ e \in Nat
      BY <1>1 DEF Extends
    <2>2. Append(s, e) = s \o <<e>>
      BY <2>1, AppendIsConcat
    <2> QED
      BY <1>1, <2>2, AppendedIs
  <1>2. << >> \in Seq(Nat)
    OBVIOUS
  <1>3. << >> \o << >> = << >> /\ \A s \in Seq(Nat) : << >> \o s = s /\ s \o << >> = s
    BY <1>2, ConcatEmptySeq
  <1>4. /\ \A x, e \in Nat : Extends(<<x>>, e, <<x, e>>)
        /\ \A x, y, e \in Nat : Extends(<<x, y>>, e, <<x, y, e>>)
        /\ \A x, y, z, e \in Nat : Extends(<<x, y, z>>, e, <<x, y, z, e>>)
    BY DEF Extends
  <1>5. \A x, y, z \in Nat : <<x>> \in Seq(Nat) /\ <<x, y, z>> \in Seq(Nat)
    OBVIOUS
  <1>6. \A x, e \in Nat : <<x>> \o <<e>> = <<x, e>>
    BY <1>1, <1>4
  <1>7. \A x, y, e \in Nat : <<x, y>> \o <<e>> = <<x, y, e>>
    BY <1>1, <1>4
  <1>8. \A x, y, z, e \in Nat : <<x, y, z>> \o <<e>> = <<x, y, z, e>>
    <2>1. ASSUME NEW x \in Nat, NEW y \in Nat, NEW z \in Nat, NEW e \in Nat
          PROVE  <<x, y, z>> \o <<e>> = <<x, y, z, e>>
      <3>1. Extends(<<x, y, z>>, e, <<x, y, z, e>>)
        BY <1>4
      <3> QED
        BY <1>1, <3>1
    <2> QED
      BY <2>1
  <1>9. \A x \in Nat : << >> \o <<x>> = <<x>>
    BY <1>3, <1>5
  <1>10. \A x, y, z \in Nat : <<x, y, z>> \o << >> = <<x, y, z>>
    BY <1>3, <1>5
  <1> QED
    BY <1>3, <1>6, <1>7, <1>8, <1>9, <1>10

(* A tight grouping is one of the list, *)
LEMMA TightFacts ==
    ASSUME NEW a \in 0 .. 7
    PROVE  TightGrouping(a) \in GroupLists
  <1> USE DEF TransFac
  <1>1. CASE a = 0
    <2>1. TightGrouping(a) = ((<< >> \o << >>) \o <<1>>) \o <<7>>
      BY <1>1 DEF TightGrouping
    <2>2. TightGrouping(a) = <<1, 7>>
      BY <2>1, ConcatFacts
    <2> QED
      BY <2>2 DEF GroupLists
  <1>2. CASE a = 1
    <2>1. TightGrouping(a) = ((<< >> \o <<1>>) \o <<1>>) \o <<6>>
      BY <1>2 DEF TightGrouping
    <2>2. << >> \o <<1>> = <<1>> /\ <<1>> \o <<1>> = <<1, 1>> /\ <<1, 1>> \o <<6>> = <<1, 1, 6>>
      BY ConcatFacts
    <2>3. TightGrouping(a) = <<1, 1, 6>>
      BY <2>1, <2>2
    <2> QED
      BY <2>3 DEF GroupLists
  <1>3. CASE a \in 2 .. 6
    <2>1. TightGrouping(a) = ((<<a - 1>> \o <<1>>) \o <<1>>) \o <<7 - a>>
      BY <1>3 DEF TightGrouping
    <2>2. PICK x \in Nat, e \in Nat : x = a - 1 /\ e = 7 - a
      BY <1>3
    <2>3. /\ <<x>> \o <<1>> = <<x, 1>> /\ <<x, 1>> \o <<1>> = <<x, 1, 1>>
          /\ <<x, 1, 1>> \o <<e>> = <<x, 1, 1, e>>
      BY ConcatFacts
    <2>4. TightGrouping(a) = <<x, 1, 1, e>>
      BY <2>1, <2>2, <2>3
    <2>5. \/ x = 1 /\ e = 5
          \/ x = 2 /\ e = 4
          \/ x = 3 /\ e = 3
          \/ x = 4 /\ e = 2
          \/ x = 5 /\ e = 1
      BY <1>3, <2>2
    <2> QED
      BY <2>4, <2>5 DEF GroupLists
  <1>4. CASE a = 7
    <2>1. TightGrouping(a) = ((<<6>> \o <<1>>) \o <<1>>) \o << >>
      BY <1>4 DEF TightGrouping
    <2>2. /\ <<6>> \o <<1>> = <<6, 1>> /\ <<6, 1>> \o <<1>> = <<6, 1, 1>>
          /\ <<6, 1, 1>> \o << >> = <<6, 1, 1>>
      BY ConcatFacts
    <2>3. TightGrouping(a) = <<6, 1, 1>>
      BY <2>1, <2>2
    <2> QED
      BY <2>3 DEF GroupLists
  <1> QED
    BY <1>1, <1>2, <1>3, <1>4

(* and so is any that the detector suggests. *)
LEMMA SuggestedFacts ==
    ASSUME NEW a \in AttackWindows
    PROVE  SuggestedGrouping(a) \in GroupLists
  <1>1. a \in 0 .. 7
    BY BlockAssumption DEF TransFac
  <1>2. SuggestedGroupingTable[a] \in GroupLists
    <2>1. a \in {0, 1, 2, 3, 4, 5, 6, 7}
      BY <1>1
    <2> QED
      BY <2>1 DEF SuggestedGroupingTable, GroupLists, TransFac
  <1>3. <<TransFac>> \in GroupLists /\ <<2, 2, 2, 2>> \in GroupLists
    BY DEF GroupLists, TransFac
  <1> QED
    BY <1>1, <1>2, <1>3, TightFacts DEF SuggestedGrouping

(* A channel that may be coded short has a grouping of the list, from the *)
(* detector to the output.                                                *)
GroupsInv ==
    ~cfg.lowDelay /\ cfg.element # "lfe" =>
        /\ DOMAIN groups = Channels
        /\ \A c \in Channels :
              Looked(c) /\ (phase = "transform" => lastWindowSequence[c] = Short) =>
                  groups[c] \in GroupLists

(* The detector gives a block the window shape of its sequence. *)
DetectedInv ==
    phase # "transform" => \A c \in Channels :
        Looked(c) => windowShape[c] = IF cfg.element = "lfe" THEN "sine"
                                      ELSE WindowShape(lastWindowSequence[c])

(* After the synchronisation all channels have the same block, with a shape *)
(* the bitstream can name.                                                  *)
SyncedInv ==
    phase = "transform" => \A c \in Channels :
        /\ windowShape[c] \in IF cfg.lowDelay THEN {"sine", "lol"} ELSE {"sine", "kbd"}
        /\ lastWindowSequence[c] = Short /\ cfg.windowShape = "stock" =>
              windowShape[c] = "sine"
        /\ windowShape[c] = windowShape[0] /\ lastWindowSequence[c] = lastWindowSequence[0]
        /\ lastWindowSequence[c] = Short => groups[c] = groups[0]

(* The three, with the property. *)
SeenInv == GroupsInv /\ DetectedInv /\ SyncedInv /\ DecoderSeesBlock

(* The shape frWinShape() gives to a sequence. *)
LEMMA SharedShape ==
    ASSUME cfg \in Configurations,
           NEW s \in {Long, Start, Short, Stop},
           cfg.lowDelay => s \in {Long, Start}
    PROVE  /\ WindowShape(s) \in {"sine", "kbd"}
           /\ s = Short /\ cfg.windowShape = "stock" => WindowShape(s) = "sine"
           /\ cfg.lowDelay /\ s = Long => WindowShape(s) = "sine"
  BY ShapeFacts DEF WindowShape, StockShape, Long, Start, Short, Stop, LowOv

(* It holds at the start. *)
LEMMA InitSeen == Init => SeenInv
  BY ChannelFacts DEF Init, SeenInv, GroupsInv, DetectedInv, SyncedInv, DecoderSeesBlock,
                      FrameCoded, Looked, Channels

(* The detector chooses shape and grouping together with the sequence. *)
LEMMA DetectSeen ==
    ASSUME IInv, SeenInv, NEW c \in Channels, BlockSwitching(c)
    PROVE  SeenInv'
  <1>1. /\ UNCHANGED cfg /\ Channels' = Channels
        /\ phase' \in {"detect1", "sync"} /\ phase \in {"detect0", "detect1"}
        /\ phase' = "detect1" => c = 0 /\ phase = "detect0"
        /\ phase = "detect1" => c = 1
        /\ phase = "detect0" /\ phase' = "sync" => Channels = {0} /\ c = 0
    BY ChannelFacts DEF BlockSwitching, Channels
  <1>2. SyncedInv' /\ DecoderSeesBlock'
    BY <1>1 DEF SyncedInv, DecoderSeesBlock, FrameCoded
  <1>3. \A e \in Channels : Looked(e)' /\ e # c => Looked(e)
    BY <1>1, ChannelFacts DEF Looked
  <1>4. /\ DOMAIN windowShape = Channels /\ DOMAIN lastWindowSequence = Channels
        /\ attackIndex[c] \in AttackWindows
    BY DEF IInv, TypeOK
  <1>5. GroupsInv'
    <2>1. ASSUME ~cfg.lowDelay, cfg.element # "lfe"
          PROVE  /\ DOMAIN groups' = Channels
                 /\ \A e \in Channels : Looked(e)' => groups'[e] \in GroupLists
      <3>1. groups' = [groups EXCEPT ![c] = SuggestedGrouping(attackIndex[c])]
        BY <2>1 DEF BlockSwitching, Detect
      <3>2. SuggestedGrouping(attackIndex[c]) \in GroupLists
        BY <1>4, SuggestedFacts
      <3>3. /\ DOMAIN groups = Channels /\ phase # "transform"
            /\ \A e \in Channels : Looked(e) => groups[e] \in GroupLists
        BY <1>1, <2>1 DEF SeenInv, GroupsInv
      <3> QED
        BY <1>3, <3>1, <3>2, <3>3
    <2> QED
      BY <1>1, <2>1 DEF GroupsInv
  <1>6. DetectedInv'
    <2> DEFINE Shape(e) == IF cfg.element = "lfe" THEN "sine" ELSE WindowShape(lastWindowSequence[e])
    <2>1. windowShape'[c] = IF cfg.element = "lfe" THEN "sine"
                            ELSE WindowShape(lastWindowSequence'[c])
      BY <1>1, <1>4, ChannelFacts DEF BlockSwitching, Detect, DetectLfe
    <2>2. \A e \in Channels : e # c =>
             windowShape'[e] = windowShape[e] /\ lastWindowSequence'[e] = lastWindowSequence[e]
      BY <1>1, <1>4, ChannelFacts DEF BlockSwitching, Detect, DetectLfe
    <2>3. \A e \in Channels : Looked(e) => windowShape[e] = Shape(e)
      BY <1>1 DEF SeenInv, DetectedInv
    <2>4. \A s : WindowShape(s)' = WindowShape(s)
      BY <1>1 DEF WindowShape
    <2> QED
      BY <1>1, <1>3, <2>1, <2>2, <2>3, <2>4 DEF DetectedInv
  <1> QED
    BY <1>2, <1>5, <1>6 DEF SeenInv

(* Two coded sequences are synchronised to a coded one. *)
LEMMA SynchronizedCoded ==
    ASSUME NEW p \in {Long, Start, Short, Stop}, NEW q \in {Long, Start, Short, Stop}
    PROVE  LET patch == Synchronized(Synchronized(Long, p), q)
           IN  /\ patch \in {Long, Start, Short, Stop}
               /\ p \in {Long, Start} /\ q \in {Long, Start} => patch \in {Long, Start}
  <1>1. Synchronized(Long, p) = p
    BY DEF Synchronized, Long, Start, Short, Stop, LowOv
  <1>2. /\ Synchronized(p, q) \in {Long, Start, Short, Stop}
        /\ p \in {Long, Start} /\ q \in {Long, Start} => Synchronized(p, q) \in {Long, Start}
    BY DEF Synchronized, Long, Start, Short, Stop, LowOv, WrongWindow
  <1> QED
    BY <1>1, <1>2

(* The synchronisation gives both channels of a pair the same block. *)
LEMMA SyncSeen ==
    ASSUME IInv, SeenInv, SyncBlockSwitching
    PROVE  SeenInv'
  <1>1. /\ UNCHANGED cfg /\ Channels' = Channels /\ phase = "sync"
        /\ TypeOK /\ cfg \in Configurations /\ cfg.lowDelay \in BOOLEAN
        /\ cfg.windowShape \in {"stock", "sine", "kbd"}
        /\ cfg.element \in {"single", "pair", "lfe"}
    BY ConfigFacts DEF SyncBlockSwitching, Channels, IInv, TypeOK
  <1>2. IInv' /\ TypeOK'
    BY SyncIInv DEF IInv
  <1>3. phase' = "transform"
    BY <1>2 DEF SyncBlockSwitching, SyncPair, SyncSingle, TypeOK
  <1>4. ASSUME ~cfg.lowDelay, cfg.element # "lfe"
        PROVE  DOMAIN groups = Channels /\ \A c \in Channels : groups[c] \in GroupLists
    BY <1>1, <1>4 DEF SeenInv, GroupsInv, Looked
  <1>5. ASSUME NEW c \in Channels
        PROVE  /\ lastWindowSequence[c] \in {Long, Start, Short, Stop}
               /\ cfg.lowDelay => lastWindowSequence[c] \in {Long, Start}
               /\ windowShape[c] = IF cfg.element = "lfe" THEN "sine"
                                   ELSE WindowShape(lastWindowSequence[c])
    <2>1. Looked(c)
      BY <1>1 DEF Looked
    <2> QED
      BY <1>1, <2>1 DEF IInv, LowDelayInv, LookAheadInv, CodedSequences, SeenInv, DetectedInv
  <1>6. DecoderSeesBlock' /\ DetectedInv'
    BY <1>3 DEF DecoderSeesBlock, FrameCoded, DetectedInv
  <1>7. CASE cfg.element = "pair"
    <2> DEFINE p == lastWindowSequence[0]
               q == lastWindowSequence[1]
               patch == Synchronized(Synchronized(Long, p), q)
               final == Translate(patch, WindowShape(patch))
               shared == IF patch = Short THEN SharedGroups(patch, patch) ELSE <<1>>
    <2>1. Channels = {0, 1}
      BY <1>7, ChannelFacts
    <2>2. /\ lastWindowSequence' = [c \in Channels |-> final.seq]
          /\ windowShape' = [c \in Channels |-> final.shape]
          /\ groups' = IF cfg.lowDelay THEN groups ELSE [c \in Channels |-> shared]
      BY <1>3, <1>7 DEF SyncBlockSwitching, SyncPair
    <2>3. patch # WrongWindow
      BY <1>3, <1>7 DEF SyncBlockSwitching, SyncPair
    <2>4. /\ patch \in {Long, Start, Short, Stop}
          /\ cfg.lowDelay => patch \in {Long, Start}
      BY <1>5, <2>1, SynchronizedCoded
    <2>5. /\ final.shape \in IF cfg.lowDelay THEN {"sine", "lol"} ELSE {"sine", "kbd"}
          /\ final.seq = Short /\ cfg.windowShape = "stock" => final.shape = "sine"
          /\ cfg.lowDelay => final.seq = Long
          /\ ~cfg.lowDelay => final.seq = patch
      BY <1>1, <2>4, SharedShape DEF Translate, Long, Start, Short, Stop
    <2>6. ~cfg.lowDelay /\ patch = Short => shared \in GroupLists
      BY <1>4, <1>7, <2>1 DEF SharedGroups
    <2> HIDE DEF final, patch, shared
    <2>7. SyncedInv'
      BY <1>1, <2>1, <2>2, <2>5 DEF SyncedInv, Long, Short
    <2>8. GroupsInv'
      BY <1>1, <1>3, <2>2, <2>5, <2>6 DEF GroupsInv
    <2> QED
      BY <1>6, <2>7, <2>8 DEF SeenInv
  <1>8. CASE cfg.element # "pair"
    <2> DEFINE final == Translate(lastWindowSequence[0], windowShape[0])
    <2>1. Channels = {0}
      BY <1>8, ChannelFacts
    <2>2. /\ lastWindowSequence' = [lastWindowSequence EXCEPT ![0] = final.seq]
          /\ windowShape' = [windowShape EXCEPT ![0] = final.shape]
          /\ groups' = IF cfg.lowDelay \/ lastWindowSequence[0] = Short
                       THEN groups ELSE [groups EXCEPT ![0] = <<1>>]
      BY <1>3, <1>8 DEF SyncBlockSwitching, SyncSingle
    <2>3. /\ final.shape \in IF cfg.lowDelay THEN {"sine", "lol"} ELSE {"sine", "kbd"}
          /\ final.seq = Short /\ cfg.windowShape = "stock" => final.shape = "sine"
          /\ cfg.lowDelay => final.seq = Long
          /\ ~cfg.lowDelay => final.seq = lastWindowSequence[0]
      BY <1>1, <1>5, <2>1, SharedShape DEF Translate, Long, Start, Short, Stop
    <2> HIDE DEF final
    <2>4. lastWindowSequence'[0] = final.seq /\ windowShape'[0] = final.shape
      BY <1>1, <2>1, <2>2 DEF TypeOK
    <2>5. SyncedInv'
      BY <1>1, <2>1, <2>3, <2>4 DEF SyncedInv
    <2>6. GroupsInv'
      <3>1. ASSUME ~cfg.lowDelay, cfg.element # "lfe"
            PROVE  /\ DOMAIN groups' = Channels
                   /\ lastWindowSequence'[0] = Short => groups'[0] \in GroupLists
        BY <1>4, <2>1, <2>2, <2>3, <2>4, <3>1
      <3> QED
        BY <1>1, <1>3, <2>1, <3>1 DEF GroupsInv
    <2> QED
      BY <1>6, <2>5, <2>6 DEF SeenInv
  <1> QED
    BY <1>7, <1>8

(* The two bits of the sequence are read as that sequence. *)
LEMMA SequenceRead ==
    ASSUME NEW bits, NEW s \in CodedSequences, bits.type = BlockType[s], NEW lowDelay
    PROVE  IcsRead(bits, lowDelay).seq = s
  BY DEF IcsRead, BlockType, CodedSequences, Long, Start, Short, Stop

(* What the filterbank does is what the fields for the bitstream say. *)
LEMMA TransformSeen ==
    ASSUME IInv, SeenInv, Transform
    PROVE  SeenInv'
  <1>1. /\ UNCHANGED <<cfg, lastWindowSequence, windowShape, detectorVars, groups>>
        /\ phase = "transform" /\ phase' = "detect0" /\ Channels' = Channels
        /\ mdct' = [c \in Channels |-> Transformed(c)]
        /\ psyOut' = [c \in Channels |-> Output(c)]
    BY DEF Transform, Channels
  <1>2. GroupsInv' /\ DetectedInv' /\ SyncedInv'
    <2>1. \A c \in Channels : ~Looked(c)'
      BY <1>1 DEF Looked
    <2> QED
      BY <1>1, <2>1 DEF SeenInv, GroupsInv, DetectedInv, SyncedInv
  <1>3. TypeOK /\ cfg.lowDelay \in BOOLEAN /\ cfg.windowShape \in {"stock", "sine", "kbd"}
        /\ 0 \in Channels
    BY ConfigFacts, ChannelFacts DEF IInv, TypeOK
  <1> DEFINE seq == lastWindowSequence[0]
             shape == windowShape[0]
             bits == EncodeIcsInfo(Output(0))
             read == IcsRead(bits, cfg.lowDelay)
  <1>4. ASSUME NEW c \in Channels
        PROVE  /\ lastWindowSequence[c] = seq /\ windowShape[c] = shape
               /\ seq = Short => groups[c] = groups[0]
               /\ mdct'[c].wrs = windowShape[c]
    BY <1>1 DEF SeenInv, SyncedInv, Transformed
  <1>5. /\ shape \in IF cfg.lowDelay THEN {"sine", "lol"} ELSE {"sine", "kbd"}
        /\ seq = Short /\ cfg.windowShape = "stock" => shape = "sine"
    BY <1>1, <1>3 DEF SeenInv, SyncedInv
  <1>6. /\ seq \in CodedSequences
        /\ cfg.lowDelay => seq = Long
        /\ cfg.element = "lfe" => seq = Long
    BY <1>1, <1>3 DEF IInv, LowDelayInv, LookAheadInv, LfeInv, CodedSequences
  <1>7. seq = Short => groups[0] \in GroupLists
    BY <1>1, <1>3, <1>6 DEF SeenInv, GroupsInv, Looked, Long, Short
  <1>8. /\ bits.type = BlockType[seq]
        /\ bits.shape = IF shape \in {"kbd", "lol"} THEN 1 ELSE 0
        /\ seq = Short => bits.grouping = GroupingMask(groups[0]) % 2 ^ (TransFac - 1)
    BY <1>5 DEF EncodeIcsInfo, Output
  <1> HIDE DEF seq, shape, bits
  <1>9. read.seq = seq
    BY <1>6, <1>8, SequenceRead
  <1>10. read.valid = (cfg.lowDelay => read.seq = Long)
         /\ read.shape = (IF bits.shape = 1 THEN IF cfg.lowDelay THEN "lol" ELSE "kbd" ELSE "sine")
         /\ read.groups = (IF read.seq = Short THEN ReadGroups(bits.grouping) ELSE <<1>>)
    BY DEF IcsRead
  <1> HIDE DEF read
  <1>11. read.valid /\ read.shape = shape
    <2>1. read.valid
      BY <1>6, <1>9, <1>10
    <2>2. bits.shape = 1 <=> shape \in {"kbd", "lol"}
      BY <1>8
    <2> QED
      BY <1>3, <1>5, <1>10, <2>1, <2>2
  <1>12. seq = Short => read.groups = groups[0]
    BY <1>7, <1>8, <1>9, <1>10, GroupsReturn DEF Returned
  <1>13. psyOut'[0] = Output(0)
    BY <1>1, <1>3
  <1>14. \A c \in Channels : /\ read.seq = lastWindowSequence[c]
                             /\ read.shape = mdct'[c].wrs
                             /\ read.seq = Short => read.groups = groups[c]
    BY <1>4, <1>9, <1>11, <1>12
  <1>15. DecoderSeesBlock'
    BY <1>1, <1>11, <1>13, <1>14 DEF DecoderSeesBlock, read, bits
  <1> QED
    BY <1>2, <1>15 DEF SeenInv

(* Every step keeps it. *)
LEMMA NextSeen == IInv /\ SeenInv /\ [Next]_vars => SeenInv'
  <1> SUFFICES ASSUME IInv, SeenInv, [Next]_vars PROVE SeenInv'
    OBVIOUS
  <1>1. CASE UNCHANGED vars
    BY <1>1 DEF vars, detectorVars, SeenInv, GroupsInv, DetectedInv, SyncedInv, DecoderSeesBlock,
                FrameCoded, Looked, Channels, WindowShape
  <1>2. CASE Next
    BY <1>2, DetectSeen, SyncSeen, TransformSeen DEF Next
  <1> QED
    BY <1>1, <1>2

(* The decoder of this repository derives from ics_info() the sequence, the *)
(* shape and the groups the filterbank used, in each channel, with all      *)
(* options for grouping and shape.                                          *)
THEOREM DecoderSeesBlockHolds == Spec => []DecoderSeesBlock
  <1>1. SeenInv => DecoderSeesBlock
    BY DEF SeenInv
  <1> QED
    BY <1>1, InitSeen, NextSeen, IInvHolds, PTL DEF Spec

=============================================================================
