------------------------------ MODULE FrameGen ------------------------------
(***************************************************************************)
(* FDKsbrEnc_frameInfoGenerator(): the time/frequency grid of an SBR       *)
(* frame.  Borders are slots counted from the start of the frame; a frame  *)
(* of class VAR ends up to three slots inside the next one, whose first    *)
(* borders are then a follow-up kept by the generator.                     *)
(*                                                                         *)
(* With the tuning of HE-AAC a transient gets the borders t, t+2 and t+6;  *)
(* the rest of the frame and of the next one is filled up with segments of *)
(* at most dmax slots.  bufferFrameStart and rightBorderFIX are 0 in every *)
(* configuration and left out.                                             *)
(***************************************************************************)
EXTENDS Integers, SequencesExt

FreqResLow == 0
FreqResHigh == 1

SlotCounts == {15, 16}          \* NUMBER_TIME_SLOTS_1920 and _2048
FrameMiddleSlot == 4
DMin == 4
DMax == 12
MinFrameTranDistance == 4

MaxEnvelopes == 5
MaxEnvelopesFixVar == 4
MaxNumRel == 3

FrameClasses == {"FIXFIX", "FIXVAR", "VARFIX", "VARVAR", "FIXFIXonly"}

(* The distances from each border to the next. *)
Steps(bord) == [k \in 1 .. Len(bord) - 1 |-> bord[k + 1] - bord[k]]

High(n) == [k \in 1 .. n |-> FreqResHigh]

-----------------------------------------------------------------------------

(* A follow-up keeps the borders past the end of the frame; tran and fill  *)
(* point to the transient border and the first fill border in it and may   *)
(* be negative.                                                            *)
NoFollowUp == [bord |-> <<>>, freq |-> <<>>, tran |-> 0, fill |-> 0]

(* Mutant: a frame that starts late is not followed up without transient. *)
CalcFrameClassForgets(old, tranFlag) == IF tranFlag THEN "FIXVAR" ELSE "FIXFIX"

CalcFrameClass(old, tranFlag) ==
    IF old \in {"FIXVAR", "VARVAR"}
    THEN IF tranFlag THEN "VARVAR" ELSE "VARFIX"
    ELSE IF tranFlag THEN "FIXVAR" ELSE "FIXFIX"

(* `rest' slots divided so that what is left over is at most dmax: the     *)
(* number of parts and the length of all of them but one.                  *)
Division(rest, fmax) ==
    LET Segment(n) == Min({fmax, 2 * ((rest \div n - 2) \div 2) + 2})
        LeftOver(n) == IF n = 1 THEN rest ELSE rest - (n - 1) * Segment(n)
        parts == CHOOSE n \in 1 .. rest :
                     /\ LeftOver(n) <= DMax
                     /\ \A m \in 1 .. n - 1 : LeftOver(m) > DMax
    IN  [parts |-> parts, s |-> Segment(parts), d |-> LeftOver(parts)]

(* fillFramePre(): the borders put before bmin. *)
FillFramePre(bmin, rest) ==
    LET fill == Division(rest, 8)
    IN  [j \in 1 .. fill.parts - 1 |-> bmin - (fill.parts - j) * fill.s]

(* Mutant: fill segments of the usual length wherever the transient is. *)
CalcFillLengthMaxFixed(slots, tranPos) == 8

CalcFillLengthMax(slots, tranPos) ==
    LET even == CASE tranPos < 4       -> 6
                  [] tranPos \in {4, 5} -> 4
                  [] OTHER             -> 8
    IN  IF slots = 16 THEN even ELSE even - 1

BMax(tran) == tran + 6

(* The reasons why specialCase() and the "spread" over three frames, and   *)
(* the branch of fillFramePost() that removes a border, are not modelled:  *)
(* they are out of reach of the slot counts and the tuning.                *)
ASSUME NoSpecialCase ==
    \A slots \in SlotCounts : \A tranPos \in 0 .. slots - 1 :
        LET rest == 2 * slots - BMax(tranPos + FrameMiddleSlot)
            fill == Division(rest, CalcFillLengthMax(slots, tranPos))
        IN  rest > 0 /\ ~(fill.parts = 1 /\ fill.d < DMin)

-----------------------------------------------------------------------------

(* What stands before the borders of the new transient in a FIXVAR frame. *)
FixVarHead(tran) ==
    LET fill == FillFramePre(tran, tran)
    IN  [bord |-> fill \o <<tran>>, freq |-> High(Len(fill)) \o <<FreqResLow>>,
         nL |-> 0]

(* fillFrameInter() with segmentLength[0] = 0: the follow-up without its   *)
(* fill borders and without those past the transient, joined to the new    *)
(* borders.  When the two are closer than dmin the last border of the      *)
(* follow-up goes, or the transient's own when the follow-up has but one.  *)
FillFrameInter(tran, follow) ==
    LET n == IF follow.fill >= 1 THEN follow.fill ELSE Len(follow.bord)
        last == Max({k \in 1 .. n : follow.bord[k] <= tran})
        middle == tran - follow.bord[last]
        Left(k) == SubSeq(follow.bord, 1, k)
        LeftFreq(k) == SubSeq(follow.freq, 1, k)
        fill == IF middle > DMax THEN FillFramePre(tran, middle) ELSE <<>>
    IN  CASE middle >= DMin ->
               [bord |-> Left(last) \o fill \o <<tran>>,
                freq |-> LeftFreq(last) \o High(Len(fill)) \o <<FreqResLow>>,
                nL |-> last - 1]
          [] middle < DMin /\ last > 1 ->
               [bord |-> Left(last - 1) \o <<tran>>,
                freq |-> LeftFreq(last - 1) \o <<FreqResLow>>,
                nL |-> last - 2]
          [] OTHER -> [bord |-> Left(1), freq |-> LeftFreq(1), nL |-> 0]

(* calcCmonBorder(): the first border at `slot' or later. *)
FirstFrom(bord, slot) == SelectInSeq(bord, LAMBDA b : b >= slot)

(* fillFrameTran() and fillFramePost() after the head; cmon is the border  *)
(* at which the frame ends.                                                *)
Design(slots, tranPos, head) ==
    LET tran == tranPos + FrameMiddleSlot
        bmax == BMax(tran)
        post == Division(2 * slots - bmax, CalcFillLengthMax(slots, tranPos))
        bord == head.bord \o <<tran + 2, bmax>>
                  \o [j \in 1 .. post.parts - 1 |-> bmax + j * post.s]
    IN  [bord |-> bord,
         freq |-> head.freq \o <<FreqResLow, FreqResHigh>> \o High(post.parts - 1),
         cmon |-> FirstFrom(bord, slots),
         tran |-> FirstFrom(bord, tran),
         nL   |-> head.nL,
         fills |-> post.parts - 1]

KeepForFollowUp(slots, d) ==
    [bord |-> [k \in 1 .. Len(d.bord) - d.cmon + 1 |-> d.bord[d.cmon + k - 1] - slots],
     freq |-> SubSeq(d.freq, d.cmon, Len(d.bord)),
     tran |-> d.tran - d.cmon,
     fill |-> Len(d.bord) - d.fills - d.cmon + 1]

-----------------------------------------------------------------------------

(* SBR_GRID.  `left' and `right' are the absolute borders, relLeft and     *)
(* relRight the distances counted from them; a class uses those it has.    *)
(* num is bs_num_env of FIXFIX and FIXFIXonly, tranPos the position which  *)
(* FIXFIXonly keeps in bs_abs_bord.                                        *)
Grid(class) ==
    [class |-> class, num |-> 0, tranPos |-> 0, left |-> 0, right |-> 0,
     relLeft |-> <<>>, relRight |-> <<>>, p |-> 0, freq |-> <<>>]

Pointer(d) == IF d.cmon >= d.tran THEN d.cmon - d.tran + 1 ELSE 0

(* calcCtrlSignal(): FIXVAR is coded from its end to its start, and its    *)
(* first envelope always has the high resolution.                          *)
FixVarSignal(d) ==
    [Grid("FIXVAR") EXCEPT
        !.right = d.bord[d.cmon],
        !.relRight = Reverse(Steps(SubSeq(d.bord, 1, d.cmon))),
        !.freq = Reverse(SubSeq(d.freq, 1, d.cmon - 1)) \o <<FreqResHigh>>,
        !.p = Pointer(d)]

VarFixSignal(follow) ==
    [Grid("VARFIX") EXCEPT
        !.left = follow.bord[1],
        !.relLeft = Steps(follow.bord),
        !.freq = follow.freq,
        !.p = IF follow.tran >= 0 THEN follow.tran + 1 ELSE 0]

(* nL distances are counted from the left border; the distance after them  *)
(* is implied, the others are counted from the right.                      *)
VarVarSignal(d) ==
    LET bord == SubSeq(d.bord, 1, d.cmon)
    IN  [Grid("VARVAR") EXCEPT
            !.left = bord[1],
            !.right = bord[d.cmon],
            !.relLeft = Steps(SubSeq(bord, 1, d.nL + 1)),
            !.relRight = Reverse(Steps(SubSeq(bord, d.nL + 2, d.cmon))),
            !.freq = SubSeq(d.freq, 1, d.cmon - 1),
            !.p = Pointer(d)]

(* createDefFrameInfo() *)
CreateDefFrameInfo(slots, num) ==
    [borders |-> CASE num = 1 -> <<0, slots>>
                   [] num = 2 -> <<0, 8, slots>>
                   [] num = 4 -> <<0, 4, 8, 12, slots>>,
     noise   |-> IF num = 1 THEN <<0, slots>> ELSE <<0, 8, slots>>]

(* envelopeTable_15 and envelopeTable_16: a border at the transient and    *)
(* one four slots later, unless that is too near the end of the frame.     *)
EnvelopeTable(slots, tranPos) ==
    CASE tranPos < 2             -> <<tranPos + 4>>
      [] tranPos + 4 > slots - 2 -> <<tranPos>>
      [] OTHER                   -> <<tranPos, tranPos + 4>>

(* generateFixFixOnly(): the grid of a frame with a transient in low delay *)
GenerateFixFixOnly(slots, tranPos, transIsLow) ==
    LET borders == <<0>> \o EnvelopeTable(slots, tranPos) \o <<slots>>
        short == IF tranPos < 2 THEN 0 ELSE 1
    IN  [borders  |-> borders,
         freqRes  |-> [k \in 1 .. Len(borders) - 1 |->
                         IF ~transIsLow /\ Steps(borders)[k] > 5
                         THEN FreqResHigh ELSE FreqResLow],
         shortEnv |-> short,
         noise    |-> <<0, borders[2], slots>>]

FixFixOnlySignal(tranPos, info) ==
    [Grid("FIXFIXonly") EXCEPT !.num = Len(info.freqRes),
                               !.tranPos = tranPos,
                               !.freq = info.freqRes]

FixFixSignal(num, res) ==
    [Grid("FIXFIX") EXCEPT !.num = num, !.freq = [k \in 1 .. num |-> res]]

(* The borders reached from an absolute one by relative ones. *)
After(b, rel) ==
    LET at[k \in 1 .. Len(rel) + 1] == IF k = 1 THEN b ELSE at[k - 1] + rel[k - 1]
    IN  at

Before(b, rel) == Reverse(After(b, [k \in 1 .. Len(rel) |-> -rel[k]]))

(* The noise floor changes where the envelope that is shortened ends: at   *)
(* the onset; without one at the last inner border, or in a VARFIX frame   *)
(* at the first.                                                           *)
NoiseBorder(class, p, nEnv, short) ==
    CASE class = "VARFIX" /\ p = 0 -> 1
      [] p = 1 \/ (p = 0 /\ class # "VARFIX") -> nEnv - 1
      [] OTHER                     -> short

(* ctrlSignal2FrameInfo() for the frames that are not FIXFIX *)
CtrlSignal2FrameInfo(slots, g) ==
    LET borders == CASE g.class = "FIXVAR" -> <<0>> \o Before(g.right, g.relRight)
                     [] g.class = "VARFIX" -> After(g.left, g.relLeft) \o <<slots>>
                     [] g.class = "VARVAR" -> After(g.left, g.relLeft)
                                                \o Before(g.right, g.relRight)
        nEnv == Len(borders) - 1
        short == IF g.class = "VARFIX"
                 THEN IF g.p <= 1 THEN 0 ELSE g.p - 1
                 ELSE IF g.p = 0 THEN 0 ELSE nEnv + 1 - g.p
        ends == <<borders[1], borders[nEnv + 1]>>
    IN  [borders  |-> borders,
         freqRes  |-> IF g.class = "FIXVAR" THEN Reverse(g.freq) ELSE g.freq,
         shortEnv |-> short,
         noise    |-> IF nEnv = 1 THEN ends
                      ELSE <<ends[1], borders[NoiseBorder(g.class, g.p, nEnv, short) + 1],
                             ends[2]>>]

FixFixInfo(slots, g) ==
    LET def == CreateDefFrameInfo(slots, g.num)
    IN  [borders |-> def.borders, freqRes |-> g.freq, shortEnv |-> 0,
         noise |-> def.noise]

-----------------------------------------------------------------------------

(* The generator of a channel: SBR_ENVELOPE_FRAME as far as it lives on. *)
InitGenerator == [old |-> "FIXFIX", follow |-> NoFollowUp]

(* Low delay: a transient in the last slots of a frame is coded at the     *)
(* start of the next one.                                                  *)
LowDelayTransient(slots, tran, pre) ==
    IF ~tran.flag /\ pre.flag /\ slots - pre.pos < MinFrameTranDistance
    THEN [tran EXCEPT !.flag = TRUE, !.pos = 0] ELSE tran

(* FDKsbrEnc_frameInfoGenerator(): the generator, SBR_GRID and             *)
(* SBR_FRAME_INFO after a frame with the transient `tran'.                 *)
FrameInfoGenerator(c, gen, tran, pre) ==
    LET t == IF c.lowDelay THEN LowDelayTransient(c.slots, tran, pre) ELSE tran
        class == CalcFrameClass(gen.old, t.flag)
        num == IF c.static > 0 THEN c.static ELSE IF t.pos = 0 THEN 1 ELSE 2
        fixfix == FixFixSignal(num, c.freqResFixFix[IF num > 1 THEN 2 ELSE 1])
        only == GenerateFixFixOnly(c.slots, t.pos, c.transIsLow)
        head == IF class = "VARVAR" THEN FillFrameInter(t.pos + FrameMiddleSlot, gen.follow)
                ELSE FixVarHead(t.pos + FrameMiddleSlot)
        design == Design(c.slots, t.pos, head)
        Coded(old, follow, g) ==
            [gen |-> [old |-> old, follow |-> follow], grid |-> g,
             info |-> CtrlSignal2FrameInfo(c.slots, g)]
    IN  CASE c.static > 0 \/ (class = "FIXFIX" /\ ~t.flag) ->
               [gen |-> [gen EXCEPT !.old = "FIXFIX"], grid |-> fixfix,
                info |-> FixFixInfo(c.slots, fixfix)]
          [] c.static = 0 /\ t.flag /\ c.lowDelay ->
               [gen |-> [gen EXCEPT !.old = "FIXFIX"],
                grid |-> FixFixOnlySignal(t.pos, only), info |-> only]
          [] c.static = 0 /\ class = "VARFIX" ->
               Coded("VARFIX", gen.follow, VarFixSignal(gen.follow))
          [] c.static = 0 /\ ~c.lowDelay /\ class = "FIXVAR" ->
               Coded("FIXVAR", KeepForFollowUp(c.slots, design), FixVarSignal(design))
          [] c.static = 0 /\ ~c.lowDelay /\ class = "VARVAR" ->
               Coded("VARVAR", KeepForFollowUp(c.slots, design), VarVarSignal(design))

=============================================================================
