------------------------------- MODULE Limiter -------------------------------
(***************************************************************************)
(* The limiter of the reader chain: read_frames() of                       *)
(* src/src-fdkaac/src/limiter.c.  Every channel has a queue of samples     *)
(* whose first head ones are done.  A half-wave that leaves the full scale *)
(* is attenuated as a whole, so what comes after the last change of sign   *)
(* waits for more input.                                                   *)
(*                                                                         *)
(* A sample is [id, level]: the frame it belongs to and its amplitude, of  *)
(* which the sign and whether it is above the full scale matter:           *)
(*   0 zero, 1 and -1 within the full scale, 2 and -2 above it.            *)
(***************************************************************************)
EXTENDS Integers, Sequences, FiniteSetsExt

CONSTANTS
    NCh,        \* Channels.
    Frames      \* The frames of an instance: the levels of their channels.

ASSUME LimiterAssumption == NCh \in Nat \ {0} /\ Frames \subseteq [1 .. NCh -> -2 .. 2]

VARIABLES
    buf,        \* buffers[n].data
    head,       \* buffers[n].head
    lim,        \* The call in progress: step, request, and res of the source.
    ibuf,       \* What the source has returned, frame by frame.
    limPos,     \* position
    block,      \* What the last call returned, per channel.
    edge        \* Level of the last sample processed (history).

limiterVars == <<buf, head, lim, ibuf, limPos, block, edge>>

LimChannels == 1 .. NCh
Sample == [id : Nat, level : -2 .. 2]

LimiterTypeOK ==
    /\ buf \in [LimChannels -> Seq(Sample)]
    /\ \A c \in LimChannels : head[c] \in 0 .. Len(buf[c])
    /\ lim.pc \in {"idle", "read", "call", "limit"} /\ lim.n \in Nat
    /\ ibuf \in Seq([LimChannels -> Sample])
    /\ limPos \in Nat
    /\ block \in [LimChannels -> Seq(Sample)]
    /\ edge \in [LimChannels -> -2 .. 2]

LimiterInit ==
    /\ buf = [c \in LimChannels |-> << >>]
    /\ head = [c \in LimChannels |-> 0]
    /\ lim = [pc |-> "idle", n |-> 0]
    /\ ibuf = << >>
    /\ limPos = 0
    /\ block = [c \in LimChannels |-> << >>]
    /\ edge = [c \in LimChannels |-> 0]

(* Mutant: the half-wave the input ends in is not held back. *)
LimitEverything(s, res) == Len(s)

(* The samples that can be processed: up to the last one that does not     *)
(* have the sign of the newest; all of them when the input has ended.      *)
Limit(s, res) ==
    IF Len(s) > 0 /\ res > 0
    THEN Max({l \in 0 .. Len(s) : l = 0 \/ s[l].level * s[Len(s)].level <= 0})
    ELSE Len(s)

(* The samples attenuated for a peak at p: from the one after the last     *)
(* sample of the other sign, or after the first that is not yet done, to   *)
(* the one before the next of the other sign.                              *)
HalfWave(s, p, done, limit) ==
    LET opposite(i) == s[i].level * s[p].level < 0
        first == 1 + Max({done + 1} \cup {i \in done + 1 .. p : opposite(i)})
        last  == Min({limit} \cup {i - 1 : i \in {j \in p .. limit : opposite(j)}})
    IN  first .. last

OverScale(level) == level \in {-2, 2}

(* The attenuation maps the peak to the full scale and keeps the signs. *)
Limited(s, done, limit) ==
    LET peaks == {p \in done + 1 .. limit : OverScale(s[p].level)}
        waves == UNION {HalfWave(s, p, done, limit) : p \in peaks}
    IN  [i \in 1 .. Len(s) |->
            IF i \in waves /\ OverScale(s[i].level)
            THEN [s[i] EXCEPT !.level = @ \div 2] ELSE s[i]]

LimiterCall(n) ==
    /\ lim.pc = "idle"
    /\ lim' = [pc |-> "read", n |-> n]
    /\ ibuf' = << >>
    /\ block' = [c \in LimChannels |-> << >>]
    /\ UNCHANGED <<buf, head, limPos, edge>>

(* Mutant: each channel hands out what it has ready. *)
LimiterPassUneven ==
    /\ lim.pc = "limit"
    /\ LET res   == Len(ibuf)
           all   == [c \in LimChannels |-> buf[c] \o [i \in 1 .. res |-> ibuf[i][c]]]
           limit == [c \in LimChannels |-> Limit(all[c], res)]
           done  == [c \in LimChannels |-> Limited(all[c], head[c], limit[c])]
           out   == [c \in LimChannels |-> Min({lim.n, limit[c]})]
       IN  /\ buf' = [c \in LimChannels |-> SubSeq(done[c], out[c] + 1, Len(done[c]))]
           /\ head' = [c \in LimChannels |-> limit[c] - out[c]]
           /\ block' = [c \in LimChannels |-> SubSeq(done[c], 1, out[c])]
           /\ limPos' = limPos + out[1]
           /\ ibuf' = << >>
           /\ edge' = [c \in LimChannels |-> IF limit[c] > head[c]
                                           THEN done[c][limit[c]].level ELSE edge[c]]
           /\ lim' = [lim EXCEPT !.pc = IF out[1] = 0 /\ Len(all[1]) > 0
                                        THEN "read" ELSE "idle"]

(* Mutant: nothing to hand out yet is reported as the end. *)
LimiterPassOnce ==
    /\ lim.pc = "limit"
    /\ LET res   == Len(ibuf)
           all   == [c \in LimChannels |-> buf[c] \o [i \in 1 .. res |-> ibuf[i][c]]]
           limit == [c \in LimChannels |-> Limit(all[c], res)]
           done  == [c \in LimChannels |-> Limited(all[c], head[c], limit[c])]
           out   == Min({lim.n} \cup {limit[c] : c \in LimChannels})
       IN  /\ buf' = [c \in LimChannels |-> SubSeq(done[c], out + 1, Len(done[c]))]
           /\ head' = [c \in LimChannels |-> limit[c] - out]
           /\ block' = [c \in LimChannels |-> SubSeq(done[c], 1, out)]
           /\ limPos' = limPos + out
           /\ ibuf' = << >>
           /\ edge' = [c \in LimChannels |-> IF limit[c] > head[c]
                                           THEN done[c][limit[c]].level ELSE edge[c]]
           /\ lim' = [lim EXCEPT !.pc = "idle"]

(* One turn of the loop after the source has returned ibuf: every channel  *)
(* takes its samples and processes what it can, the frames all channels    *)
(* have ready are handed out, and the loop goes on while that is none and  *)
(* something is held.                                                      *)
LimiterPass ==
    /\ lim.pc = "limit"
    /\ LET res   == Len(ibuf)
           all   == [c \in LimChannels |-> buf[c] \o [i \in 1 .. res |-> ibuf[i][c]]]
           limit == [c \in LimChannels |-> Limit(all[c], res)]
           done  == [c \in LimChannels |-> Limited(all[c], head[c], limit[c])]
           out   == Min({lim.n} \cup {limit[c] : c \in LimChannels})
       IN  /\ buf' = [c \in LimChannels |-> SubSeq(done[c], out + 1, Len(done[c]))]
           /\ head' = [c \in LimChannels |-> limit[c] - out]
           /\ block' = [c \in LimChannels |-> SubSeq(done[c], 1, out)]
           /\ limPos' = limPos + out
           /\ ibuf' = << >>
           /\ edge' = [c \in LimChannels |-> IF limit[c] > head[c]
                                           THEN done[c][limit[c]].level ELSE edge[c]]
           /\ lim' = [lim EXCEPT !.pc = IF out = 0 /\ Len(all[1]) > 0
                                        THEN "read" ELSE "idle"]

-----------------------------------------------------------------------------

(* What is handed out at the same time belongs together: sample i of every *)
(* channel is of the same frame, in the order of the stream, though every  *)
(* channel has its own half-waves to wait for (limiter.c:137).             *)
ChannelsInStep ==
    lim.pc = "idle" =>
        \A c \in LimChannels :
            /\ Len(block[c]) = Len(block[1])
            /\ \A i \in 1 .. Len(block[c]) : block[c][i].id = limPos - Len(block[c]) + i - 1

(* A half-wave is attenuated with one factor: the next sample to process   *)
(* is never of the same sign as the last one processed, so no request size *)
(* cuts a half-wave in two (limiter.c:92).                                 *)
HalfWavesWhole ==
    lim.pc = "limit" =>
        \A c \in LimChannels :
            LET all == buf[c] \o [i \in 1 .. Len(ibuf) |-> ibuf[i][c]]
            IN  head[c] < Len(all) => edge[c] * all[head[c] + 1].level <= 0

(* "The float result goes through the stock limiter (overshoot of the band *)
(* limit above 0 dBFS)" (resample.c:20): nothing above the full scale      *)
(* leaves the limiter.                                                     *)
FullScale ==
    \A c \in LimChannels : \A i \in 1 .. Len(block[c]) : ~OverScale(block[c][i].level)

=============================================================================
