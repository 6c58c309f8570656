----------------------------- MODULE EncodeLoop -----------------------------
(***************************************************************************)
(* encode() and the end of main() in src/src-fdkaac/src/main.c: the loop   *)
(* that pulls PCM from the reader chain, feeds aacEncEncode(), selects the *)
(* AUs to write, drains the encoder at end of input or after a signal, and *)
(* computes the gapless padding from what was written.  It composes        *)
(* Extrapolater (the reader) with AacEncBuffer (the encoder).              *)
(*                                                                         *)
(* The signal handler runs at any instant, and only sets g_interrupted.    *)
(***************************************************************************)
EXTENDS Extrapolater, Sequences

CONSTANTS
    Delay,      \* aacinfo.nDelay: what the encoder flushes.
    DelayCore,  \* aacinfo.nDelayCore: what is declared as priming.
    SubFrames,  \* AUs per output frame (1 unless DAB+).
    Padded,     \* is_padding: profile 2, 5 or 29 and no DAB+.
    WordMod     \* 2^32: padding is a uint32_t.

ASSUME LoopAssumption ==
    /\ Delay \in Nat \ {0}
    /\ DelayCore \in 0 .. Delay
    /\ SubFrames \in Nat \ {0}
    /\ Padded \in BOOLEAN
    /\ Padded => SubFrames = 1 /\ DelayCore >= FrameLen
    /\ WordMod \in Nat /\ WordMod >= 2 * FrameLen + Delay

VARIABLES
    initFlags, nSamplesRead, nZerosAppended, accepted, nAU, pendingAU, out,
    pc,           \* Where encode() or main() is.
    interrupted,  \* g_interrupted.
    nread,        \* Frames the last pcm_read_frames() returned.
    got,          \* pcm_read_frames()'s running count.
    remaining,    \* Frames of ibuf not yet consumed by the encoder.
    flip,         \* Index of the output buffer the next call fills.
    encoded,      \* Frames handed out by the encoder (only counted if Padded).
    obuf,         \* The AU in each output buffer, 0 when its size is 0.
    written,      \* The AUs written to the output, in order.
    fed,          \* Frames returned to encode() by kind (history).
    padding       \* The padding declared in the output file.

INSTANCE AacEncBuffer

encoderVars == <<initFlags, nSamplesRead, nZerosAppended, accepted, nAU,
                 pendingAU, out>>
loopVars == <<pc, interrupted, nread, got, remaining, flip, encoded, obuf,
              written, fed, padding>>
vars == <<readerVars, encoderVars, loopVars>>

Locations == {"top", "read", "encode", "write", "done", "main",
              "finished", "failed"}

(* fed splits the frames handed to encode(): predicted before the input,   *)
(* input, claimed by the return value but never copied, predicted after.   *)
TypeOK ==
    /\ ReaderTypeOK
    /\ BufferTypeOK
    /\ pc \in Locations
    /\ interrupted \in BOOLEAN
    /\ nread \in Nat
    /\ got \in Nat
    /\ remaining \in Nat
    /\ flip \in 0 .. 1
    /\ encoded \in Nat
    /\ obuf \in [0 .. 1 -> Nat]
    /\ written \in Seq(Nat)
    /\ fed \in [head : Nat, audio : Nat, stale : Nat, tail : Nat]
    /\ padding \in 0 .. WordMod - 1

Init ==
    /\ ReaderInit
    /\ BufferInit
    /\ pc = "top"
    /\ interrupted = FALSE
    /\ nread = 1
    /\ got = 0
    /\ remaining = 0
    /\ flip = 0
    /\ encoded = 0
    /\ obuf = [i \in 0 .. 1 |-> 0]
    /\ written = << >>
    /\ fed = [head |-> 0, audio |-> 0, stale |-> 0, tail |-> 0]
    /\ padding = 0

-----------------------------------------------------------------------------

(* SIGINT, SIGHUP or SIGTERM.  handle_signals() ran before encode(). *)
Interrupt ==
    /\ pc \in {"top", "read", "encode", "write", "done", "main"}
    /\ ~interrupted
    /\ interrupted' = TRUE
    /\ UNCHANGED <<readerVars, encoderVars, pc, nread, got, remaining, flip,
                   encoded, obuf, written, fed, padding>>

(* Mutant: pcm_read_frames() keeps the count of the previous call. *)
LoopTopKeepsCount ==
    /\ pc = "top"
    /\ \/ /\ ~interrupted /\ nread > 0
          /\ pc' = "read"
          /\ UNCHANGED <<nread, remaining, got>>
       \/ /\ interrupted \/ nread = 0
          /\ nread' = 0
          /\ remaining' = 0
          /\ pc' = "encode"
          /\ UNCHANGED got
    /\ UNCHANGED <<readerVars, encoderVars, interrupted, flip, encoded, obuf,
                   written, fed, padding>>

(* The head of for (;;): once nread is 0, by end of input or by a signal,  *)
(* the reader is not asked again and the encoder is flushed.               *)
LoopTop ==
    /\ pc = "top"
    /\ \/ /\ ~interrupted /\ nread > 0
          /\ got' = 0
          /\ pc' = "read"
          /\ UNCHANGED <<nread, remaining>>
       \/ /\ interrupted \/ nread = 0
          /\ nread' = 0
          /\ remaining' = 0
          /\ pc' = "encode"
          /\ UNCHANGED got
    /\ UNCHANGED <<readerVars, encoderVars, interrupted, flip, encoded, obuf,
                   written, fed, padding>>

Feed(r) ==
    fed' = [fed EXCEPT
              !.head  = @ + IF r.kind = "head"  THEN r.copied ELSE 0,
              !.audio = @ + IF r.kind = "audio" THEN r.copied ELSE 0,
              !.tail  = @ + IF r.kind = "tail"  THEN r.copied ELSE 0,
              !.stale = @ + (r.n - r.copied)]

(* One round of pcm_read_frames(): it asks for the frames still missing    *)
(* until the reader returns nothing or the request is met.                 *)
ReadStep ==
    /\ pc = "read"
    /\ IF Padded THEN ReadFrames(FrameLen - got) ELSE ReadSource(FrameLen - got)
    /\ Feed(ret')
    /\ got' = got + ret'.n
    /\ IF ret'.n > 0 /\ got' < FrameLen
         THEN UNCHANGED <<pc, nread, remaining>>
         ELSE /\ nread' = got'
              /\ remaining' = got'
              /\ pc' = "encode"
    /\ UNCHANGED <<encoderVars, interrupted, flip, encoded, obuf, written,
                   padding>>

(* Mutants: one output frame too few is dropped, or the wrong one. *)
SkipsFirstOnly == {1}
SkipsFirstTwo == {1, 2}

(* The outputs after which nothing is written.  As output is delayed by    *)
(* one, the second AU is the one that is never written.                    *)
Skips == {1, 3}

(* Mutants: end of stream goes back for more input; a call that only takes *)
(* samples is taken for the end of stream.                                 *)
ReadsOn(consumed) == "top"
StopsEarly(consumed) == "done"

(* Where encode() goes after a call without output.                        *)
AfterNoOutput(consumed) == IF consumed = 0 THEN "done" ELSE "top"

(* What encode() does with the result of aac_encode_frame(): leave the     *)
(* loops at EOF, go back for more PCM when there is no output, and pass    *)
(* the output on otherwise, one frame late when the edges are padded.      *)
AfterEncode(r) ==
    \/ /\ r.status = "error"
       /\ pc' = "failed"
       /\ UNCHANGED <<remaining, flip, encoded, obuf>>
    \/ /\ r.status # "error" /\ r.frame = 0
       /\ obuf' = [obuf EXCEPT ![flip] = 0]
       /\ pc' = AfterNoOutput(r.consumed)
       /\ UNCHANGED <<remaining, flip, encoded>>
    \/ /\ r.status # "error" /\ r.frame # 0
       /\ obuf' = [obuf EXCEPT ![flip] = r.frame]
       /\ remaining' = remaining - r.consumed
       /\ IF Padded
            THEN /\ flip' = 1 - flip
                 /\ encoded' = encoded + 1
                 /\ pc' = IF encoded' \notin Skips THEN "write"
                          ELSE IF remaining' > 0 THEN "encode" ELSE "top"
            ELSE /\ pc' = "write"
                 /\ UNCHANGED <<flip, encoded>>

EncodeCall ==
    /\ pc = "encode"
    /\ \/ remaining > 0 /\ EncodeInput(remaining)
       \/ remaining = 0 /\ EncodeFlush
    /\ AfterEncode(out')
    /\ UNCHANGED <<readerVars, interrupted, nread, got, written, fed, padding>>

(* Mutant: each read is followed by at most one write. *)
WriteThenRead ==
    /\ pc = "write"
    /\ written' = Append(written, obuf[flip])
    /\ pc' = "top"
    /\ UNCHANGED <<readerVars, encoderVars, interrupted, nread, got, remaining,
                   flip, encoded, obuf, fed, padding>>

(* write_sample() or write_sample_dab() of obuf[flip]; a failed write ends *)
(* the program.                                                            *)
Write ==
    /\ pc = "write"
    /\ \/ /\ written' = Append(written, obuf[flip])
          /\ pc' = IF remaining > 0 THEN "encode" ELSE "top"
       \/ pc' = "failed" /\ UNCHANGED written
    /\ UNCHANGED <<readerVars, encoderVars, interrupted, nread, got, remaining,
                   flip, encoded, obuf, fed, padding>>

(* The buffer written at DONE when interrupted: obp[flip ^ 1], where obp   *)
(* still is &obuf[flip].                                                   *)
FinalOutcome == obuf[flip + (1 - flip)]

(* Mutant: the final outcome is written without a signal, too. *)
DoneWritesAlways ==
    /\ pc = "done"
    /\ written' = Append(written, FinalOutcome)
    /\ pc' = "main"
    /\ UNCHANGED <<readerVars, encoderVars, interrupted, nread, got, remaining,
                   flip, encoded, obuf, fed, padding>>

(* The label DONE. *)
Done ==
    /\ pc = "done"
    /\ \/ /\ interrupted
          /\ written' = Append(written, FinalOutcome)
          /\ pc' = "main"
       \/ interrupted /\ pc' = "failed" /\ UNCHANGED written
       \/ ~interrupted /\ pc' = "main" /\ UNCHANGED written
    /\ UNCHANGED <<readerVars, encoderVars, interrupted, nread, got, remaining,
                   flip, encoded, obuf, fed, padding>>

(* Back in main(): the padding at the end of what was written, from the    *)
(* frames written, the reader's position and the declared delay.           *)
PaddingOf(frames) == frames * FrameLen - srcPos - DelayCore

Main ==
    /\ pc = "main"
    /\ padding' = PaddingOf(Len(written)) % WordMod
    /\ pc' = "finished"
    /\ UNCHANGED <<readerVars, encoderVars, interrupted, nread, got, remaining,
                   flip, encoded, obuf, written, fed>>

Stopped == pc \in {"finished", "failed"} /\ UNCHANGED vars

Progress == LoopTop \/ ReadStep \/ EncodeCall \/ Write \/ Done \/ Main

Next == Progress \/ Interrupt \/ Stopped

Spec == Init /\ [][Next]_vars /\ WF_vars(Progress)

-----------------------------------------------------------------------------
(***************************************************************************)
(* Properties                                                              *)
(***************************************************************************)

HeadLen == IF Padded THEN FrameLen ELSE 0

FedTotal == fed.head + fed.audio + fed.stale + fed.tail

(* assert(bp->count <= nframes) in extrapolater.c process1(): the buffer   *)
(* it is about to copy out never holds more frames than the caller asked   *)
(* for, whatever sequence of short reads and signals came before.          *)
CountWithinRequest ==
    pc = "read" /\ process = "process1" => count[1 - nbuffer] <= FrameLen - got

(* Between two reads the encoder has taken every frame the reader handed   *)
(* out: although encode() leaves its inner loop as soon as a call produces *)
(* no output, it never abandons frames still in ibuf.                      *)
NoFrameLost == pc = "top" => accepted = FedTotal

(* Input frames reach the encoder in order, without a gap or a repeat,     *)
(* after the whole predicted head and before any predicted tail: the two   *)
(* buffers of the extrapolator never swap places or drop one.              *)
AudioInOrder ==
    [][fed'.audio # fed.audio =>
          /\ ret'.from = fed.audio
          /\ fed.head = HeadLen
          /\ fed.tail = 0
          /\ fed.stale = 0]_vars

(* The AU that belongs at place i of the output: all of them, or all but   *)
(* the second when the edges are padded.                                   *)
AUAtPlace(i) == IF ~Padded THEN i * SubFrames
                ELSE IF i = 1 THEN 1 ELSE i + 1

(* The double buffer writes each AU once, in order, and drops exactly the  *)
(* second one.  Only the sample written at DONE after a signal may differ. *)
WrittenInOrder ==
    \A i \in DOMAIN written :
        written[i] = AUAtPlace(i) \/ (interrupted /\ i = Len(written))

Completed == pc = "finished" /\ ~interrupted

(* A decoder of the AUs 1, 2, 3, ... plays position p of what the encoder  *)
(* was fed while it decodes this AU, DelayCore samples late.               *)
AUPlaying(p) == (p + DelayCore) \div FrameLen + 1

(* Gapless trimming: a player that drops DelayCore samples finds the input *)
(* frame s at its place, and the frame it decodes there is the AU that     *)
(* carries s.  The dropped AU and the one frame of padding cancel out, and *)
(* the end of the input is not cut off.                                    *)
AudioAligned ==
    Completed /\ SubFrames = 1 =>
        \A s \in 0 .. inputLen - 1 :
            LET place == (s + DelayCore) \div FrameLen + 1
            IN  /\ place <= Len(written)
                /\ written[place] = AUPlaying(HeadLen + s)

(* The padding written to the file neither wraps around nor exceeds what a *)
(* flush can leave over: less than one frame beyond the undeclared part of *)
(* the delay (and the frames a short tail makes the reader invent).        *)
PaddingInRange ==
    Completed /\ SubFrames = 1 =>
        /\ padding = PaddingOf(Len(written))
        /\ padding < FrameLen + (Delay - DelayCore) + fed.stale

(* encode() never comes back from complete output frames without having    *)
(* written one, nor without having encoded anything: m4af_finalize()       *)
(* indexes the last chunk without looking whether there is one.            *)
SomethingWritten ==
    pc = "main" => nAU > 0 /\ (pendingAU < nAU => written # << >>)

(* DAB+: at end of input encode() stops at the first flush that completes  *)
(* no superframe.  What a receiver then never plays is at most what the    *)
(* delay and the AUs of one incomplete superframe hold.                    *)
TailLossBounded ==
    Completed /\ ~Padded =>
        inputLen - (Len(written) * SubFrames * FrameLen - Delay)
            <= (SubFrames - 1) * FrameLen + Delay

(* The loop ends: every input is read, drained and written, or the program *)
(* fails, whenever signals arrive.                                         *)
Termination == <>(pc \in {"finished", "failed"})

(* main.c, at DONE: "When interrupted, we haven't pulled out last          *)
(* extrapolated frames from the reader. Therefore, we have to write the    *)
(* final outcome."  The last AU encoded is then the last one written.      *)
FinalOutcomeWritten ==
    pc = "finished" /\ interrupted /\ process # "process3" =>
        written[Len(written)] = nAU

(* main.c, in encode(): "we pad 1 frame at beginning and ending by our     *)
(* extrapolator".                                                          *)
OneFrameEachEnd ==
    Completed /\ Padded =>
        fed = [head |-> FrameLen, audio |-> inputLen, stale |-> 0,
               tail |-> FrameLen]

=============================================================================
