------------------------------ MODULE Resampler ------------------------------
(***************************************************************************)
(* --resample: read_frames() of src/src-fdkaac/src/resample.c, an exact    *)
(* L/M polyphase converter over a sliding window of input frames.  Output  *)
(* k is the kernel applied around the input instant k*M/L; its value is    *)
(* abstract, the window it is computed from is not.                        *)
(***************************************************************************)
EXTENDS Integers, Sequences

CONSTANTS
    Ratios,     \* The pairs <<L, M>> of an instance, in lowest terms.
    Taps,       \* Kernel length; a multiple of 4.
    Chunk       \* RS_CHUNK: frames read or zeroed at most in one refill step.

ASSUME ResamplerAssumption ==
    /\ Ratios \subseteq (Nat \ {0}) \X (Nat \ {0})
    /\ Taps \in Nat \ {0} /\ Taps % 4 = 0
    /\ Chunk \in Nat \ {0}

VARIABLES
    input,      \* Frames the source has.
    L, M,
    base,       \* Input index of the first frame held.
    x,          \* The frames held: their input index, or Silence.
    inTotal,    \* Input frames read so far.
    eof,
    nfloor,     \* floor(k*M/L) of the next output k
    frac,       \* (k*M) mod L
    position,   \* Outputs returned by finished calls.
    rs,         \* The call in progress: its step, request, outputs so far
                \* and the bounds and continuation of refill().
    window      \* The input the last output was computed from (history).

resamplerVars == <<input, L, M, base, x, inTotal, eof, nfloor, frac, position, rs, window>>

Silence == -1
Outside == -2   \* No frame of the buffer.
Back == Taps \div 2 - 1
Ahead == Taps \div 2
Fill == Len(x)

ResamplerTypeOK ==
    /\ input \in Nat /\ <<L, M>> \in Ratios
    /\ base \in Int
    /\ x \in Seq({Silence} \cup (0 .. input - 1))
    /\ inTotal \in 0 .. input
    /\ eof \in BOOLEAN
    /\ nfloor \in Nat /\ frac \in 0 .. L - 1
    /\ position \in Nat
    /\ rs.pc \in {"idle", "refill", "loop", "emit"}
    /\ rs.k \in 0 .. rs.n

Idle == [pc |-> "idle", n |-> 0, k |-> 0, upto |-> 0, needLo |-> 0, after |-> "idle"]

(* resampler_open(): the history before the first sample is silence. *)
ResamplerInit ==
    /\ \E r \in Ratios : L = r[1] /\ M = r[2]
    /\ base = -Taps
    /\ x = [i \in 1 .. Taps |-> Silence]
    /\ inTotal = 0
    /\ eof = FALSE
    /\ nfloor = 0 /\ frac = 0
    /\ position = 0
    /\ rs = Idle
    /\ window = << >>

Exhausted == eof /\ nfloor >= inTotal

(* The instant of the last output of a request of n frames. *)
LastInstant(n) == nfloor + (frac + (n - 1) * M) \div L

(* read_frames() is entered: the input of the whole request is fetched at  *)
(* once.                                                                   *)
ResamplerCall(n) ==
    /\ rs.pc = "idle"
    /\ rs' = [pc |-> IF Exhausted THEN "loop" ELSE "refill", n |-> n, k |-> 0,
              upto |-> LastInstant(n) + Ahead, needLo |-> nfloor - Back, after |-> "loop"]
    /\ UNCHANGED <<input, L, M, base, x, inTotal, eof, nfloor, frac, position, window>>

(* Mutant: one frame of the kernel's history too much is dropped. *)
DroppedOneMore == LET past == rs.needLo - base + 1
                  IN  IF past <= 0 THEN 0 ELSE IF past > Fill THEN Fill ELSE past

(* Frames compact() drops from the front of the history. *)
Dropped == LET past == rs.needLo - base
           IN  IF past <= 0 THEN 0 ELSE IF past > Fill THEN Fill ELSE past

Zeros(n) == [i \in 1 .. n |-> Silence]

(* Mutant: the zeros past the end are counted as input. *)
RefillCountsZeros ==
    /\ rs.pc = "refill"
    /\ IF base + Fill > rs.upto
       THEN /\ rs' = [rs EXCEPT !.pc = rs.after]
            /\ UNCHANGED <<base, x, inTotal, eof>>
       ELSE LET need == rs.upto - (base + Fill) + 1
                want == IF need < Chunk THEN need ELSE Chunk
                got  == IF eof THEN 0
                        ELSE IF want < input - inTotal THEN want ELSE input - inTotal
                kept == SubSeq(x, Dropped + 1, Fill)
            IN  /\ base' = base + Dropped
                /\ inTotal' = inTotal + IF got = 0 /\ ~eof THEN Ahead ELSE got
                /\ eof' = (got = 0)
                /\ x' = kept \o IF got = 0 THEN Zeros(Chunk)
                                ELSE [i \in 1 .. got |-> inTotal + i - 1]
                /\ UNCHANGED rs
    /\ UNCHANGED <<input, L, M, nfloor, frac, position, window>>

(* Mutant: a whole chunk is read whatever is needed. *)
RefillReadsChunk ==
    /\ rs.pc = "refill"
    /\ IF base + Fill > rs.upto
       THEN /\ rs' = [rs EXCEPT !.pc = rs.after]
            /\ UNCHANGED <<base, x, inTotal, eof>>
       ELSE LET got  == IF eof THEN 0
                        ELSE IF Chunk < input - inTotal THEN Chunk ELSE input - inTotal
                kept == SubSeq(x, Dropped + 1, Fill)
            IN  /\ base' = base + Dropped
                /\ inTotal' = inTotal + got
                /\ eof' = (got = 0)
                /\ x' = kept \o IF got = 0 THEN Zeros(Chunk)
                                ELSE [i \in 1 .. got |-> inTotal + i - 1]
                /\ UNCHANGED rs
    /\ UNCHANGED <<input, L, M, nfloor, frac, position, window>>

(* One turn of refill(): history nobody needs is dropped, then what the    *)
(* request still needs is read, or silence is appended past the end.       *)
(* pcm_read_frames() returns less than it was asked for only at the end.   *)
Refill ==
    /\ rs.pc = "refill"
    /\ IF base + Fill > rs.upto
       THEN /\ rs' = [rs EXCEPT !.pc = rs.after]
            /\ UNCHANGED <<base, x, inTotal, eof>>
       ELSE LET need == rs.upto - (base + Fill) + 1
                want == IF need < Chunk THEN need ELSE Chunk
                got  == IF eof THEN 0
                        ELSE IF want < input - inTotal THEN want ELSE input - inTotal
                kept == SubSeq(x, Dropped + 1, Fill)
            IN  /\ base' = base + Dropped
                /\ inTotal' = inTotal + got
                /\ eof' = (got = 0)
                /\ x' = kept \o IF got = 0 THEN Zeros(Chunk)
                                ELSE [i \in 1 .. got |-> inTotal + i - 1]
                /\ UNCHANGED rs
    /\ UNCHANGED <<input, L, M, nfloor, frac, position, window>>

ResamplerDone == rs.pc \in {"loop", "emit"} /\ (Exhausted \/ (rs.pc = "loop" /\ rs.k = rs.n))

(* The head of the output loop: make sure the window of the next output is *)
(* there.                                                                  *)
ResamplerLoop ==
    /\ rs.pc = "loop"
    /\ ~ResamplerDone
    /\ rs' = [rs EXCEPT !.pc = "refill", !.after = "emit",
                        !.upto = nfloor + Ahead, !.needLo = nfloor - Back]
    /\ UNCHANGED <<input, L, M, base, x, inTotal, eof, nfloor, frac, position, window>>

(* One output.  Its value is the caller's choice. *)
ResamplerEmit ==
    /\ rs.pc = "emit"
    /\ ~ResamplerDone
    /\ LET off == nfloor - Back - base
       IN  window' = [i \in 1 .. Taps |-> IF off + i \in 1 .. Fill THEN x[off + i] ELSE Outside]
    /\ nfloor' = nfloor + (frac + M) \div L
    /\ frac' = (frac + M) % L
    /\ rs' = [rs EXCEPT !.pc = "loop", !.k = @ + 1]
    /\ UNCHANGED <<input, L, M, base, x, inTotal, eof, position>>

(* The loop is left and read_frames() returns rs.k. *)
ResamplerReturn ==
    /\ ResamplerDone
    /\ position' = position + rs.k
    /\ rs' = Idle
    /\ UNCHANGED <<input, L, M, base, x, inTotal, eof, nfloor, frac, window>>

-----------------------------------------------------------------------------

(* get_length(): the outputs whose instant lies inside the input. *)
OutputLength == (input * L + M - 1) \div M

Outputs == position + rs.k

(* The timeline has no drift: output k is computed at the instant k*M/L    *)
(* exactly, from the input around it with silence before the first and     *)
(* after the last frame, all of it inside the buffer (resample.c:8 "no     *)
(* drift", :10 "the output timeline is not shifted").                      *)
WindowAroundInstant ==
    /\ nfloor * L + frac = Outputs * M
    /\ Outputs > 0 /\ window # << >> =>
         LET at == ((Outputs - 1) * M) \div L
         IN  window = [i \in 1 .. Taps |->
                         LET j == at - Back + i - 1
                         IN  IF j \in 0 .. input - 1 THEN j ELSE Silence]

(* "read only what this request needs (live pipes: no extra buffering      *)
(* beyond the kernel half-length)" (resample.c:221): when an output has    *)
(* been produced, the source has not been asked past the window of the     *)
(* last output of the request.                                             *)
NoExtraBuffering ==
    rs.pc = "loop" =>
        inTotal <= LastInstant(rs.n - rs.k) + Ahead + 1

=============================================================================
