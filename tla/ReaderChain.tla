----------------------------- MODULE ReaderChain -----------------------------
(***************************************************************************)
(* The part of the PCM reader chain that keeps state, as open_input()      *)
(* stacks it for --resample: source, resampler, limiter.  Every stage      *)
(* pulls from the one before through pcm_read_frames(), which repeats a    *)
(* short read until it has what was asked for or gets 0.  The converters   *)
(* between them work sample by sample.                                     *)
(*                                                                         *)
(* The reader is called by one thread; the calls below are its steps.      *)
(***************************************************************************)
EXTENDS Resampler, Limiter

CONSTANTS
    MaxInput,   \* The longest input (a bound for model checking).
    Requests    \* Frames the stage behind the limiter asks for in one call.

ASSUME ChainAssumption == MaxInput \in Nat /\ Requests \subseteq Nat \ {0}

VARIABLES
    delivered,  \* Frames returned to the caller.
    ended       \* The caller has been returned 0 and stops reading.

vars == <<resamplerVars, limiterVars, delivered, ended>>

TypeOK ==
    /\ ResamplerTypeOK
    /\ LimiterTypeOK
    /\ delivered \in Nat
    /\ ended \in BOOLEAN

Init ==
    /\ input \in 0 .. MaxInput
    /\ ResamplerInit
    /\ LimiterInit
    /\ delivered = 0
    /\ ended = FALSE

(* The caller reads on until it gets 0. *)
Call ==
    /\ ~ended
    /\ \E n \in Requests : LimiterCall(n)
    /\ UNCHANGED <<resamplerVars, delivered, ended>>

(* pcm_read_frames() asks the resampler for what is still missing. *)
ReadOn ==
    /\ lim.pc = "read"
    /\ ResamplerCall(lim.n - Len(ibuf))
    /\ lim' = [lim EXCEPT !.pc = "call"]
    /\ UNCHANGED <<buf, head, ibuf, limPos, block, edge, delivered, ended>>

Resample ==
    /\ Refill \/ ResamplerLoop
    /\ UNCHANGED <<limiterVars, delivered, ended>>

(* An output goes into the limiter's read buffer. *)
Emit ==
    /\ ResamplerEmit
    /\ \E level \in Frames :
           ibuf' = Append(ibuf, [c \in LimChannels |-> [id |-> Outputs, level |-> level[c]]])
    /\ UNCHANGED <<buf, head, lim, limPos, block, edge, delivered, ended>>

(* pcm_read_frames() stops at 0 or when the request is complete. *)
ReadReturns ==
    /\ ResamplerReturn
    /\ lim' = [lim EXCEPT !.pc = IF rs.k > 0 /\ Len(ibuf) < lim.n THEN "read" ELSE "limit"]
    /\ UNCHANGED <<buf, head, ibuf, limPos, block, edge, delivered, ended>>

(* The limiter's turn; when it ends the call, the caller has its frames.   *)
Limiting ==
    /\ LimiterPass
    /\ delivered' = delivered + Len(block'[1])
    /\ ended' = (lim'.pc = "idle" /\ Len(block'[1]) = 0)
    /\ UNCHANGED resamplerVars

(* After the last call there is nothing left to do. *)
Finished == ended /\ UNCHANGED vars

Step == Call \/ ReadOn \/ Resample \/ Emit \/ ReadReturns \/ Limiting

Next == Step \/ Finished

Spec == Init /\ [][Next]_vars /\ WF_vars(Step)

-----------------------------------------------------------------------------

Promise == INSTANCE PcmSource WITH total <- OutputLength

(* The chain is a PCM source of ceil(input * L / M) frames: all of them,   *)
(* in order, whatever the requests, and 0 only after the last one; it does *)
(* get there (resample.c:16 "Output length is ceil(input_length * L / M)", *)
(* and limiter.c:153, which must not take "none ready" for the end).       *)
IsPcmSource == Promise!Spec

=============================================================================
