---------------------------- MODULE AacEncBuffer ----------------------------
(***************************************************************************)
(* The input side of aacEncEncode() (libAACenc/src/aacenc_lib.cpp): PCM is *)
(* collected until one frame is complete, a frame is encoded to an access  *)
(* unit (AU), and at end of input zeros are appended until the codec delay *)
(* has been flushed.  All counts are per channel.  An AU is named by its   *)
(* number, from 1; the payload it carries is not modelled.  Where the      *)
(* transport collects SubFrames AUs per output frame (DAB+), a call hands  *)
(* out a frame only when the last of them is in.                           *)
(*                                                                         *)
(* The module has no specification of its own: EncodeLoop composes its     *)
(* actions with the frontend's loop.                                       *)
(***************************************************************************)
EXTENDS Integers

CONSTANTS
    FrameLen,   \* nSamplesToRead / nChannels.
    Delay,      \* nDelay: codec delay, the decoder's SBR delay included.
    SubFrames   \* AUs per output frame: 1, or a DAB+ superframe's 2, 3, 4, 6.

VARIABLES
    initFlags,       \* "none", or "all" after an encode error.
    nSamplesRead,    \* Samples of the current frame already in inputBuffer.
    nZerosAppended,  \* Zeros appended since end of input.
    accepted,        \* All samples taken from callers (history).
    nAU,             \* AUs encoded.
    pendingAU,       \* AUs in the incomplete output frame.
    out              \* The last call: status, samples consumed, AU handed out.

bufferVars == <<initFlags, nSamplesRead, nZerosAppended, accepted, nAU,
                pendingAU, out>>

BufferTypeOK ==
    /\ initFlags \in {"none", "all"}
    /\ nSamplesRead \in 0 .. FrameLen
    /\ nZerosAppended \in Nat
    /\ accepted \in Nat
    /\ nAU \in Nat
    /\ pendingAU \in 0 .. SubFrames - 1
    /\ out \in [status : {"ok", "eof", "error"}, consumed : Nat, frame : Nat]

BufferInit ==
    /\ initFlags = "none"
    /\ nSamplesRead = 0
    /\ nZerosAppended = 0
    /\ accepted = 0
    /\ nAU = 0
    /\ pendingAU = 0
    /\ out = [status |-> "ok", consumed |-> 0, frame |-> 0]

-----------------------------------------------------------------------------

NewSamples(n) == IF n < FrameLen - nSamplesRead THEN n
                                                ELSE FrameLen - nSamplesRead

(* aacEncInit(), which every call runs first while init flags are set,     *)
(* restarts the count of appended zeros.                                   *)
Zeros == IF initFlags = "all" THEN 0 ELSE nZerosAppended

(* Mutant: the output frame is handed out one AU early. *)
FrameCompleteEarly == pendingAU + 2 = SubFrames

(* The AU just encoded completes an output frame.  The frame is named by   *)
(* the number of its last AU; until then numOutBytes is 0.                 *)
FrameComplete == pendingAU + 1 = SubFrames

Result(status, consumed, frame) ==
    out' = [status |-> status, consumed |-> consumed, frame |-> frame]

AddAU ==
    /\ nAU' = nAU + 1
    /\ nSamplesRead' = 0
    /\ pendingAU' = IF FrameComplete THEN 0 ELSE pendingAU + 1

(* The input buffer is full: encode an AU and hand out the output frame it *)
(* completes, or fail and mark every module for initialisation.  A module  *)
(* that fails leaves the samples in the buffer; when only the caller's     *)
(* buffer is too small for the output frame, they are already consumed.    *)
EncodeFull(consumed) ==
    \/ /\ AddAU
       /\ initFlags' = "none"
       /\ Result("ok", consumed, IF FrameComplete THEN nAU + 1 ELSE 0)
    \/ /\ FrameComplete /\ AddAU
       /\ initFlags' = "all"
       /\ Result("error", consumed, 0)
    \/ /\ nSamplesRead' = FrameLen
       /\ initFlags' = "all"
       /\ Result("error", consumed, 0)
       /\ UNCHANGED <<nAU, pendingAU>>

(* Not enough samples, and no flushing requested: wait for more input. *)
EncodeWaits(n) ==
    /\ nSamplesRead' = nSamplesRead + n
    /\ initFlags' = "none"
    /\ Result("ok", n, 0)
    /\ UNCHANGED <<nAU, pendingAU>>

(* A call with n > 0 samples: take what fits, encode when the frame is full. *)
EncodeInput(n) ==
    /\ accepted' = accepted + NewSamples(n)
    /\ nZerosAppended' = Zeros
    /\ IF nSamplesRead + NewSamples(n) < FrameLen
         THEN EncodeWaits(NewSamples(n))
         ELSE EncodeFull(NewSamples(n))

(* A call that signals end of input (numInSamples = -1): complete the      *)
(* frame with zeros and encode it, until nDelay zeros have gone in; then   *)
(* report AACENC_ENCODE_EOF with no output.                                *)
EncodeFlush ==
    /\ UNCHANGED accepted
    /\ IF nSamplesRead < FrameLen /\ Zeros >= Delay
         THEN /\ nZerosAppended' = Zeros
              /\ initFlags' = "none"
              /\ Result("eof", 0, 0)
              /\ UNCHANGED <<nSamplesRead, nAU, pendingAU>>
         ELSE /\ nZerosAppended' = Zeros + (FrameLen - nSamplesRead)
              /\ EncodeFull(0)

=============================================================================
