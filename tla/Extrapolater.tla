---------------------------- MODULE Extrapolater ----------------------------
(***************************************************************************)
(* The edge extrapolator (src/src-fdkaac/src/extrapolater.c).  It sits      *)
(* between the PCM reader chain and encode() for the profiles whose output *)
(* is trimmed for gapless playback.  It promises the stream                *)
(*                                                                         *)
(*    one frame of backward-predicted PCM, the input, one frame of         *)
(*    forward-predicted PCM                                                *)
(*                                                                         *)
(* and keeps it with two buffers and a state machine of four process       *)
(* functions.  PCM values are abstracted to where they come from: a frame  *)
(* is "head" (predicted before the input), "audio" (the input frame at a   *)
(* known position) or "tail" (predicted, or zero, after the input).        *)
(*                                                                         *)
(* The module has no specification of its own: its actions are composed    *)
(* with the loop that calls them in EncodeLoop.                            *)
(***************************************************************************)
EXTENDS Integers

CONSTANTS
    FrameLen,   \* Frames asked for by encode(): aacinfo.frameLength.
    LpcMin,     \* 2 * LPC_ORDER, the frames a prediction needs.
    MaxInput    \* The longest input (a bound for model checking).

ASSUME ReaderAssumption ==
    /\ FrameLen \in Nat \ {0}
    /\ LpcMin \in 0 .. FrameLen
    /\ MaxInput \in Nat

VARIABLES
    inputLen,   \* Frames the source delivers before it returns 0 or an error.
    srcPos,     \* pcm_get_position(): frames taken from the source so far.
    count,      \* buffer[i].count.
    from,       \* Input position of the first frame in buffer[i].
    nbuffer,    \* The buffer the next fetch writes.
    process,    \* The installed process function.
    ret         \* What the last read_frames() call returned and copied.

readerVars == <<inputLen, srcPos, count, from, nbuffer, process, ret>>

Phases == {"process0", "process1", "process2", "process3"}
Kinds  == {"none", "head", "audio", "tail"}

ReaderTypeOK ==
    /\ inputLen \in 0 .. MaxInput
    /\ srcPos \in 0 .. inputLen
    /\ count \in [0 .. 1 -> Nat]
    /\ from \in [0 .. 1 -> Nat]
    /\ nbuffer \in 0 .. 1
    /\ process \in Phases
    /\ ret \in [kind : Kinds, from : Nat, copied : Nat, n : Nat]

ReaderInit ==
    /\ inputLen \in 0 .. MaxInput
    /\ srcPos = 0
    /\ count = [i \in 0 .. 1 |-> 0]
    /\ from = [i \in 0 .. 1 |-> 0]
    /\ nbuffer = 0
    /\ process = "process0"
    /\ ret = [kind |-> "none", from |-> 0, copied |-> 0, n |-> 0]

-----------------------------------------------------------------------------

Least(a, b) == IF a < b THEN a ELSE b

(* Mutant: a request is answered in full past the end of the source. *)
AvailableUnbounded(n) == n

(* What pcm_read_frames() on the source returns for a request of n frames: *)
(* it loops until it has n frames or the source returns no more, and it    *)
(* turns an error of the source into a short count.                        *)
Available(n) == Least(n, inputLen - srcPos)

(* fetch() got data: it goes to buffer[nbuffer], and the buffers swap.     *)
FetchFills(n) ==
    /\ Available(n) > 0
    /\ srcPos' = srcPos + Available(n)
    /\ count' = [count EXCEPT ![nbuffer] = Available(n)]
    /\ from' = [from EXCEPT ![nbuffer] = srcPos]
    /\ nbuffer' = 1 - nbuffer

(* fetch() got nothing: the buffers stay as they are. *)
FetchEmpty(n) ==
    /\ Available(n) = 0
    /\ UNCHANGED <<srcPos, from, nbuffer>>

Returns(kind, pos, copied, n) ==
    ret' = [kind |-> kind, from |-> pos, copied |-> copied, n |-> n]

(* The first call: fill the caller's buffer with the frame predicted       *)
(* backwards from the start of the input (or zeros when it is too short).  *)
(* An empty input goes straight to the tail, which is a frame of zeros.    *)
Process0(n) ==
    /\ process = "process0"
    /\ Returns("head", 0, n, n)
    /\ \/ FetchFills(n) /\ process' = "process1"
       \/ /\ FetchEmpty(n)
          /\ count' = [count EXCEPT ![nbuffer] = n]
          /\ process' = "process2"

(* The last fetched buffer is too short to predict from and the one before *)
(* it still holds data: the two are joined, and the joined length becomes  *)
(* the count of the buffer being delivered.                                *)
Joins(bp, bbp) == count[bp] < LpcMin /\ count[bbp] > 0
LastCount(bp, bbp) == IF Joins(bp, bbp) THEN count[bp] + count[bbp]
                                        ELSE count[bp]

(* Mutant: the buffer just fetched is delivered. *)
Process1Fresh(n) ==
    /\ process = "process1"
    /\ \/ /\ FetchFills(n)
          /\ Returns("audio", srcPos, Available(n), Available(n))
          /\ UNCHANGED process
       \/ /\ FetchEmpty(n)
          /\ Returns("audio", from[1 - nbuffer], count[1 - nbuffer],
                     count[1 - nbuffer])
          /\ count' = [count EXCEPT ![nbuffer] = n]
          /\ process' = "process2"

(* Deliver the buffer fetched last time, one buffer behind the source, and *)
(* fetch the next.  At the end of the input the free buffer becomes the    *)
(* predicted tail.  The value returned is buffer[..].count AFTER the join, *)
(* while the frames copied to the caller are those it held before.         *)
Process1(n) ==
    LET bp == 1 - nbuffer
        bbp == nbuffer
    IN  /\ process = "process1"
        /\ \/ /\ FetchFills(n)
              /\ Returns("audio", from[bp], count[bp], count[bp])
              /\ UNCHANGED process
           \/ /\ FetchEmpty(n)
              /\ Returns("audio", from[bp], count[bp], LastCount(bp, bbp))
              /\ count' = [count EXCEPT ![bp] = LastCount(bp, bbp), ![bbp] = n]
              /\ process' = "process2"

(* Hand out the tail, in as many pieces as the caller asks for. *)
Process2(n) ==
    LET m == Least(n, count[nbuffer])
    IN  /\ process = "process2"
        /\ Returns("tail", 0, m, m)
        /\ count' = [count EXCEPT ![nbuffer] = @ - m]
        /\ process' = IF count[nbuffer] = m THEN "process3" ELSE process
        /\ UNCHANGED <<srcPos, from, nbuffer>>

Process3(n) ==
    /\ process = "process3"
    /\ Returns("none", 0, 0, 0)
    /\ UNCHANGED <<srcPos, count, from, nbuffer, process>>

(* extrapolater.c read_frames(): n is the number of frames asked for. *)
ReadFrames(n) ==
    /\ Process0(n) \/ Process1(n) \/ Process2(n) \/ Process3(n)
    /\ UNCHANGED inputLen

(* The chain without an extrapolator: encode() reads the source itself. *)
ReadSource(n) ==
    /\ Returns("audio", srcPos, Available(n), Available(n))
    /\ srcPos' = srcPos + Available(n)
    /\ UNCHANGED <<inputLen, count, from, nbuffer, process>>

=============================================================================
