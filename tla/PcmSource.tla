------------------------------ MODULE PcmSource ------------------------------
(***************************************************************************)
(* What a stage of the PCM reader chain promises the stage behind it       *)
(* (pcm_reader.h): the frames of a stream in order, none lost, none twice, *)
(* and 0 only after the last one.  encode() takes 0 for the end of input.  *)
(***************************************************************************)
EXTENDS Naturals

VARIABLES
    total,      \* Frames of the stream; never changes.
    delivered,  \* Frames handed out so far.
    ended       \* A read has returned 0.

sourceVars == <<total, delivered, ended>>

Init ==
    /\ total \in Nat
    /\ delivered = 0
    /\ ended = FALSE

Deliver ==
    /\ ~ended
    /\ delivered' \in delivered + 1 .. total
    /\ UNCHANGED <<total, ended>>

End ==
    /\ delivered = total
    /\ ended' = TRUE
    /\ UNCHANGED <<total, delivered>>

Next == Deliver \/ End

(* A caller that reads on until it gets 0 gets it. *)
Spec == Init /\ [][Next]_sourceVars /\ <>ended

=============================================================================
