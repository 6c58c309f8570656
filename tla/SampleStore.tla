---------------------------- MODULE SampleStore ----------------------------
(***************************************************************************)
(* What the M4A writer (src/src-fdkaac/src/m4af.c) promises encode(): an   *)
(* append-only store of samples.  A sample that was accepted stays what it *)
(* is, at its place, until the store is closed, and a closed store holds   *)
(* exactly the samples that were accepted.  When anything fails the store  *)
(* is given up as a whole and never closed.                                *)
(***************************************************************************)
EXTENDS Naturals, Sequences

CONSTANTS
    Sizes,          \* Sizes of the samples that may be written.
    Sample(_, _)    \* The sample of this number and size.

VARIABLES
    store,          \* The samples accepted, in order.
    status          \* "open", "closed" or "failed".

Init ==
    /\ store = << >>
    /\ status = "open"

Accept ==
    /\ status = "open"
    /\ \E size \in Sizes :
          store' = Append(store, Sample(Len(store) + 1, size))
    /\ UNCHANGED status

Close ==
    /\ status = "open"
    /\ status' = "closed"
    /\ UNCHANGED store

Fail ==
    /\ status = "open"
    /\ status' = "failed"
    /\ store' = << >>

Next == Accept \/ Close \/ Fail

Spec == Init /\ [][Next]_<<store, status>>

=============================================================================
