------------------------------- MODULE MCM4af -------------------------------
(***************************************************************************)
(* Small instances of M4af.  32-bit limits are scaled down so that files   *)
(* cross them while being written and while being moved.                   *)
(***************************************************************************)
EXTENDS M4af

=============================================================================
