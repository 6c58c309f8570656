---------------------------- MODULE MCEncodeLoop ----------------------------
(***************************************************************************)
(* Small instances of EncodeLoop.  Frame length, delay and predictor order *)
(* are scaled down from 1024, 1600 and 64, keeping their order: the delay  *)
(* spans more than one frame and the predictor needs less than one.        *)
(***************************************************************************)
EXTENDS EncodeLoop

=============================================================================
