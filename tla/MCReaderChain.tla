---------------------------- MODULE MCReaderChain ----------------------------
(***************************************************************************)
(* Small instances of ReaderChain: up and down by whole and broken ratios, *)
(* a kernel longer than a request, reads shorter than what refill() needs. *)
(***************************************************************************)
EXTENDS ReaderChain

MCRatios == {<<3, 2>>, <<2, 3>>, <<2, 5>>}
MCFrames == {<<-1, 2>>, <<2, -1>>, <<0, -2>>}

=============================================================================
