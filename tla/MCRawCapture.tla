---------------------------- MODULE MCRawCapture ----------------------------
(***************************************************************************)
(* RawCapture for TLC.  Instruments are interchangeable.                   *)
(***************************************************************************)
EXTENDS RawCapture, TLC

Symmetry == Permutations(Instruments)

=============================================================================
