--------------------------- MODULE MCManagedFeed ---------------------------
(***************************************************************************)
(* ManagedFeed for TLC.  Instruments are interchangeable, and so are       *)
(* markets: nothing orders them.                                           *)
(***************************************************************************)
EXTENDS ManagedFeed, TLC

Symmetry == Permutations(Instruments) \cup Permutations(Markets)

=============================================================================
