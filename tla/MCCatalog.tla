----------------------------- MODULE MCCatalog -----------------------------
(***************************************************************************)
(* Catalog for TLC.  Which requests and which faults occur is chosen by    *)
(* the configuration, so that each run can afford the goroutines, images   *)
(* and paths its question needs.                                           *)
(***************************************************************************)
EXTENDS Catalog, TLC

\* Goroutines, paths, alias ids and spare keys are interchangeable.
Symmetry == Permutations(Procs) \cup Permutations(Paths) \cup Permutations(AliasIDs)
                \cup Permutations(Images) \cup Permutations(SpareKeys)
=============================================================================
