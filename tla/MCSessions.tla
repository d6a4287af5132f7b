----------------------------- MODULE MCSessions -----------------------------
(* Instances of Sessions for TLC. *)
EXTENDS Sessions, TLC

\* Goroutines and tokens are interchangeable; profiles are, before the
\* first one is chosen.
Symmetry == Permutations(Procs) \cup Permutations(Tokens) \cup Permutations(Profiles)
=============================================================================
