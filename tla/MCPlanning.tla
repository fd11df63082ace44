---------------------------- MODULE MCPlanning ----------------------------
(* Planning on small instances. *)
EXTENDS Planning, TLC

\* Requests, keys and reviewers are interchangeable in the safety runs.
Symmetry == Permutations(Requests) \cup Permutations(Keys)
                \cup Permutations(Reviewers)
=============================================================================
