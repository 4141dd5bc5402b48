-------------------------- MODULE MCProcessTracker --------------------------
(* Instances of ProcessTracker for TLC; the .cfg files fix the rest. *)
EXTENDS ProcessTracker, TLC

\* Pids are interchangeable wherever the constants do not tell them apart and
\* only safety is checked.
PidSymmetry == Permutations(Pids \ Recycled)

=============================================================================
