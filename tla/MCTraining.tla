----------------------------- MODULE MCTraining -----------------------------
(* Instance of Training for TLC: two trainers and two runs of up to four    *)
(* steps, with a snapshot after the second one.                             *)
EXTENDS Training, TLC

MCSymmetry == Permutations(Trainers) \cup Permutations(Runs)
=============================================================================
