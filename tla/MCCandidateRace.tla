-------------------------- MODULE MCCandidateRace --------------------------
(* Candidates are interchangeable: nothing orders them.                     *)
EXTENDS CandidateRace, TLC

Sym == Permutations(Candidates)
=============================================================================
