----------------------------- MODULE MCCorrelator -----------------------------
(***************************************************************************)
(* The correlator as TLC checks it with more than one account: accounts    *)
(* are interchangeable, so states that differ only by a renaming of them   *)
(* are explored once.  No operator of the specification picks an account:  *)
(* every CHOOSE over tracks or connections has exactly one candidate.      *)
(***************************************************************************)
EXTENDS Correlator, TLC

Symmetry == Permutations(User)
=============================================================================
