---------------------------- MODULE MCMemoryStore ----------------------------
(* Instance of MemoryStore for TLC: two coroutines, two records, one        *)
(* provenance of each kind.                                                 *)
EXTENDS MemoryStore, TLC

MCProvenances == {"OBSERVED", "UNVERIFIED"}
MCAutoAcceptable == {"OBSERVED"}

(* Neither coroutines nor ids are told apart, and every property is an       *)
(* invariant.                                                                *)
MCSymmetry == Permutations(Clients) \cup Permutations(Ids)
=============================================================================
