------------------------------ MODULE GatedRun ------------------------------
(***************************************************************************)
(* What an agent run promises to the operator who started it, without      *)
(* saying how the promise is kept.  A run has effects (tools it starts),   *)
(* one per plan step at most and in plan order; the operator's consent is  *)
(* asked for while the run is suspended, and an effect that needs consent  *)
(* happens only for a step whose latest answer was yes; the number of      *)
(* effects is bounded; a run that is over has no further effect.           *)
(*                                                                         *)
(* AgentRuntime and LoyalRuntime are two ways to carry such a run out.     *)
(***************************************************************************)
EXTENDS Naturals, FiniteSets

CONSTANTS MaxEffects      \* how many tools one run may start

VARIABLES
    phase,     \* "open" | "asking" | "over"
    effects,   \* the plan steps whose tool has been started
    consent,   \* the plan steps whose latest answer from the operator is yes
    needing    \* the plan steps the run may perform only with consent

vars == <<phase, effects, consent, needing>>

Init ==
    /\ phase = "open"
    /\ effects = {}
    /\ consent = {}
    /\ needing = {}

(* The plan becomes known: which of its steps need the operator's consent. *)
Commit ==
    /\ phase = "open" /\ effects = {} /\ needing = {}
    /\ needing' \in SUBSET Nat
    /\ UNCHANGED <<phase, effects, consent>>

(* The run suspends itself to ask. *)
Ask ==
    /\ phase = "open"
    /\ phase' = "asking"
    /\ UNCHANGED <<effects, consent, needing>>

(* The operator answers; until the run resumes, the last answer counts, and *)
(* an answer is only about a step that has not been performed.              *)
Answer ==
    /\ phase = "asking"
    /\ \E k \in consent \cup consent' :
          /\ k \in Nat
          /\ \A e \in effects : e < k
          /\ consent' \in {consent \cup {k}, consent \ {k}}
    /\ UNCHANGED <<phase, effects, needing>>

Resume ==
    /\ phase = "asking"
    /\ phase' = "open"
    /\ UNCHANGED <<effects, consent, needing>>

(* A tool is started: in plan order, once, with consent, within the bound. *)
Perform ==
    /\ phase = "open"
    /\ Cardinality(effects) < MaxEffects
    /\ \E k \in effects' :
          /\ k \in Nat
          /\ \A e \in effects : e < k
          /\ k \in needing => k \in consent
          /\ effects' = effects \cup {k}
    /\ UNCHANGED <<phase, consent, needing>>

End ==
    /\ phase' = "over"
    /\ UNCHANGED <<effects, consent, needing>>

Next == Commit \/ Ask \/ Answer \/ Resume \/ Perform \/ End

Spec == Init /\ [][Next]_vars
=============================================================================
