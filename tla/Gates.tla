------------------------------- MODULE Gates --------------------------------
(***************************************************************************)
(* The gates a loyal run puts between planner and executor, and the one    *)
(* behind the executor: LoyaltyGate.check_plan with the injection of its   *)
(* steps, and HonestyVerifier.verify_result.                               *)
(***************************************************************************)
EXTENDS Planning

-----------------------------------------------------------------------------
(* LoyaltyGate.  A tool is aligned or unknown: the names that would need a  *)
(* closer look are all aligned.                                             *)

Aligned == {"memory.search", "memory.create", "evidence.query", "system.health",
            "system.capabilities", "files.read_scoped", "files.write_scoped",
            "git.status", "model.route"}

Material == {"files.write_scoped", "memory.create", "model.route"}

Disloyal(plan) ==
    \E k \in DOMAIN plan :
        /\ plan[k].action = "execute" /\ plan[k].tool # NoTool
        /\ plan[k].tool \notin Aligned

Concealing(plan) ==
    /\ \E k \in DOMAIN plan : plan[k].tool \in Material
    /\ ~Uses(plan, "evidence.query")

ASSUME GatesAssumption == NoTool \notin Material

OneIf(condition, step) == IF condition THEN <<step>> ELSE <<>>

(* What the checks of the plan as it was ask to have injected, in order. *)
Injected(plan) ==
    OneIf(~Has(plan, "stop"), Stop)
        \o OneIf(~Has(plan, "verify"), Verify)
        \o OneIf(Concealing(plan), RecordEvidence)

(* Faulty variant of Guarded: the injected steps are put at the end. *)
GuardedAtEnd(plan) == plan \o Injected(plan)

(* The steps are inserted before the stop; without one, at the end, where   *)
(* an injected stop comes first of them.                                    *)
Guarded(plan) == InsertAtStop(plan, Injected(plan))

-----------------------------------------------------------------------------
(* HonestyVerifier.  An output is what the checks ask of it: whether it is  *)
(* empty, has a hash, claims certainty, what the records it cites are,      *)
(* whether it is the empty result of a search, and how it speaks of itself. *)

Outputs ==
    [blank : BOOLEAN, hashed : BOOLEAN, certain : BOOLEAN,
     cites : {"nothing", "records", "fabricated", "unresolvable"},
     nothingFound : BOOLEAN, ego : {"none", "soft", "strong"}]

Grounded == {"memory.search", "memory.create", "evidence.query",
             "files.read_scoped", "model.route", "system.capabilities"}

Provenance(step, output) ==
    IF step.tool \in Grounded /\ ~output.hashed THEN "REQUIRE_GROUNDING" ELSE "VERIFIED"

Fabrication(output) == IF output.certain THEN "FLAG_UNVERIFIED" ELSE "VERIFIED"

Citations(output) ==
    CASE output.cites = "fabricated"   -> "REJECT"
      [] output.cites = "unresolvable" -> "FLAG_UNVERIFIED"
      [] OTHER                         -> "VERIFIED"

Uncertainty(step, output) ==
    IF step.tool = "memory.search" /\ output.nothingFound THEN "FLAG_UNVERIFIED" ELSE "VERIFIED"

(* "REJECT_EGO" is a REJECT whose violation_type also costs trust.          *)
Ego(output) ==
    CASE output.ego = "strong" -> "REJECT_EGO"
      [] output.ego = "soft"   -> "FLAG_UNVERIFIED"
      [] OTHER                 -> "VERIFIED"

Else(check, next) == IF check # "VERIFIED" THEN check ELSE next

(* The checks in their order: the first that is not content decides.        *)
Honesty(step, output) ==
    IF step.action \notin {"execute", "retrieve_memory"} \/ output.blank
    THEN "VERIFIED"
    ELSE Else(Provenance(step, output),
         Else(Fabrication(output),
         Else(Citations(output),
         Else(Uncertainty(step, output), Ego(output)))))

Judgements == {"VERIFIED", "REQUIRE_GROUNDING", "FLAG_UNVERIFIED", "REJECT",
               "REJECT_EGO"}

Judgement(step) == {Honesty(step, output) : output \in Outputs}
=============================================================================
