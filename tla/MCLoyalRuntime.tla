--------------------------- MODULE MCLoyalRuntime ---------------------------
(* Instance of LoyalRuntime for TLC: the plans of the predictive planner    *)
(* over six tools of the registry, the verdicts of the phone's policy.      *)
EXTENDS LoyalRuntime

CONSTANTS Shells, Externals, GitTools

(* Four places: none, outside the roots, inside, and a secret inside. *)
MCPlaces == {"nowhere", "outside", "inside", "secret"}

MCJudged == [l \in MCPlaces |-> [secret |-> l = "secret", inside |-> l # "outside"]]

Policy == INSTANCE Builtin WITH Locations <- MCPlaces, Missing <- "nowhere",
                                Judged <- MCJudged, MaxRead <- 1, MaxWrite <- 2

MCAvailable == {"memory.search", "evidence.query", "model.route",
                "files.write_scoped", "git.diff"}

MCTools == MCAvailable \cup {"memory.create", "files.read_scoped"}

MCVerdicts == [t \in MCTools |-> Policy!VerdictsOf(Policy!PhonePolicy(FALSE), t)]

Route == {"model"}
Diff == {"git"}
OnlyI == {"git", "only I"}

MCGoals == {Route, Diff, OnlyI}
MCExclusive == {OnlyI}

(* Where the predictive planner is missing, the planner handed to the run   *)
(* may return an empty plan.                                                *)
MCPlansFor == [g \in MCGoals |-> PredictivePlans(g) \cup {<<>>}]

-----------------------------------------------------------------------------
(* The builtin tools, over these places and files of up to three bytes.     *)

MCLaxPolicy == [write_auto_allow |-> TRUE, allow_git_write |-> TRUE,
                allow_external |-> TRUE, default_delete |-> "ALLOW",
                default_shell |-> "ALLOW", default_write |-> "ALLOW"]

MCWorlds == {[disk |-> [l \in MCPlaces |-> [kind |-> k, size |-> 1, text |-> TRUE]],
              proposals |-> 0, routed |-> 0] : k \in {"nothing", "directory", "file"}}

MCArgs == [at : MCPlaces, given : BOOLEAN, fits : BOOLEAN, size : 0..3]

ASSUME BuiltinNamesAreApart == Policy!NamesApart

(* Whatever the policy, what a builtin tool changes lies inside the roots,   *)
(* and a secret is only ever deleted.                                       *)
ASSUME BuiltinToolsStayInside ==
    \A policy \in {Policy!PhonePolicy(FALSE), MCLaxPolicy}, tool \in Policy!Builtins,
       args \in MCArgs, services \in {{}, Policy!Services}, world \in MCWorlds :
        \A end \in Policy!Executed(policy, tool, args, services, world) :
            \A l \in MCPlaces : end.world.disk[l] # world.disk[l] =>
                MCJudged[l].inside /\ (l = "secret" => tool = "files.delete_scoped")
=============================================================================
