---------------------------- MODULE Permissions -----------------------------
(***************************************************************************)
(* PermissionPolicy.evaluate() of lucy_edge/tools/permissions.py: what the *)
(* policy answers for a tool and the path it is given.  A path is what the *)
(* rules ask of it: whether one of its parts is a secret's name, and       *)
(* whether it resolves to a place inside the approved roots.               *)
(***************************************************************************)
EXTENDS Lifecycle

CONSTANTS
    Shells,        \* names that contain "shell", and exec, bash, sh, cmd
    Externals,     \* names that begin with "external."
    GitTools       \* names that begin with "git."

Paths == [secret : BOOLEAN, inside : BOOLEAN]

Policy == [write_auto_allow : BOOLEAN, allow_git_write : BOOLEAN,
           allow_external : BOOLEAN, default_delete : Outcomes,
           default_shell : Outcomes, default_write : Outcomes]

(* build_phone_policy, with the defaults of the fields it does not set. *)
PhonePolicy(external) ==
    [write_auto_allow |-> FALSE, allow_git_write |-> FALSE,
     allow_external |-> external, default_delete |-> "ASK",
     default_shell |-> "DENY", default_write |-> "ASK"]

Unattended == {"git.status", "git.diff", "system.health", "system.capabilities",
               "model.list", "model.health", "model.route", "memory.search",
               "memory.inspect", "evidence.query", "memory.write_proposal"}

(* A path the rule of the file tool refuses; the deletion rule does not ask *)
(* whether the path is a secret.                                            *)
Barred(tool, path) ==
    ~path.inside \/ (path.secret /\ tool # "files.delete_scoped")

FileTools == {"files.read_scoped", "files.write_scoped", "files.delete_scoped"}

FileOutcome(policy, tool, path) ==
    IF Barred(tool, path) THEN "DENY"
    ELSE CASE tool = "files.read_scoped"   -> "ALLOW"
           [] tool = "files.delete_scoped" -> policy.default_delete
           [] tool = "files.write_scoped"  ->
                IF policy.write_auto_allow THEN "ALLOW" ELSE policy.default_write

(* The first rule whose names include the tool decides; an MCP tool, and    *)
(* whatever no rule knows, is asked for.                                    *)
Outcome(policy, tool, path) ==
    IF tool \in Shells THEN policy.default_shell
    ELSE IF tool \in Externals THEN IF policy.allow_external THEN "ASK" ELSE "DENY"
    ELSE IF tool \in GitTools \ Unattended
         THEN IF policy.allow_git_write THEN "ASK" ELSE "DENY"
    ELSE IF tool \in FileTools THEN FileOutcome(policy, tool, path)
    ELSE IF tool \in Unattended THEN "ALLOW" ELSE "ASK"

(* What may be answered for a tool while the policy stays the same. *)
VerdictsOf(policy, tool) == {Outcome(policy, tool, path) : path \in Paths}
=============================================================================
