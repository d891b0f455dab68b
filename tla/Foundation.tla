----------------------------- MODULE Foundation -----------------------------
(***************************************************************************)
(* FoundationGuard.audit() of lucy_edge/foundation/audit.py: the verdict on*)
(* a configured system, with the state of training it rests on             *)
(* (introspection/training_status.py, training/provider.py).  A URL is the *)
(* kind of host it names; a checkpoint is what can be read off the file.   *)
(***************************************************************************)
EXTENDS Integers, FiniteSets

Hosts == {"localhost", "dot_local", "loopback", "unspecified", "private",
          "link_local", "public", "named"}

(* A provider or a peer has no URL, one without a host (it lacks a scheme,  *)
(* say), one that urlparse refuses, or one with a host.                     *)
Bases == Hosts \cup {"unset", "hostless", "malformed"}

(* A name that is not local by its spelling may resolve to anything.        *)
Classify(base) ==
    CASE base \in {"unset", "hostless"}                        -> "INVALID"
      [] base \in {"localhost", "loopback", "unspecified"}     -> "LOCAL_LOOPBACK"
      [] base \in {"dot_local", "private", "link_local"}       -> "LOCAL_PRIVATE"
      [] OTHER                                                 -> "PUBLIC_CLOUD"

(* A checkpoint: whether it is a model at all, whether it was trained, and  *)
(* how its weights do on the probe that train() wrote beside them.          *)
Checkpoints == [file : {"none", "unreadable", "model"}, trained : BOOLEAN,
                probe : {"none", "short", "reproduced", "missed", "unloadable"}]

(* `lists`: what list_models answers; `checks`: whether it has self_check.  *)
Providers == [simulated : BOOLEAN, base : Bases, reachable : BOOLEAN,
              lists : {"lucy", "others", "raises"}, checkpoint : Checkpoints,
              checks : BOOLEAN]

Systems == [providers : SUBSET Providers, peers : SUBSET Bases, enforce : BOOLEAN,
            phone : BOOLEAN, require : BOOLEAN, local : BOOLEAN,
            memory : BOOLEAN, evidence : BOOLEAN]

-----------------------------------------------------------------------------
(* Training. *)

CheckTraining(checkpoint) ==
    CASE checkpoint.file # "model"                         -> "UNAVAILABLE"
      [] checkpoint.file = "model" /\ ~checkpoint.trained  -> "UNTRAINED"
      [] checkpoint.file = "model" /\ checkpoint.trained   -> "AVAILABLE"

(* A checkpoint without a probe is trusted on its metadata. *)
SelfCheck(checkpoint) ==
    checkpoint.file = "model" /\ checkpoint.probe \in {"none", "short", "reproduced"}

(* The run a checkpoint is said to come from: the one whose id it carries,  *)
(* or, when the lineage has none of that id, the latest that wrote to its   *)
(* path; it counts once it is DONE.                                         *)
Lineage(id, path, rows) ==
    LET named  == {r \in rows : id # "" /\ r.id = id}
        latest == {r \in rows : r.path = path /\
                       \A other \in rows : other.path = path => other.started <= r.started}
    IN  {r \in IF named # {} THEN named ELSE latest : r.status = "DONE"}

-----------------------------------------------------------------------------
(* The checks. *)

Endpoints(system) ==
    ({p.base : p \in system.providers} \cup system.peers) \ {"unset"}

CloudEndpoints(system) ==
    {base \in Endpoints(system) : Classify(base) = "PUBLIC_CLOUD"}

NoCloud(system) ==
    CASE CloudEndpoints(system) = {} -> "PASS"
      [] OTHER -> IF system.enforce THEN "FAIL" ELSE "WARN"

PhonePolicy(system) ==
    IF system.phone /\ system.require /\ ~system.local THEN "FAIL" ELSE "PASS"

Stored(there) == IF there THEN "PASS" ELSE "FAIL"

Real(system) == {p \in system.providers : ~p.simulated}

(* Her model is listed by a provider that answers, and labelled trained.    *)
Claims(p) ==
    /\ p.reachable /\ p.lists = "lucy"
    /\ CheckTraining(p.checkpoint) = "AVAILABLE"

Trained(p) == Claims(p) /\ (p.checks => SelfCheck(p.checkpoint))

ModelWeights(system) ==
    IF \E p \in Real(system) : Trained(p) THEN "PASS" ELSE "GAP"

Checks(system) ==
    [no_cloud_endpoints    |-> NoCloud(system),
     phone_safety_policy   |-> PhonePolicy(system),
     local_memory          |-> Stored(system.memory),
     local_evidence        |-> Stored(system.evidence),
     model_weights_present |-> ModelWeights(system)]

(* What nobody catches: a URL that does not parse, a self-check that cannot *)
(* load its weights.                                                        *)
Raises(system) ==
    \/ "malformed" \in Endpoints(system)
    \/ \E p \in Real(system) :
           Claims(p) /\ p.checks /\ p.checkpoint.probe = "unloadable"

(* audit() *)
Verdict(system) ==
    LET status == {Checks(system)[c] : c \in DOMAIN Checks(system)}
    IN  IF Raises(system) THEN "raises"
        ELSE IF "FAIL" \in status THEN "FOUNDATION_UNSAFE"
        ELSE IF "GAP" \in status THEN "GAP_IDENTIFIED"
        ELSE "FOUNDATION_SOUND"
=============================================================================
