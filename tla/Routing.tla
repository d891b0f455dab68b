------------------------------ MODULE Routing -------------------------------
(***************************************************************************)
(* Where a request for a model may run: ThermalGovernor, RoutingPolicy and *)
(* ModelRouter.route() of lucy_edge.  Sizes are hundredths of a billion of *)
(* parameters, memory is in MiB, temperatures are degrees.                 *)
(***************************************************************************)
EXTENDS Integers

CONSTANTS
    Unread,        \* what telemetry could not read, or a name does not say
    NoTarget       \* no remote host is asked for

ASSUME RoutingAssumption == Unread \notin Int

Classes == {"UNKNOWN", "MICRO", "SMALL", "LUCY_7B_CLASS"}

(* classify_model: the size in the name, else the one the operator declared *)
(* for the family, else 7B for Lucy; nothing else is guessed.               *)
SizeOf(model, declared) ==
    IF model.size # Unread THEN model.size
    ELSE IF model.family \in DOMAIN declared THEN declared[model.family]
    ELSE IF model.family = "lucy" THEN 700 ELSE Unread

ClassOf(size) ==
    IF size = Unread THEN "UNKNOWN"
    ELSE IF size >= 700 THEN "LUCY_7B_CLASS"
    ELSE IF size >= 100 THEN "SMALL" ELSE "MICRO"

Rank == [UNKNOWN |-> 0, MICRO |-> 1, SMALL |-> 2, LUCY_7B_CLASS |-> 3]

(* What a class needs at least; an unknown one needs nothing that is known. *)
Required == [UNKNOWN |-> 0, MICRO |-> 768, SMALL |-> 2048, LUCY_7B_CLASS |-> 6144]

(* RoutingPolicy: a maximum that names no class is taken for SMALL.         *)
MaxRank(config) == IF config.max \in Classes THEN Rank[config.max] ELSE Rank["SMALL"]

(* ThermalGovernor.evaluate: warn at 65, critical at 75.                    *)
Governor(temp) ==
    IF temp = Unread THEN "UNKNOWN"
    ELSE IF temp >= 75 THEN "STOP"
    ELSE IF temp >= 65 THEN "THROTTLE" ELSE "NORMAL"

Result(decision, reason) == [decision |-> decision, reason |-> reason]
Denied(reason) == Result("DENY", reason)
Pass == Result("PASS", "OK")

LocalDenial(config, request, class) ==
    IF request.role # "PHONE" THEN Pass
    ELSE IF ~config.enabled THEN Denied("LOCAL_INFERENCE_DISABLED")
    ELSE IF config.arm /\ ~config.unlocked /\ request.target = NoTarget
         THEN Denied("ARM_LOCAL_INFERENCE_LOCKED")
    ELSE IF Rank[class] > MaxRank(config) THEN Denied("PHONE_MODEL_DENIED")
    ELSE Pass

(* phone_local_gate: heat first, then memory; memory that was not read is   *)
(* taken to be enough, a temperature that was not read is not.              *)
PhoneGate(snapshot, class) ==
    LET action == IF snapshot.available THEN Governor(snapshot.temp) ELSE "UNKNOWN" IN
    IF action = "UNKNOWN" THEN Denied("THERMAL_UNKNOWN")
    ELSE IF action = "STOP" THEN Denied("THERMAL_LIMIT")
    ELSE IF action = "THROTTLE" THEN Result("THROTTLE", "THERMAL_LIMIT")
    ELSE IF snapshot.ram # Unread /\ snapshot.ram < Required[class]
         THEN Denied("INSUFFICIENT_RAM")
    ELSE Pass

IfHealthy(provider, online, result) ==
    IF provider \in online THEN result ELSE Denied("PROVIDER_OFFLINE")

Usable(host) == host.status = "REGISTERED" /\ host.errors = {}

(* _pick_remote_host: the one that was asked for, usable or not; the empty  *)
(* name asks for any that is usable, as a target that is no target.         *)
Candidates(request, hosts) ==
    IF request.target = "" THEN {h \in DOMAIN hosts : Usable(hosts[h])}
    ELSE DOMAIN hosts \cap {request.target}

RemoteRoute(request, host, online) ==
    IF ~Usable(host) THEN Denied("NO_REMOTE_HOST")
    ELSE IfHealthy(IF host.provider = "" THEN request.provider ELSE host.provider,
                   IF host.provider = "" THEN {request.provider} ELSE online,
                   Result("ROUTE", "REMOTE_HOST_SELECTED"))

Mock(config) ==
    IF config.mock THEN Result("ALLOW", "MOCK_PROVIDER_SELECTED")
    ELSE Denied("MOCK_PROVIDER_SELECTED")

(* ModelRouter.route().  The registry lists its usable hosts by name, and   *)
(* which one comes first is left open: these are the possible results.      *)
Routes(config, request, online, hosts) ==
    LET class == ClassOf(SizeOf(request.model, config.declared))
        denial == LocalDenial(config, request, class)
        gate == PhoneGate(request.snapshot, class)
        candidates == Candidates(request, hosts) IN
    IF request.provider = "mock" THEN {Mock(config)}
    ELSE IF denial # Pass THEN {denial}
    ELSE IF class = "UNKNOWN" THEN {Denied("UNKNOWN_MODEL")}
    ELSE IF request.role # "PHONE"
         THEN {IfHealthy(request.provider, online, Result("ALLOW", "OK"))}
    ELSE IF request.target = NoTarget
         THEN {IF gate # Pass THEN gate
               ELSE IfHealthy(request.provider, online, Result("ALLOW", "OK"))}
    ELSE IF candidates = {}
         THEN {Denied(IF request.target = "" THEN "NO_REMOTE_HOST" ELSE "UNKNOWN_REMOTE_HOST")}
    ELSE {RemoteRoute(request, hosts[h], online) : h \in candidates}
-----------------------------------------------------------------------------
(* What the router promises: the operator lets the phone run a model of     *)
(* this size, and its temperature was read and is not critical.             *)
PhoneMayRun(config, request) ==
    LET snapshot == request.snapshot
        class == ClassOf(SizeOf(request.model, config.declared)) IN
    /\ config.enabled /\ (config.arm => config.unlocked)
    /\ snapshot.available /\ snapshot.temp # Unread /\ snapshot.temp < 75
    /\ class # "UNKNOWN" /\ Rank[class] <= MaxRank(config)
=============================================================================
