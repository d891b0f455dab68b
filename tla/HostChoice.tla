----------------------------- MODULE HostChoice -----------------------------
(***************************************************************************)
(* The hosts a request may be routed to: HostRegistry (routing/hosts.py)   *)
(* as a function from names to hosts, and the choice between hosts by what *)
(* they report (routing/resource_router.py).  A host is named by its place *)
(* in the order of the names; memory is in MiB.                            *)
(***************************************************************************)
EXTENDS Routing

Names == Nat

(* An identity that is read may be the empty string, which is no GPU.       *)
Gpus == {Unread, "", "gpu"}

HostStatuses == {"UNKNOWN", "OFFLINE", "UNHEALTHY", "REGISTERED"}

HostStates ==
    [status : HostStatuses, errors : SUBSET STRING, provider : STRING,
     gpu : Gpus, ram : Nat \cup {Unread}]

-----------------------------------------------------------------------------
(* HostRegistry.  An operation on a name that is not there changes nothing. *)

(* What configuration says of a host is kept, its status included; only an  *)
(* entry that claims nothing leaves one that is there alone.                *)
Ingest(hosts, name, host) ==
    IF name \in DOMAIN hosts /\ host.status = "UNKNOWN" THEN hosts
    ELSE [n \in DOMAIN hosts \cup {name} |-> IF n = name THEN host ELSE hosts[n]]

Register(hosts, name, host) ==
    [n \in DOMAIN hosts \cup {name} |->
        IF n = name THEN [host EXCEPT !.status = "REGISTERED", !.errors = {}]
        ELSE hosts[n]]

(* Only the fields the telemetry names; neither status nor errors.          *)
Heartbeat(hosts, name, telemetry) ==
    [n \in DOMAIN hosts |->
        IF n # name THEN hosts[n]
        ELSE [hosts[n] EXCEPT
                 !.ram = IF "ram" \in DOMAIN telemetry THEN telemetry.ram ELSE @,
                 !.gpu = IF "gpu" \in DOMAIN telemetry THEN telemetry.gpu ELSE @]]

MarkOffline(hosts, name) ==
    [n \in DOMAIN hosts |->
        IF n = name THEN [hosts[n] EXCEPT !.status = "OFFLINE"] ELSE hosts[n]]

MarkUnhealthy(hosts, name, error) ==
    [n \in DOMAIN hosts |->
        IF n = name
        THEN [hosts[n] EXCEPT !.status = "UNHEALTHY", !.errors = @ \cup {error}]
        ELSE hosts[n]]

UsableNames(hosts) == {n \in DOMAIN hosts : Usable(hosts[n])}

-----------------------------------------------------------------------------
(* The choice.  A snapshot, where there is one, answers for the memory even *)
(* when it could not read it; for the GPU the host's own word counts too.   *)

CONSTANT NoSnapshot

FreeRam(host, snapshot) == IF snapshot = NoSnapshot THEN host.ram ELSE snapshot.ram

HasGpu(host, snapshot) ==
    \/ snapshot # NoSnapshot /\ snapshot.gpu \notin {Unread, ""}
    \/ host.gpu \notin {Unread, ""}

(* The score: 16 GiB of free memory are worth half a GPU, and memory beyond *)
(* them nothing.                                                            *)
Full == 16 * 1024

RamScore(ram) == IF ram = Unread THEN 0 ELSE IF ram < Full THEN ram ELSE Full

Score(host, snapshot) ==
    (IF HasGpu(host, snapshot) THEN 2 * Full ELSE 0)
    + RamScore(FreeRam(host, snapshot))

(* select_host: the best score, then the first name; none if none is usable *)
Selected(hosts, snapshots) ==
    LET score(n) == Score(hosts[n], snapshots[n]) IN
    {n \in UsableNames(hosts) :
        \A other \in UsableNames(hosts) \ {n} :
            \/ score(n) > score(other)
            \/ score(n) = score(other) /\ n < other}

(* resource_gate: memory that was not read is taken to be enough, a GPU     *)
(* identity that was not read is not, and nothing is allowed unseen.        *)
ResourceGate(snapshot, required) ==
    IF snapshot = NoSnapshot \/ ~snapshot.available
    THEN Result("THROTTLE", "GPU_TELEMETRY_UNKNOWN")
    ELSE IF /\ snapshot.ram # Unread /\ required # Unread
            /\ snapshot.ram < required
         THEN Denied("INSUFFICIENT_RAM")
    ELSE IF snapshot.gpu = Unread THEN Result("THROTTLE", "GPU_TELEMETRY_UNKNOWN")
    ELSE Result("ALLOW", "OK")
=============================================================================
