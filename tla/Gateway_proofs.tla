--------------------------- MODULE Gateway_proofs ---------------------------
(***************************************************************************)
(* A chat is answered by the model of a phone only for a decision that is  *)
(* on record and that the router's promise stands behind, and the rate     *)
(* limiter keeps its word, whatever the configuration, the requests, the   *)
(* clients and the window are.                                             *)
(***************************************************************************)
EXTENDS Gateway, HostChoice, Selection_proofs, FiniteSetTheorems

(* The router, the host registry and the choice between hosts.               *)

(* What ALLOW adds: it is cool, the memory that was read is enough, and the  *)
(* provider is healthy.  THROTTLE promises none of these.                    *)
PhoneIsReady(config, request, online) ==
    LET snapshot == request.snapshot
        class == ClassOf(SizeOf(request.model, config.declared)) IN
    /\ snapshot.temp < 65
    /\ snapshot.ram = Unread \/ snapshot.ram >= Required[class]
    /\ request.provider \in online

LEMMA Ranks ==
    ASSUME NEW size \in Int \cup {Unread}, NEW config
    PROVE  /\ ClassOf(size) \in Classes
           /\ Rank[ClassOf(size)] \in Int /\ Required[ClassOf(size)] \in Int
           /\ MaxRank(config) \in Int
BY DEF ClassOf, Classes, Rank, Required, MaxRank

(* The gate lets nothing through but on a temperature below critical, and    *)
(* passes only what is cool and has the memory, if that was read.            *)
LEMMA GateTemp ==
    ASSUME NEW snapshot, snapshot.temp \in Int \cup {Unread}, NEW class,
           PhoneGate(snapshot, class).decision \in {"ALLOW", "THROTTLE", "PASS"}
    PROVE  /\ snapshot.available /\ snapshot.temp # Unread /\ snapshot.temp < 75
           /\ PhoneGate(snapshot, class) = Pass =>
                 /\ snapshot.temp < 65
                 /\ ~(snapshot.ram # Unread /\ snapshot.ram < Required[class])
<1>1. /\ snapshot.available
      /\ Governor(snapshot.temp) \in {"NORMAL", "THROTTLE"}
  BY DEF PhoneGate, Denied, Result, Governor
<1>2. PhoneGate(snapshot, class) = Pass =>
         /\ Governor(snapshot.temp) = "NORMAL"
         /\ ~(snapshot.ram # Unread /\ snapshot.ram < Required[class])
  BY <1>1 DEF PhoneGate, Denied, Result, Pass
<1>3. /\ snapshot.temp # Unread /\ snapshot.temp < 75
      /\ Governor(snapshot.temp) = "NORMAL" => snapshot.temp < 65
  BY <1>1, RoutingAssumption DEF Governor
<1> QED
  BY <1>1, <1>2, <1>3

LEMMA DenialDenies ==
    ASSUME NEW config, NEW request, NEW class,
           LocalDenial(config, request, class) # Pass
    PROVE  LocalDenial(config, request, class).decision = "DENY"
BY DEF LocalDenial, Denied, Result

(* The five ways a request that is not for the mock is answered.             *)
LEMMA RouteCases ==
    ASSUME NEW config, NEW request, NEW online, NEW hosts,
           request.provider # "mock",
           NEW route \in Routes(config, request, online, hosts)
    PROVE  LET class == ClassOf(SizeOf(request.model, config.declared))
               denial == LocalDenial(config, request, class)
               gate == PhoneGate(request.snapshot, class)
               healthy == IfHealthy(request.provider, online, Result("ALLOW", "OK")) IN
           \/ denial # Pass /\ route = denial
           \/ denial = Pass /\ route.decision = "DENY"
           \/ denial = Pass /\ request.role # "PHONE" /\ route = healthy
           \/ /\ denial = Pass /\ class # "UNKNOWN"
              /\ request.role = "PHONE" /\ request.target = NoTarget
              /\ route = IF gate # Pass THEN gate ELSE healthy
           \/ denial = Pass /\ request.role = "PHONE" /\ route.decision = "ROUTE"
<1> DEFINE class == ClassOf(SizeOf(request.model, config.declared))
           denial == LocalDenial(config, request, class)
           candidates == Candidates(request, hosts)
<1>1. \A reason : Denied(reason).decision = "DENY"
  BY DEF Denied, Result
<1>2. \A h : RemoteRoute(request, hosts[h], online).decision \in {"DENY", "ROUTE"}
  BY DEF RemoteRoute, IfHealthy, Denied, Result
<1> QED
  BY <1>1, <1>2 DEF Routes

(* A model other than the mock is let run on a phone only where the operator *)
(* allows it, for a size that is known and allowed, and on a temperature     *)
(* that was read and is not critical; and, where the answer is ALLOW, with   *)
(* what ALLOW adds.                                                          *)
THEOREM PhoneInference ==
    ASSUME NEW config, NEW request, NEW online, NEW hosts,
           request.role = "PHONE", request.provider # "mock",
           SizeOf(request.model, config.declared) \in Int \cup {Unread},
           request.snapshot.temp \in Int \cup {Unread},
           request.snapshot.ram \in Int \cup {Unread},
           NEW route \in Routes(config, request, online, hosts),
           route.decision \in {"ALLOW", "THROTTLE"}
    PROVE  /\ PhoneMayRun(config, request)
           /\ route.decision = "ALLOW" => PhoneIsReady(config, request, online)
<1> DEFINE class == ClassOf(SizeOf(request.model, config.declared))
           denial == LocalDenial(config, request, class)
           gate == PhoneGate(request.snapshot, class)
           healthy == IfHealthy(request.provider, online, Result("ALLOW", "OK"))
<1>1. /\ denial = Pass /\ class # "UNKNOWN" /\ request.target = NoTarget
      /\ route = IF gate # Pass THEN gate ELSE healthy
  <2>1. denial # Pass => denial.decision = "DENY"
    BY DenialDenies
  <2>2. \/ denial # Pass /\ route = denial
        \/ denial = Pass /\ route.decision = "DENY"
        \/ denial = Pass /\ request.role # "PHONE" /\ route = healthy
        \/ /\ denial = Pass /\ class # "UNKNOWN"
           /\ request.role = "PHONE" /\ request.target = NoTarget
           /\ route = IF gate # Pass THEN gate ELSE healthy
        \/ denial = Pass /\ request.role = "PHONE" /\ route.decision = "ROUTE"
    BY RouteCases
  <2> HIDE DEF class, denial, gate, healthy
  <2> QED
    BY <2>1, <2>2
<1>4. /\ config.enabled /\ (config.arm => config.unlocked)
      /\ ~(Rank[class] > MaxRank(config))
  BY <1>1 DEF LocalDenial, Denied, Result, Pass
<1>5. /\ Rank[class] <= MaxRank(config)
      /\ Required[class] \in Int
  <2>1. Rank[class] \in Int /\ Required[class] \in Int /\ MaxRank(config) \in Int
    BY Ranks
  <2> HIDE DEF class
  <2> QED
    BY <1>4, <2>1
<1>6. gate.decision \in {"THROTTLE", "PASS"} /\ (route.decision = "ALLOW" => gate = Pass)
  BY <1>1 DEF PhoneGate, Denied, Result, Pass, IfHealthy
<1>7. /\ request.snapshot.available /\ request.snapshot.temp # Unread
      /\ request.snapshot.temp < 75
      /\ gate = Pass =>
            /\ request.snapshot.temp < 65
            /\ ~(request.snapshot.ram # Unread /\ request.snapshot.ram < Required[class])
  BY <1>6, GateTemp
<1>8. PhoneMayRun(config, request)
  BY <1>1, <1>4, <1>5, <1>7 DEF PhoneMayRun
<1>9. ASSUME route.decision = "ALLOW" PROVE PhoneIsReady(config, request, online)
  <2>1. gate = Pass /\ request.provider \in online
    BY <1>1, <1>6, <1>9 DEF IfHealthy, Denied, Result
  <2> QED
    BY <1>5, <1>7, <2>1 DEF PhoneIsReady
<1> QED
  BY <1>8, <1>9

(* Even a model that a remote host is to run needs local inference enabled,  *)
(* and is held to the size the phone itself may run.                         *)
THEOREM RemoteNeedsLocal ==
    ASSUME NEW config, NEW request, NEW online, NEW hosts,
           NEW route \in Routes(config, request, online, hosts),
           route.decision = "ROUTE"
    PROVE  /\ request.role = "PHONE" /\ config.enabled
           /\ ~(Rank[ClassOf(SizeOf(request.model, config.declared))] > MaxRank(config))
<1> DEFINE class == ClassOf(SizeOf(request.model, config.declared))
           denial == LocalDenial(config, request, class)
<1>1. request.provider # "mock"
  <2>1. Mock(config).decision # "ROUTE"
    BY DEF Mock, Denied, Result
  <2>2. request.provider = "mock" => route = Mock(config)
    BY DEF Routes
  <2> QED
    BY <2>1, <2>2
<1>2. denial = Pass /\ request.role = "PHONE"
  <2>1. denial # Pass => denial.decision = "DENY"
    BY DenialDenies
  <2>2. \/ denial # Pass /\ route = denial
        \/ denial = Pass /\ (request.role = "PHONE" \/ route.decision # "ROUTE")
    BY <1>1, RouteCases DEF IfHealthy, Denied, Result
  <2> HIDE DEF class, denial
  <2> QED
    BY <2>1, <2>2
<1> QED
  BY <1>2 DEF LocalDenial, Denied, Result, Pass
-----------------------------------------------------------------------------
(* No heartbeat and no mark makes a host usable: after a failure only a      *)
(* registration does, or an entry of the configuration that says REGISTERED  *)
(* and names no error, whatever hosts.py:3 says of mere configuration.       *)
THEOREM OnlyRegistrationRevives ==
    ASSUME NEW hosts, \A n \in DOMAIN hosts : hosts[n] \in HostStates,
           NEW name, NEW host, NEW telemetry, NEW error
    PROVE  /\ UsableNames(Heartbeat(hosts, name, telemetry)) = UsableNames(hosts)
           /\ UsableNames(MarkOffline(hosts, name)) = UsableNames(hosts) \ {name}
           /\ UsableNames(MarkUnhealthy(hosts, name, error)) = UsableNames(hosts) \ {name}
           /\ UsableNames(Ingest(hosts, name, host)) \ UsableNames(hosts)
                  = IF Usable(host) THEN {name} \ UsableNames(hosts) ELSE {}
<1>1. UsableNames(Heartbeat(hosts, name, telemetry)) = UsableNames(hosts)
  <2> DEFINE after == Heartbeat(hosts, name, telemetry)
  <2>1. DOMAIN after = DOMAIN hosts
    BY DEF Heartbeat
  <2>2. ASSUME NEW n \in DOMAIN hosts PROVE Usable(after[n]) <=> Usable(hosts[n])
    <3>1. CASE n # name
      BY <3>1 DEF Heartbeat
    <3>2. CASE n = name
      BY <3>2 DEF Heartbeat, Usable, HostStates
    <3> QED
      BY <3>1, <3>2
  <2> QED
    BY <2>1, <2>2 DEF UsableNames
<1>2. UsableNames(MarkOffline(hosts, name)) = UsableNames(hosts) \ {name}
  BY DEF UsableNames, MarkOffline, Usable, HostStates
<1>3. UsableNames(MarkUnhealthy(hosts, name, error)) = UsableNames(hosts) \ {name}
  <2> DEFINE after == MarkUnhealthy(hosts, name, error)
  <2>1. DOMAIN after = DOMAIN hosts
    BY DEF MarkUnhealthy
  <2>2. \A n \in DOMAIN hosts : n # name => after[n] = hosts[n]
    BY DEF MarkUnhealthy
  <2>3. name \in DOMAIN hosts => after[name].status = "UNHEALTHY"
    BY DEF MarkUnhealthy, HostStates
  <2> QED
    BY <2>1, <2>2, <2>3 DEF UsableNames, Usable
<1>4. UsableNames(Ingest(hosts, name, host)) \ UsableNames(hosts)
          = IF Usable(host) THEN {name} \ UsableNames(hosts) ELSE {}
  <2>1. CASE name \in DOMAIN hosts /\ host.status = "UNKNOWN"
    BY <2>1 DEF UsableNames, Ingest, Usable
  <2>2. CASE ~(name \in DOMAIN hosts /\ host.status = "UNKNOWN")
    BY <2>2 DEF UsableNames, Ingest
  <2> QED
    BY <2>1, <2>2
<1> QED
  BY <1>1, <1>2, <1>3, <1>4

(* The chosen host is usable, it has a GPU if any usable host has one, among *)
(* those that do none has more free memory, up to 16 GiB, and at most one is *)
(* chosen: the choice does not depend on the order of the candidates.        *)
THEOREM ChosenHost ==
    ASSUME NEW hosts, NEW snapshots,
           NEW n \in Selected(hosts, snapshots), DOMAIN hosts \subseteq Names,
           \A m \in DOMAIN hosts :
               FreeRam(hosts[m], snapshots[m]) \in Nat \cup {Unread}
    PROVE  /\ Usable(hosts[n])
           /\ \A other \in UsableNames(hosts) :
                  HasGpu(hosts[other], snapshots[other]) =>
                      /\ HasGpu(hosts[n], snapshots[n])
                      /\ RamScore(FreeRam(hosts[n], snapshots[n]))
                             >= RamScore(FreeRam(hosts[other], snapshots[other]))
           /\ Selected(hosts, snapshots) = {n}
<1> DEFINE gpu(m) == HasGpu(hosts[m], snapshots[m])
           ram(m) == RamScore(FreeRam(hosts[m], snapshots[m]))
           score(m) == Score(hosts[m], snapshots[m])
           usable == UsableNames(hosts)
<1>1. n \in usable /\ usable \subseteq DOMAIN hosts /\ usable \subseteq Nat
  BY DEF Selected, UsableNames, Names
<1>2. \A m \in usable :
          /\ ram(m) \in 0..Full
          /\ score(m) = IF gpu(m) THEN 2 * Full + ram(m) ELSE ram(m)
          /\ score(m) \in Int
  <2> TAKE m \in usable
  <2> DEFINE free == FreeRam(hosts[m], snapshots[m])
  <2>1. free \in Nat \cup {Unread}
    BY <1>1
  <2>2. RamScore(free) \in 0..Full /\ RamScore(free) \in Int
    <3> HIDE DEF free
    <3>1. Full \in Nat
      BY DEF Full
    <3>2. CASE free = Unread
      BY <3>1, <3>2 DEF RamScore
    <3>3. CASE free \in Nat /\ free # Unread
      BY <3>1, <3>3 DEF RamScore
    <3> QED
      BY <2>1, <3>2, <3>3
  <2>3. score(m) = (IF gpu(m) THEN 2 * Full ELSE 0) + RamScore(free)
    BY DEF Score
  <2> HIDE DEF free, score, gpu
  <2>4. score(m) = IF gpu(m) THEN 2 * Full + RamScore(free) ELSE RamScore(free)
    <3>1. CASE gpu(m)
      BY <2>3, <3>1
    <3>2. CASE ~gpu(m)
      <4>1. score(m) = 0 + RamScore(free)
        BY <2>3, <3>2
      <4> QED
        BY <2>2, <3>2, <4>1
    <3> QED
      BY <3>1, <3>2
  <2>5. score(m) \in Int
    <3>1. 2 * Full \in Int
      BY DEF Full
    <3> HIDE DEF Full
    <3> QED
      BY <2>2, <2>4, <3>1
  <2> QED
    BY <2>2, <2>4, <2>5 DEF free
<1>3. \A other \in usable \ {n} :
          score(n) > score(other) \/ (score(n) = score(other) /\ n < other)
  BY DEF Selected
<1>4. \A other \in usable : gpu(other) => gpu(n) /\ ram(n) >= ram(other)
  <2> SUFFICES ASSUME NEW other \in usable
               PROVE  gpu(other) => gpu(n) /\ ram(n) >= ram(other)
    OBVIOUS
  <2>1. /\ ram(n) \in 0..Full /\ ram(other) \in 0..Full
        /\ score(n) = IF gpu(n) THEN 2 * Full + ram(n) ELSE ram(n)
        /\ score(other) = IF gpu(other) THEN 2 * Full + ram(other) ELSE ram(other)
    BY <1>1, <1>2
  <2>2. other # n => score(n) >= score(other)
    <3>1. score(n) \in Int /\ score(other) \in Int
      BY <1>1, <1>2
    <3>2. other # n => score(n) > score(other) \/ score(n) = score(other)
      BY <1>3
    <3> HIDE DEF score
    <3> QED
      BY <3>1, <3>2
  <2>3. CASE other = n
    BY <2>1, <2>3
  <2>4. CASE other # n
    <3> DEFINE g == gpu(n)  h == gpu(other)  r == ram(n)  q == ram(other)
               s == score(n)  t == score(other)
    <3>1. /\ r \in 0..Full /\ q \in 0..Full /\ s >= t
          /\ s = IF g THEN 2 * Full + r ELSE r
          /\ t = IF h THEN 2 * Full + q ELSE q
      BY <2>1, <2>2, <2>4
    <3>2. h => g /\ r >= q
      <4> HIDE DEF g, h, r, q, s, t
      <4>1. Full \in Nat /\ 2 * Full = Full + Full /\ Full > 0
        BY DEF Full
      <4>2. CASE g /\ h
        BY <3>1, <4>1, <4>2
      <4>3. CASE h /\ ~g
        BY <3>1, <4>1, <4>3
      <4> QED
        BY <4>2, <4>3
    <3> QED
      BY <3>2
  <2> QED
    BY <2>3, <2>4
<1>5. ASSUME NEW m \in Selected(hosts, snapshots), m # n PROVE FALSE
  <2>1. m \in usable /\ n \in usable \ {m} /\ m \in Nat /\ n \in Nat
    BY <1>1, <1>5 DEF Selected
  <2>2. score(m) > score(n) \/ (score(m) = score(n) /\ m < n)
    BY <1>5, <2>1 DEF Selected
  <2>3. score(n) > score(m) \/ (score(n) = score(m) /\ n < m)
    BY <1>3, <1>5, <2>1
  <2>4. score(m) \in Int /\ score(n) \in Int
    BY <1>2, <2>1
  <2> HIDE DEF score
  <2> QED
    BY <2>1, <2>2, <2>3, <2>4
<1> QED
  BY <1>1, <1>4, <1>5 DEF UsableNames

(* A host passes the resource gate only with telemetry, a GPU identity that  *)
(* was read and memory that suffices, if both its size and the need are      *)
(* known.                                                                    *)
THEOREM NoBlindHost ==
    ASSUME NEW snapshot, NEW required,
           ResourceGate(snapshot, required).decision = "ALLOW"
    PROVE  /\ snapshot # NoSnapshot /\ snapshot.available /\ snapshot.gpu # Unread
           /\ snapshot.ram # Unread /\ required # Unread => ~(snapshot.ram < required)
BY DEF ResourceGate, Denied, Result

-----------------------------------------------------------------------------
(* The gateway.                                                              *)

(* A call that has been routed carries a request and a route for it; one     *)
(* whose model runs has its decision on record, and the decision let it run. *)
CallInv(c) ==
    /\ calls[c].at \in {"recording", "inferring"} =>
          /\ calls[c].request \in Requests
          /\ \E online : calls[c].route \in Routes(Config, calls[c].request, online, <<>>)
    /\ calls[c].at = "inferring" => c \in recorded /\ RunsHere(calls[c])

IInv ==
    /\ DOMAIN calls = Clients
    /\ \A c \in Clients : CallInv(c)

LEMMA IInvInit == Init => IInv
BY DEF Init, IInv, CallInv, NoCalls, Idle

(* What one handler does is nothing to the calls of other clients.           *)
LEMMA OneCall ==
    ASSUME NEW c \in Clients, IInv, DOMAIN calls' = Clients, CallInv(c)',
           \A d \in Clients \ {c} :
              calls'[d] = calls[d] /\ (d \in recorded => d \in recorded')
    PROVE  IInv'
<1> SUFFICES ASSUME NEW d \in Clients \ {c} PROVE CallInv(d)'
  BY DEF IInv
<1> QED
  BY DEF IInv, CallInv, RunsHere

LEMMA AnswersKeep ==
    ASSUME NEW c \in Clients, IInv, Answers(c)
    PROVE  IInv'
<1>1. DOMAIN calls' = Clients /\ calls'[c] = Idle
  BY DEF IInv, Answers
<1>2. CallInv(c)'
  BY <1>1 DEF CallInv, Idle
<1>3. \A d \in Clients \ {c} :
         calls'[d] = calls[d] /\ (d \in recorded => d \in recorded')
  BY DEF IInv, Answers
<1> QED
  BY <1>1, <1>2, <1>3, OneCall

LEMMA GuardKeeps ==
    ASSUME NEW c \in Clients, IInv, Guard(c)
    PROVE  IInv'
<1>1. DOMAIN calls' = Clients /\ calls'[c].at \in {"body", "idle"}
  BY DEF IInv, Guard, Idle
<1>2. CallInv(c)'
  BY <1>1 DEF CallInv
<1>3. \A d \in Clients \ {c} :
         calls'[d] = calls[d] /\ (d \in recorded => d \in recorded')
  BY DEF IInv, Guard
<1> QED
  BY <1>1, <1>2, <1>3, OneCall

LEMMA SelfCheckKeeps ==
    ASSUME NEW c \in Clients, IInv, SelfCheck(c)
    PROVE  IInv'
<1>1. DOMAIN calls' = Clients /\ calls'[c].at = "checking"
  BY DEF IInv, SelfCheck
<1>2. CallInv(c)'
  BY <1>1 DEF CallInv
<1>3. \A d \in Clients \ {c} :
         calls'[d] = calls[d] /\ (d \in recorded => d \in recorded')
  BY DEF IInv, SelfCheck
<1> QED
  BY <1>1, <1>2, <1>3, OneCall

LEMMA ChatKeeps ==
    ASSUME NEW c \in Clients, NEW online, NEW request \in Requests, IInv,
           Chat(c, online, request)
    PROVE  IInv'
<1>1. PICK route \in Routes(Config, request, online \cap Providers, <<>>) :
         calls' = [calls EXCEPT ![c] =
                      [at |-> "recording", request |-> request, route |-> route]]
  BY DEF Chat
<1>2. DOMAIN calls' = Clients /\ calls'[c].at = "recording"
      /\ calls'[c].request = request /\ calls'[c].route = route
  BY <1>1 DEF IInv
<1>3. CallInv(c)'
  BY <1>1, <1>2 DEF CallInv
<1>4. \A d \in Clients \ {c} :
         calls'[d] = calls[d] /\ (d \in recorded => d \in recorded')
  BY <1>1 DEF IInv, Chat
<1> QED
  BY <1>2, <1>3, <1>4, OneCall

LEMMA RecordedKeeps ==
    ASSUME NEW c \in Clients, IInv, Recorded(c)
    PROVE  IInv'
<1>1. CASE ~RunsHere(calls[c])
  BY <1>1, AnswersKeep DEF Recorded
<1>2. CASE RunsHere(calls[c])
  <2>1. /\ calls' = [calls EXCEPT ![c].at = "inferring"]
        /\ recorded' = recorded \cup {c} /\ calls[c].at = "recording"
    BY <1>2 DEF Recorded
  <2>2. /\ DOMAIN calls' = Clients /\ calls'[c].request = calls[c].request
        /\ calls'[c].route = calls[c].route
    BY <2>1 DEF IInv
  <2>3. CallInv(c)'
    BY <1>2, <2>1, <2>2 DEF IInv, CallInv, RunsHere
  <2>4. \A d \in Clients \ {c} :
           calls'[d] = calls[d] /\ (d \in recorded => d \in recorded')
    BY <2>1 DEF IInv
  <2> QED
    BY <2>2, <2>3, <2>4, OneCall
<1> QED
  BY <1>1, <1>2

LEMMA IInvNext == IInv /\ [Next]_vars => IInv'
<1> SUFFICES ASSUME IInv, [Next]_vars PROVE IInv'
  OBVIOUS
<1>1. CASE calls' = calls /\ recorded' = recorded
  BY <1>1 DEF IInv, CallInv, RunsHere
<1>2. ASSUME NEW c \in Clients, Guard(c) PROVE IInv'
  BY <1>2, GuardKeeps
<1>3. ASSUME NEW c \in Clients,
             Reply(c) \/ SelfChecked(c) \/ Submit(c) \/ RecordFails(c) \/ Inferred(c)
      PROVE  IInv'
  BY <1>3, AnswersKeep DEF Reply, SelfChecked, Submit, RecordFails, Inferred
<1>4. ASSUME NEW c \in Clients, Recorded(c) PROVE IInv'
  BY <1>4, RecordedKeeps
<1>5. ASSUME NEW c \in Clients, NEW online, NEW request \in Requests,
             Chat(c, online, request)
      PROVE  IInv'
  BY <1>5, ChatKeeps
<1>6. CASE Restart
  BY <1>6 DEF Restart, NoCalls, Idle, IInv, CallInv
<1>7. CASE Tick \/ \E t \in DOMAIN tasks : RunGoesOn(t)
  BY <1>1, <1>7 DEF Tick, RunGoesOn, RunReturns, RunRaises, Asks, Becomes, handlers
<1>8. CASE UNCHANGED vars
  BY <1>1, <1>8 DEF vars, handlers
<1>9. ASSUME NEW c \in Clients, SelfCheck(c) PROVE IInv'
  BY <1>9, SelfCheckKeeps
<1> QED
  BY <1>2, <1>3, <1>4, <1>5, <1>6, <1>7, <1>8, <1>9 DEF Next

LEMMA IInvGated == IInv => ChatsAreGated
<1> SUFFICES ASSUME IInv, NEW c \in Clients, calls[c].at = "inferring"
             PROVE  c \in recorded /\ PhoneMayRun(Config, calls[c].request)
  BY DEF ChatsAreGated
<1>1. /\ c \in recorded /\ RunsHere(calls[c]) /\ calls[c].request \in Requests
      /\ \E online : calls[c].route \in Routes(Config, calls[c].request, online, <<>>)
  BY DEF IInv, CallInv
<1>2. PICK online : calls[c].route \in Routes(Config, calls[c].request, online, <<>>)
  BY <1>1
<1> DEFINE request == calls[c].request
<1>3. /\ request.role = "PHONE" /\ request.provider # "mock"
      /\ SizeOf(request.model, Config.declared) \in Int \cup {Unread}
      /\ request.snapshot.temp \in Int \cup {Unread}
      /\ request.snapshot.ram \in Int \cup {Unread}
  BY <1>1, GatewayAssumption DEF RunsHere
<1>4. calls[c].route.decision \in {"ALLOW", "THROTTLE"}
  BY <1>1 DEF RunsHere
<1>5. PhoneMayRun(Config, request)
  <2> HIDE DEF request
  <2>1. calls[c].route \in Routes(Config, request, online, <<>>)
    BY <1>2 DEF request
  <2> QED
    BY <1>3, <1>4, <2>1, PhoneInference
<1> QED
  BY <1>1, <1>5

(* The model of a phone answers a chat only for a decision that is on record, *)
(* and only as PhoneInference promises: ChatsAreGated, of every gateway.  The *)
(* self-check of an audit runs it too, and is under neither.                 *)
THEOREM ChatInference == Spec => []ChatsAreGated
<1>1. Spec => []IInv
  BY IInvInit, IInvNext, PTL DEF Spec
<1> QED
  BY <1>1, IInvGated, PTL

-----------------------------------------------------------------------------
(* The rate limiter: h is what it still counts of a client that was admitted *)
(* at the times a and was promised to pass at p, when the time is t.         *)

(* It counts the end of what it admitted.                                    *)
Counts(h, a) ==
    /\ h \in Seq(Nat) /\ a \in Seq(Nat) /\ Len(h) <= Len(a) /\ Len(h) <= MaxRequests
    /\ \A i \in 1..Len(h) : h[i] = a[Len(a) - Len(h) + i]

InOrder(a, t) ==
    /\ \A i, j \in 1..Len(a) : i <= j => a[i] <= a[j]
    /\ \A i \in 1..Len(a) : a[i] <= t

Spaced(a) == \A i \in 1..(Len(a) - MaxRequests) : a[i + MaxRequests] - a[i] >= Window

(* All but the last n admissions are out of the window.                      *)
Old(a, n, t) == \A i \in 1..(Len(a) - n) : a[i] <= t - Window

(* A promise is about the oldest admission that is counted, and comes less   *)
(* than a millisecond before it is out of the window, by half of one at most. *)
Promise(h, p) ==
    p # Never => Len(h) > 0 /\ p \in Int /\ 2 * (h[1] + Window - p) <= Milli

Limiter(h, a, p, t) ==
    Counts(h, a) /\ InOrder(a, t) /\ Spaced(a) /\ Old(a, Len(h), t) /\ Promise(h, p)

(* What is left once the limiter has dropped what is too old.                *)
Kept(h, r, t) ==
    /\ Len(r) <= Len(h)
    /\ \A i \in 1..Len(r) : r[i] > t - Window
    /\ Len(h) > 0 /\ h[1] <= t - Window => Len(r) < Len(h)
    /\ Len(r) = Len(h) => \A i \in 1..Len(h) : r[i] = h[i]

LEMMA OldestInFront ==
    ASSUME NEW h \in Seq(Nat), NEW D, NEW f \in 1..(Len(h) + 1),
           \A k \in 1..Len(h) : h[k] \in D <=> k < f
    PROVE  /\ Without(h, D) \in Seq(Nat) /\ Len(Without(h, D)) = Len(h) - f + 1
           /\ \A i \in 1..(Len(h) - f + 1) : Without(h, D)[i] = h[f + i - 1]
BY WithoutFront, SMTT(30)

LEMMA Pruning ==
    ASSUME NEW h, NEW a, NEW t \in Nat,
           Counts(h, a), InOrder(a, t), Old(a, Len(h), t)
    PROVE  LET r == Without(h, 0..(t - Window)) IN
           Counts(r, a) /\ Old(a, Len(r), t) /\ Kept(h, r, t)
<1> DEFINE D == 0..(t - Window)
           r == Without(h, D)
           New == {k \in Nat : k = Len(h) + 1 \/ (k \in 1..Len(h) /\ h[k] > t - Window)}
<1>1. /\ h \in Seq(Nat) /\ a \in Seq(Nat) /\ Len(h) \in Nat /\ Len(a) \in Nat
      /\ Len(h) <= Len(a) /\ Len(h) <= MaxRequests
      /\ \A i \in 1..Len(h) : h[i] = a[Len(a) - Len(h) + i]
  BY DEF Counts
<1>2. Window \in Nat \ {0} /\ MaxRequests \in Nat \ {0}
  BY GatewayAssumption
<1>0. Len(h) \in Nat /\ Len(a) \in Nat /\ Len(h) <= Len(a)
  BY <1>1
<1>3. \A i, j \in 1..Len(h) : i <= j => h[i] <= h[j]
  <2> SUFFICES ASSUME NEW i \in 1..Len(h), NEW j \in 1..Len(h), i <= j
               PROVE  h[i] <= h[j]
    OBVIOUS
  <2>1. /\ Len(a) - Len(h) + i \in 1..Len(a) /\ Len(a) - Len(h) + j \in 1..Len(a)
        /\ Len(a) - Len(h) + i <= Len(a) - Len(h) + j
    BY <1>0
  <2> QED
    BY <1>1, <2>1 DEF InOrder
<1>4. PICK f \in New : \A k \in New : f <= k
  <2>1. New \subseteq Nat /\ Len(h) + 1 \in New
    BY <1>1
  <2> QED
    BY <2>1, LeastNumber
<1>5. f \in 1..(Len(h) + 1)
  BY <1>1, <1>4
<1>6. \A k \in 1..Len(h) : h[k] \in Nat
  <2>1. h \in Seq(Nat)
    BY <1>1
  <2> QED
    BY <2>1
<1>7. \A k \in 1..Len(h) : h[k] <= t - Window <=> k < f
  <2> SUFFICES ASSUME NEW k \in 1..Len(h) PROVE h[k] <= t - Window <=> k < f
    OBVIOUS
  <2>1. CASE k < f
    <3>1. k \notin New
      BY <1>4, <1>5, <2>1
    <3> QED
      BY <1>2, <1>6, <2>1, <3>1
  <2>2. CASE ~(k < f)
    <3>1. f \in 1..Len(h) /\ f <= k
      BY <1>1, <1>5, <2>2
    <3>2. h[f] > t - Window
      BY <1>1, <1>4, <3>1
    <3>3. h[f] <= h[k]
      BY <1>3, <3>1
    <3> QED
      BY <1>2, <1>6, <2>2, <3>1, <3>2, <3>3
  <2> QED
    BY <2>1, <2>2
<1>8. \A k \in 1..Len(h) : h[k] \in D <=> k < f
  BY <1>2, <1>6, <1>7
<1> HIDE DEF D, New
<1>9. /\ r \in Seq(Nat) /\ Len(r) = Len(h) - f + 1
      /\ \A i \in 1..(Len(h) - f + 1) : r[i] = h[f + i - 1]
  <2>1. h \in Seq(Nat)
    BY <1>1
  <2> QED
    BY ONLY <2>1, <1>5, <1>8, OldestInFront DEF r
<1>10. /\ Len(r) \in Nat /\ Len(r) <= Len(h)
       /\ \A i \in 1..Len(r) : f + i - 1 \in 1..Len(h) /\ r[i] = h[f + i - 1]
  <2> HIDE DEF r
  <2>1. Len(h) \in Nat /\ f \in 1..(Len(h) + 1) /\ Len(r) = Len(h) - f + 1
    BY <1>1, <1>5, <1>9
  <2>2. Len(r) \in Nat /\ Len(r) <= Len(h)
    BY <2>1
  <2>3. \A i \in 1..Len(r) : f + i - 1 \in 1..Len(h)
    BY <2>1
  <2>4. \A i \in 1..Len(r) : r[i] = h[f + i - 1]
    BY <1>9
  <2> QED
    BY <2>2, <2>3, <2>4
<1> HIDE DEF r
<1>11. Counts(r, a)
  <2>1. ASSUME NEW i \in 1..Len(r) PROVE r[i] = a[Len(a) - Len(r) + i]
    <3>1. f + i - 1 \in 1..Len(h) /\ r[i] = h[f + i - 1]
      BY <1>10
    <3>2. h[f + i - 1] = a[Len(a) - Len(h) + (f + i - 1)]
      BY <1>1, <3>1
    <3>3. Len(a) - Len(h) + (f + i - 1) = Len(a) - Len(r) + i
      <4>1. f \in Nat /\ Len(r) = Len(h) - f + 1
        BY <1>5, <1>9, <1>0
      <4> QED
        BY <1>0, <4>1
    <3> QED
      BY <3>1, <3>2, <3>3
  <2> QED
    BY <1>1, <1>2, <1>9, <1>10, <2>1 DEF Counts
<1>12. Old(a, Len(r), t)
  <2> SUFFICES ASSUME NEW i \in 1..(Len(a) - Len(r)) PROVE a[i] <= t - Window
    BY DEF Old
  <2>1. CASE i <= Len(a) - Len(h)
    BY <1>1, <2>1 DEF Old
  <2>2. CASE ~(i <= Len(a) - Len(h))
    <3> DEFINE k == i - (Len(a) - Len(h))
    <3>1. k \in 1..Len(h) /\ k < f /\ Len(a) - Len(h) + k = i
      <4>1. f \in Nat /\ Len(r) = Len(h) - f + 1
        BY <1>5, <1>9, <1>0
      <4> QED
        BY <1>0, <2>2, <4>1
    <3> HIDE DEF k
    <3>2. h[k] = a[i] /\ h[k] <= t - Window
      BY <1>1, <1>7, <3>1
    <3> QED
      BY <3>2
  <2> QED
    BY <2>1, <2>2
<1>13. Kept(h, r, t)
  <2>1. ASSUME NEW i \in 1..Len(r) PROVE r[i] > t - Window
    <3>1. f + i - 1 \in 1..Len(h) /\ r[i] = h[f + i - 1] /\ ~(f + i - 1 < f)
      BY <1>1, <1>5, <1>10
    <3>2. h[f + i - 1] \in Nat /\ ~(h[f + i - 1] <= t - Window)
      BY <1>6, <1>7, <3>1
    <3> QED
      BY <1>2, <3>1, <3>2
  <2>2. ASSUME Len(h) > 0, h[1] <= t - Window PROVE Len(r) < Len(h)
    <3>1. 1 \in 1..Len(h) /\ 1 < f
      BY <1>1, <1>7, <2>2
    <3> QED
      BY <1>1, <1>5, <1>9, <3>1
  <2>3. ASSUME Len(r) = Len(h) PROVE \A i \in 1..Len(h) : r[i] = h[i]
    <3>1. f = 1
      BY <1>1, <1>5, <1>9, <2>3
    <3>2. \A i \in 1..Len(h) : f + i - 1 = i
      BY <1>1, <3>1
    <3> QED
      BY <1>10, <2>3, <3>2
  <2> QED
    BY <1>10, <2>1, <2>2, <2>3 DEF Kept
<1> QED
  BY <1>11, <1>12, <1>13 DEF r, D

(* A request that is admitted is counted, and spaced from those before it.   *)
LEMMA Admission ==
    ASSUME NEW r, NEW a, NEW t \in Nat, Counts(r, a), InOrder(a, t), Spaced(a),
           Old(a, Len(r), t), Len(r) < MaxRequests
    PROVE  Limiter(Append(r, t), Append(a, t), Never, t)
<1> DEFINE q == Append(r, t)
           b == Append(a, t)
<1>1. /\ r \in Seq(Nat) /\ a \in Seq(Nat) /\ Len(r) \in Nat /\ Len(a) \in Nat
      /\ Len(r) <= Len(a) /\ \A i \in 1..Len(r) : r[i] = a[Len(a) - Len(r) + i]
      /\ \A i \in 1..Len(a) : a[i] \in Nat
  BY DEF Counts
<1>2. Window \in Nat \ {0} /\ MaxRequests \in Nat \ {0}
  BY GatewayAssumption
<1>3. /\ q \in Seq(Nat) /\ Len(q) = Len(r) + 1 /\ q[Len(r) + 1] = t
      /\ \A i \in 1..Len(r) : q[i] = r[i]
  BY <1>1, AppendProperties
<1>4. /\ b \in Seq(Nat) /\ Len(b) = Len(a) + 1 /\ b[Len(a) + 1] = t
      /\ \A i \in 1..Len(a) : b[i] = a[i]
  BY <1>1, AppendProperties
<1> HIDE DEF q, b
<1>5. Counts(q, b)
  <2>1. ASSUME NEW i \in 1..Len(q) PROVE q[i] = b[Len(b) - Len(q) + i]
    <3>1. CASE i = Len(r) + 1
      <4>1. Len(b) - Len(q) + i = Len(a) + 1
        BY <1>1, <1>3, <1>4, <3>1
      <4> QED
        BY <1>3, <1>4, <3>1, <4>1
    <3>2. CASE i # Len(r) + 1
      <4>1. /\ i \in 1..Len(r) /\ Len(b) - Len(q) + i = Len(a) - Len(r) + i
            /\ Len(a) - Len(r) + i \in 1..Len(a)
        <5>1. i \in 1..(Len(r) + 1) /\ i # Len(r) + 1
          BY <1>3, <3>2
        <5>2. Len(b) = Len(a) + 1 /\ Len(q) = Len(r) + 1
          BY <1>3, <1>4
        <5>3. Len(r) \in Nat /\ Len(a) \in Nat /\ Len(r) <= Len(a)
          BY <1>1
        <5> QED
          BY <5>1, <5>2, <5>3
      <4> QED
        BY <1>1, <1>3, <1>4, <4>1
    <3> QED
      BY <3>1, <3>2
  <2>2. Len(q) <= Len(b) /\ Len(q) <= MaxRequests
    BY <1>1, <1>2, <1>3, <1>4
  <2> QED
    BY <1>3, <1>4, <2>1, <2>2 DEF Counts
<1>6. InOrder(b, t)
  <2>1. ASSUME NEW i \in 1..Len(b) PROVE b[i] <= t
    <3>1. CASE i = Len(a) + 1
      BY <1>4, <3>1
    <3>2. CASE i # Len(a) + 1
      <4>1. i \in 1..Len(a)
        BY <1>1, <1>4, <3>2
      <4> QED
        BY <1>4, <4>1 DEF InOrder
    <3> QED
      BY <3>1, <3>2
  <2>2. ASSUME NEW i \in 1..Len(b), NEW j \in 1..Len(b), i <= j PROVE b[i] <= b[j]
    <3>1. CASE j = Len(a) + 1
      BY <1>4, <2>1, <3>1
    <3>2. CASE j # Len(a) + 1
      <4>1. i \in 1..Len(a) /\ j \in 1..Len(a)
        BY <1>1, <1>4, <2>2, <3>2
      <4> QED
        BY <1>4, <2>2, <4>1 DEF InOrder
    <3> QED
      BY <3>1, <3>2
  <2> QED
    BY <2>1, <2>2 DEF InOrder
<1>7. Spaced(b)
  <2> SUFFICES ASSUME NEW i \in 1..(Len(b) - MaxRequests)
               PROVE  b[i + MaxRequests] - b[i] >= Window
    BY DEF Spaced
  <2>1. i \in 1..Len(a) /\ b[i] = a[i] /\ a[i] \in Nat
    <3>1. Len(b) = Len(a) + 1 /\ Len(a) \in Nat /\ MaxRequests \in Nat \ {0} /\ a \in Seq(Nat)
      BY <1>1, <1>2, <1>4
    <3>2. i \in 1..Len(a)
      BY <3>1
    <3>3. a[i] \in Nat
      BY <3>1, <3>2
    <3> QED
      BY <1>4, <3>2, <3>3
  <2>2. CASE i + MaxRequests = Len(a) + 1
    <3>1. i \in 1..(Len(a) - Len(r))
      BY <1>1, <1>2, <2>2
    <3>2. a[i] <= t - Window
      BY <3>1 DEF Old
    <3>3. b[i + MaxRequests] = t
      BY <1>4, <2>2
    <3> QED
      BY <1>2, <2>1, <3>2, <3>3
  <2>3. CASE i + MaxRequests # Len(a) + 1
    <3>1. i \in 1..(Len(a) - MaxRequests) /\ i + MaxRequests \in 1..Len(a)
      <4>1. Len(b) = Len(a) + 1 /\ Len(a) \in Nat /\ MaxRequests \in Nat \ {0}
        BY <1>1, <1>2, <1>4
      <4> QED
        BY <2>3, <4>1
    <3>2. b[i + MaxRequests] = a[i + MaxRequests]
      BY <1>4, <3>1
    <3> QED
      BY <2>1, <3>1, <3>2 DEF Spaced
  <2> QED
    BY <2>2, <2>3
<1>8. Old(b, Len(q), t)
  <2> SUFFICES ASSUME NEW i \in 1..(Len(b) - Len(q)) PROVE b[i] <= t - Window
    BY DEF Old
  <2>1. i \in 1..(Len(a) - Len(r)) /\ i \in 1..Len(a)
    <3>1. /\ Len(b) = Len(a) + 1 /\ Len(q) = Len(r) + 1
          /\ Len(a) \in Nat /\ Len(r) \in Nat /\ Len(r) <= Len(a)
      BY <1>1, <1>3, <1>4
    <3> QED
      BY <3>1
  <2> QED
    BY <1>4, <2>1 DEF Old
<1> QED
  BY <1>5, <1>6, <1>7, <1>8 DEF Limiter, Promise, q, b

(* Rounding moves a number by half a millisecond at most.                    *)
LEMMA RoundedIsNear ==
    ASSUME NEW x \in Nat
    PROVE  Rounded(x) \in Int /\ 2 * (x - Rounded(x)) <= Milli
<1> DEFINE down == Milli * (x \div Milli)
           rest == x - down
<1>1. Milli \in Nat /\ Milli > 0
  BY GatewayAssumption
<1>2. down \in Int /\ rest \in Int
  BY <1>1
<1>3. (Rounded(x) = down /\ 2 * rest <= Milli) \/ Rounded(x) = down + Milli
  BY <1>1, <1>2 DEF Rounded
<1>4. rest < Milli
  BY <1>1
<1> HIDE DEF down
<1> QED
  BY <1>1, <1>2, <1>3, <1>4

(* A refusal is about as many admissions as may be, none of which was        *)
(* dropped, and it names the time when the oldest of them will be, rounded.  *)
LEMMA Refusal ==
    ASSUME NEW r, NEW a, NEW t \in Nat, Counts(r, a), InOrder(a, t), Spaced(a),
           Old(a, Len(r), t), ~(Len(r) < MaxRequests), r[1] > t - Window
    PROVE  Limiter(r, a, t + Rounded(Window - (t - Head(r))), t)
<1> DEFINE left == Window - (t - Head(r))
<1>1. r \in Seq(Nat) /\ Len(r) \in Nat /\ Len(r) = MaxRequests /\ Len(r) > 0
  BY GatewayAssumption DEF Counts
<1>2. r[1] \in Nat /\ Head(r) = r[1]
  BY <1>1
<1>3. left \in Nat /\ r[1] + Window = t + left
  BY <1>2, GatewayAssumption
<1>4. Rounded(left) \in Int /\ 2 * (left - Rounded(left)) <= Milli
  BY <1>3, RoundedIsNear
<1> HIDE DEF left
<1>5. Promise(r, t + Rounded(left))
  <2>1. r[1] + Window - (t + Rounded(left)) = left - Rounded(left)
    <3> DEFINE named == Rounded(left)
    <3>1. named \in Int /\ r[1] \in Nat /\ Window \in Nat
      BY <1>2, <1>4, GatewayAssumption
    <3> HIDE DEF named
    <3>2. r[1] + Window - (t + named) = left - named
      BY <1>3, <3>1
    <3> QED
      BY <3>2 DEF named
  <2> QED
    BY <1>1, <1>4, <2>1 DEF Promise
<1> QED
  BY <1>5 DEF Limiter, left

LimiterTypes ==
    /\ now \in Nat /\ DOMAIN hits = Clients /\ DOMAIN admitted = Clients
    /\ DOMAIN promised = Clients

LimiterOf(c) == Limiter(hits[c], admitted[c], promised[c], now)

LInv ==
    /\ LimiterTypes
    /\ \A c \in Clients : LimiterOf(c)

LEMMA EmptyLimiter == ASSUME NEW t \in Nat PROVE Limiter(<<>>, <<>>, Never, t)
<1>1. Counts(<<>>, <<>>)
  BY GatewayAssumption DEF Counts
<1>2. InOrder(<<>>, t) /\ Spaced(<<>>) /\ Old(<<>>, Len(<<>>), t) /\ Promise(<<>>, Never)
  BY GatewayAssumption DEF InOrder, Spaced, Old, Promise
<1> QED
  BY <1>1, <1>2 DEF Limiter

LEMMA LInvInit == Init => LInv
<1> SUFFICES ASSUME Init PROVE LInv
  OBVIOUS
<1>1. LimiterTypes
  BY DEF Init, LimiterTypes, NoHits, NoPromise
<1>2. ASSUME NEW c \in Clients PROVE LimiterOf(c)
  <2>1. hits[c] = <<>> /\ admitted[c] = <<>> /\ promised[c] = Never /\ now \in Nat
    BY DEF Init, NoHits, NoPromise
  <2> QED
    BY <2>1, EmptyLimiter DEF LimiterOf
<1> QED
  BY <1>1, <1>2 DEF LInv

(* What allow() does for one client.                                         *)
LEMMA LimitKeeps ==
    ASSUME NEW c \in Clients, LInv, Limit(c), now' = now
    PROVE  LInv'
<1> DEFINE h == hits[c]
           a == admitted[c]
           r == Without(hits[c], 0..(now - Window))
<1>1. /\ now \in Nat /\ Counts(h, a) /\ InOrder(a, now) /\ Spaced(a)
      /\ Old(a, Len(h), now)
  BY DEF LInv, LimiterTypes, LimiterOf, Limiter
<1>2. Pruned(c) = r
  BY DEF Pruned
<1>3. Counts(r, a) /\ Old(a, Len(r), now) /\ Kept(h, r, now)
  <2> HIDE DEF h, a
  <2>1. LET q == Without(h, 0..(now - Window)) IN
        Counts(q, a) /\ Old(a, Len(q), now) /\ Kept(h, q, now)
    BY <1>1, Pruning
  <2> QED
    BY <2>1 DEF h
<1> HIDE DEF r
<1>4. LimiterTypes'
  BY DEF LInv, LimiterTypes, Limit
<1>5. LimiterOf(c)'
  <2>1. CASE Allowed(c)
    <3>1. hits'[c] = Append(r, now) /\ admitted'[c] = Append(a, now) /\ promised'[c] = Never
      BY <1>2, <2>1 DEF Limit, LInv, LimiterTypes
    <3>2. Len(r) < MaxRequests
      BY <1>2, <2>1 DEF Allowed
    <3> HIDE DEF a
    <3>3. Limiter(Append(r, now), Append(a, now), Never, now)
      BY <1>1, <1>3, <3>2, Admission
    <3> QED
      BY <3>1, <3>3 DEF LimiterOf
  <2>2. CASE ~Allowed(c)
    <3>1. /\ hits'[c] = r /\ admitted'[c] = a
          /\ promised'[c] = now + Rounded(Window - (now - Head(r)))
      BY <1>2, <2>2 DEF Limit, RetryAt, LInv, LimiterTypes
    <3>2. ~(Len(r) < MaxRequests)
      BY <1>2, <2>2 DEF Allowed
    <3> HIDE DEF a
    <3>3. r[1] > now - Window
      BY <1>3, <3>2, GatewayAssumption DEF Counts, Kept
    <3>4. Limiter(r, a, now + Rounded(Window - (now - Head(r))), now)
      BY <1>1, <1>3, <3>2, <3>3, Refusal
    <3> QED
      BY <3>1, <3>4 DEF LimiterOf
  <2> QED
    BY <2>1, <2>2
<1>6. ASSUME NEW d \in Clients \ {c} PROVE LimiterOf(d)'
  <2>1. hits'[d] = hits[d] /\ admitted'[d] = admitted[d] /\ promised'[d] = promised[d]
    BY DEF Limit, LInv, LimiterTypes
  <2> QED
    BY <2>1 DEF LInv, LimiterOf
<1> QED
  BY <1>4, <1>5, <1>6 DEF LInv

LEMMA TickKeeps ==
    ASSUME LInv, Tick
    PROVE  LInv'
<1>1. now \in Nat /\ now' = now + 1 /\ UNCHANGED limiter
  BY DEF LInv, LimiterTypes, Tick
<1>2. LimiterTypes'
  BY <1>1 DEF LInv, LimiterTypes, limiter
<1>3. ASSUME NEW c \in Clients PROVE LimiterOf(c)'
  <2> DEFINE h == hits[c]
             a == admitted[c]
             p == promised[c]
  <2>1. hits'[c] = h /\ admitted'[c] = a /\ promised'[c] = p
    BY <1>1 DEF limiter
  <2>2. Limiter(h, a, p, now)
    BY DEF LInv, LimiterOf
  <2> HIDE DEF h, a, p
  <2>3. \A i \in 1..Len(a) : a[i] \in Nat
    BY <2>2 DEF Limiter, Counts
  <2>4. InOrder(a, now + 1)
    BY <1>1, <2>2, <2>3 DEF Limiter, InOrder
  <2>5. Old(a, Len(h), now + 1)
    <3> SUFFICES ASSUME NEW i \in 1..(Len(a) - Len(h)) PROVE a[i] <= (now + 1) - Window
      BY Zenon DEF Old
    <3>1. a[i] \in Nat /\ a[i] <= now - Window
      BY <2>2, <2>3 DEF Limiter, Counts, Old
    <3>2. Window \in Nat
      BY GatewayAssumption
    <3> QED
      BY <1>1, <3>1, <3>2
  <2>6. Limiter(h, a, p, now + 1)
    BY <2>2, <2>4, <2>5 DEF Limiter
  <2> QED
    BY <1>1, <2>1, <2>6 DEF LimiterOf
<1> QED
  BY <1>2, <1>3 DEF LInv

LEMMA RestartKeeps ==
    ASSUME LInv, Restart
    PROVE  LInv'
<1>1. LimiterTypes'
  BY DEF LInv, LimiterTypes, Restart, NoHits, NoPromise
<1>2. ASSUME NEW c \in Clients PROVE LimiterOf(c)'
  <2>1. hits'[c] = <<>> /\ admitted'[c] = <<>> /\ promised'[c] = Never /\ now' \in Nat
    BY DEF Restart, NoHits, NoPromise, LInv, LimiterTypes
  <2> QED
    BY <2>1, EmptyLimiter DEF LimiterOf
<1> QED
  BY <1>1, <1>2 DEF LInv

LEMMA LInvNext == LInv /\ [Next]_vars => LInv'
<1> SUFFICES ASSUME LInv, [Next]_vars PROVE LInv'
  OBVIOUS
<1>1. CASE UNCHANGED <<now, limiter>>
  BY <1>1 DEF LInv, LimiterTypes, LimiterOf, limiter
<1>2. ASSUME NEW c \in Clients, Guard(c) PROVE LInv'
  BY <1>2, LimitKeeps DEF Guard
<1>3. ASSUME NEW c \in Clients,
             \/ Reply(c) \/ SelfCheck(c) \/ SelfChecked(c) \/ Submit(c)
             \/ Recorded(c) \/ RecordFails(c) \/ Inferred(c)
      PROVE  LInv'
  BY <1>1, <1>3
     DEF Reply, SelfCheck, SelfChecked, Submit, Recorded, RecordFails, Inferred, Elsewhere
<1>4. ASSUME NEW c \in Clients, NEW online, NEW request, Chat(c, online, request)
      PROVE  LInv'
  BY <1>1, <1>4 DEF Chat, Elsewhere
<1>5. CASE Restart
  BY <1>5, RestartKeeps
<1>6. CASE Tick
  BY <1>6, TickKeeps
<1>7. CASE \E t \in DOMAIN tasks : RunGoesOn(t)
  BY <1>1, <1>7 DEF RunGoesOn, RunReturns, RunRaises, Asks, Becomes
<1>8. CASE UNCHANGED vars
  BY <1>1, <1>8 DEF vars
<1> QED
  BY <1>2, <1>3, <1>4, <1>5, <1>6, <1>7, <1>8 DEF Next

LEMMA LInvKeepsWord == LInv => LimiterKeepsItsWord
<1> SUFFICES ASSUME LInv, NEW c \in Clients
             PROVE  /\ Spaced(admitted[c])
                    /\ ~Allowed(c) =>
                         Cardinality({i \in DOMAIN admitted[c] : admitted[c][i] > now - Window})
                             = MaxRequests
                    /\ promised[c] # Never /\ 2 * (now - promised[c]) >= Milli => Allowed(c)
  BY DEF LimiterKeepsItsWord, Spaced
<1> DEFINE h == hits[c]
           a == admitted[c]
           p == promised[c]
           r == Without(hits[c], 0..(now - Window))
<1>1. now \in Nat /\ Limiter(h, a, p, now)
  BY DEF LInv, LimiterTypes, LimiterOf
<1>2. Allowed(c) <=> Len(r) < MaxRequests
  BY DEF Allowed, Pruned
<1>3. Counts(r, a) /\ Old(a, Len(r), now) /\ Kept(h, r, now)
  <2> HIDE DEF h, a
  <2>1. LET q == Without(h, 0..(now - Window)) IN
        Counts(q, a) /\ Old(a, Len(q), now) /\ Kept(h, q, now)
    BY <1>1, Pruning DEF Limiter
  <2> QED
    BY <2>1 DEF h
<1> HIDE DEF r, h, a, p
<1>4. /\ Len(r) \in Nat /\ Len(a) \in Nat /\ Len(h) \in Nat /\ Len(r) <= Len(h)
      /\ Len(r) <= Len(a) /\ Len(h) <= MaxRequests /\ Len(r) <= MaxRequests
      /\ a \in Seq(Nat) /\ h \in Seq(Nat)
      /\ MaxRequests \in Nat \ {0} /\ Window \in Nat \ {0}
  <2>1. /\ r \in Seq(Nat) /\ a \in Seq(Nat) /\ h \in Seq(Nat)
        /\ Len(r) <= Len(a) /\ Len(h) <= MaxRequests /\ Len(r) <= MaxRequests
    BY <1>1, <1>3 DEF Limiter, Counts
  <2>2. Len(r) \in Nat /\ Len(a) \in Nat /\ Len(h) \in Nat
    BY <2>1
  <2>3. Len(r) <= Len(h)
    BY <1>3 DEF Kept
  <2> QED
    BY <2>1, <2>2, <2>3, GatewayAssumption
<1>5. Spaced(a)
  BY <1>1 DEF Limiter
<1>6. ASSUME ~(Len(r) < MaxRequests)
      PROVE  Cardinality({i \in DOMAIN a : a[i] > now - Window}) = MaxRequests
  <2> DEFINE first == Len(a) - MaxRequests + 1
  <2>1. Len(r) = MaxRequests /\ first \in Int /\ DOMAIN a = 1..Len(a)
    BY <1>4, <1>6
  <2>2. ASSUME NEW i \in 1..Len(a) PROVE a[i] > now - Window <=> i >= first
    <3>1. CASE i >= first
      <4> DEFINE k == i - first + 1
      <4>1. k \in 1..Len(r) /\ Len(a) - Len(r) + k = i
        BY <1>4, <2>1, <3>1
      <4> HIDE DEF k
      <4>2. r[k] = a[i] /\ r[k] > now - Window
        BY <1>3, <4>1 DEF Counts, Kept
      <4> QED
        BY <3>1, <4>2
    <3>2. CASE ~(i >= first)
      <4>1. i \in 1..(Len(a) - Len(r))
        BY <1>4, <2>1, <3>2
      <4>2. a[i] <= now - Window /\ a[i] \in Nat
        BY <1>3, <1>4, <4>1 DEF Old
      <4> QED
        BY <1>1, <1>4, <3>2, <4>2
    <3> QED
      BY <3>1, <3>2
  <2>3. {i \in DOMAIN a : a[i] > now - Window} = first..Len(a)
    <3>1. Len(a) \in Nat /\ Len(r) <= Len(a) /\ Len(r) \in Nat
      BY <1>4
    <3>2. first >= 1
      BY <2>1, <3>1
    <3> HIDE DEF first
    <3>3. \A i \in first..Len(a) : i \in 1..Len(a)
      BY <2>1, <3>1, <3>2
    <3> QED
      BY <2>1, <2>2, <3>1, <3>3
  <2>4. Cardinality(first..Len(a)) = Len(a) - first + 1
    BY <1>4, <2>1, FS_Interval
  <2>5. Len(a) - first + 1 = MaxRequests
    BY <1>4
  <2> HIDE DEF first
  <2> QED
    BY <2>3, <2>4, <2>5
<1>7. ASSUME p # Never, 2 * (now - p) >= Milli PROVE Len(r) < MaxRequests
  <2>1. Len(h) > 0 /\ p \in Int /\ 2 * (h[1] + Window - p) <= Milli
    BY <1>1, <1>7 DEF Limiter, Promise
  <2>2. h[1] \in Nat /\ h[1] <= now - Window
    <3>1. Milli \in Nat /\ now \in Nat
      BY <1>1, GatewayAssumption
    <3>2. h[1] \in Nat
      BY <1>4, <2>1
    <3> QED
      BY <1>4, <1>7, <2>1, <3>1, <3>2
  <2> QED
    BY <1>3, <1>4, <2>1, <2>2 DEF Kept
<1> QED
  BY <1>2, <1>5, <1>6, <1>7 DEF a, p

(* The limiter never admits more than it may within a window, refuses only   *)
(* who has had that much, and lets pass who comes again half a millisecond   *)
(* after it said: LimiterKeepsItsWord, of every number of requests and every *)
(* window.                                                                   *)
THEOREM LimiterIsTrue == Spec => []LimiterKeepsItsWord
<1>1. Spec => []LInv
  BY LInvInit, LInvNext, PTL DEF Spec
<1> QED
  BY <1>1, LInvKeepsWord, PTL
=============================================================================
