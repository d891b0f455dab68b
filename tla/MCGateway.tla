----------------------------- MODULE MCGateway ------------------------------
(* Instance of Gateway for TLC: a phone whose operator lets models of up to  *)
(* 6.9B run on it, and declared the size of one family.                      *)
EXTENDS Gateway, HostChoice, SequencesExt

MCConfig == [enabled |-> TRUE, arm |-> TRUE, unlocked |-> TRUE, max |-> "SMALL",
             mock |-> TRUE, declared |-> [tiny |-> 50]]

Snapshot(available, temp, ram) == [available |-> available, temp |-> temp, ram |-> ram]

Ask(size, family, provider, target, snapshot) ==
    [model |-> [size |-> size, family |-> family], provider |-> provider,
     role |-> "PHONE", target |-> target, snapshot |-> snapshot]

MCRequests ==
    {Ask(170, "qwen", "local_lucy", NoTarget, Snapshot(TRUE, temp, 1024)) :
        temp \in {Unread, 74, 75}}
    \cup {Ask(Unread, family, "local_lucy", NoTarget, Snapshot(TRUE, 64, Unread)) :
             family \in {"lucy", "tiny"}}
    \cup {Ask(170, "qwen", "mock", NoTarget, Snapshot(FALSE, Unread, Unread))}

-----------------------------------------------------------------------------
(* The choice between two registered hosts: one of them is always chosen,    *)
(* however much or little is known of it, until it is marked.                *)

MCHosts ==
    [status : {"UNKNOWN", "REGISTERED"}, errors : {{}}, provider : {""},
     gpu : Gpus, ram : {Unread, 0, Full, 2 * Full}]

MCSnapshots ==
    {NoSnapshot} \cup [available : {TRUE}, gpu : {Unread, "gpu"}, ram : {Unread, 1}]

ASSUME SomeHostIsChosen ==
    \A h \in MCHosts, known \in MCHosts, s \in MCSnapshots :
        LET hosts == Register(Ingest([n \in {} |-> h], 1, known), 2, h)
            snapshots == <<NoSnapshot, s>> IN
        /\ Selected(hosts, snapshots) # {}
        /\ Selected(MarkOffline(hosts, 2), snapshots)
               = IF known.status = "REGISTERED" THEN {1} ELSE {}

-----------------------------------------------------------------------------
(* The tokenizer of the local model, over two letters and a space: corpora  *)
(* of one word of up to six letters and of two words of up to three.        *)

BPE == INSTANCE Tokenizer WITH Base <- 3, Space <- 2

Words(n) == UNION {[1..k -> {0, 1}] : k \in 1..n}

MCCorpora == {<<w>> : w \in Words(6)} \cup {<<v, w>> : v \in Words(3), w \in Words(3)}

ASSUME TokenizerRoundTrip ==
    \A corpus \in MCCorpora : BPE!RoundTrip(corpus, 3, corpus \o <<<<0, 1, 1, 0>>>>)

ASSUME TokenizerEncodesAsTrained ==
    \A corpus \in MCCorpora : BPE!EncodesAsTrained(corpus, 3)

-----------------------------------------------------------------------------
(* The foundation audit: this phone is sound, and stays so with a peer at a *)
(* URL without a host, but not with one at a name.                          *)

Audit == INSTANCE Foundation

MCModel == [file |-> "model", trained |-> TRUE, probe |-> "reproduced"]

MCSystem(peers, checkpoint) ==
    [providers |-> {[simulated |-> FALSE, base |-> "unset", reachable |-> TRUE,
                     lists |-> "lucy", checkpoint |-> checkpoint, checks |-> TRUE]},
     peers |-> peers, enforce |-> TRUE, phone |-> TRUE, require |-> TRUE,
     local |-> TRUE, memory |-> TRUE, evidence |-> TRUE]

ASSUME AuditVerdicts ==
    /\ \A peers \in {{}, {"private"}, {"hostless"}} :
           Audit!Verdict(MCSystem(peers, MCModel)) = "FOUNDATION_SOUND"
    /\ Audit!Verdict(MCSystem({"named"}, MCModel)) = "FOUNDATION_UNSAFE"
    /\ \A checkpoint \in {[MCModel EXCEPT !.probe = "missed"], [MCModel EXCEPT !.trained = FALSE]} :
           Audit!Verdict(MCSystem({}, checkpoint)) = "GAP_IDENTIFIED"
=============================================================================
