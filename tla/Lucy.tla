-------------------------------- MODULE Lucy --------------------------------
(***************************************************************************)
(* The terminal session (lucy_cli.py) over one DevotionalCore: chat, runs, *)
(* nights and morning reviews, one command at a time, and the appends to   *)
(* the evidence ledger that guidance leaves behind as tasks of their own.  *)
(* input() blocks the event loop, so those tasks go on only while a        *)
(* command, or close(), awaits something.                                  *)
(*                                                                         *)
(*   doing     what the session does; "input" is the blocking prompt       *)
(*   mood, trust, told, approved    SourceAwareness; trust in hundredths   *)
(*   turns     turn count of the conversation                              *)
(*   buffer    the episodic buffer; hand: what tonight's sleep has flushed *)
(*   insights  _dream_insights of the core, in the order they are numbered *)
(*   package, awaiting   the review's own copy, and whether it is open     *)
(*   adapters  what the adapters on disk were trained on; {} also stands   *)
(*             for a file whose writing was cut off                        *)
(*   asked     guidance whose append has not run yet                       *)
(*   filed     appends whose file is written, their row on its way         *)
(*   files, rows         per run_id: the newest record that has a file,    *)
(*             and a committed row (0: none)                               *)
(*   runs, written, sessions        how many runs, records and processes   *)
(*             there have been; lived: the experiences                     *)
(*   slept, lost, overnight, cut    history: what was trained on, what a   *)
(*             failed night or the end of a process has dropped, whether a *)
(*             night replaced the insights of an open review, the records  *)
(*             whose row was cut off                                       *)
(***************************************************************************)
EXTENDS Integers, Sequences, SequencesExt, Selection

CONSTANTS
    Capacity,      \* of the episodic buffer (100)
    Aligned,       \* the experiences whose devotional alignment is above 0.7
    Tones,         \* what guidance may sound like
    Simulations,   \* how many dreams a night has at most (5)
    Blame,         \* how often a run lowers the trust
    MaxTold, MaxRuns, MaxApproved, MaxSessions      \* bounds of the model

ASSUME LucyAssumption ==
    /\ Blame \in [1..MaxRuns -> Nat] /\ Aligned \subseteq 1..MaxRuns
    /\ Tones \subseteq {"plain", "protective", "possessive"}
    /\ {Capacity, Simulations, MaxTold, MaxRuns, MaxApproved, MaxSessions}
           \subseteq Nat \ {0}

VARIABLES doing, mood, trust, told, approved, turns, runs, buffer, hand, insights,
          package, awaiting, adapters, asked, filed, files, rows, lived,
          written, sessions, slept, lost, overnight, cut

bond == <<mood, trust, told, approved>>
review == <<insights, package, awaiting, overnight>>
memory == <<runs, buffer, hand, lived, adapters, slept, lost>>
ledger == <<filed, files, rows, cut>>
vars == <<doing, bond, turns, memory, review, asked, ledger, written, sessions>>

Doings == {"input", "chat", "run", "nrem", "rem", "consolidate", "closing", "gone"}
Moods == {"humble", "grateful", "protective", "creative", "deep_trust"}

(* run_id of a record: the turn of a chat, 0 for the guidance that comes    *)
(* with an approval, as nobody gives the core a run_id.                     *)
Keys == 0..MaxTold

(* An experience has the number of the run it is from.                      *)
Experiences == 1..MaxRuns

Higher(t, amount) == IF t + amount > 100 THEN 100 ELSE t + amount
Lower(t, amount) == IF t < amount THEN 0 ELSE t - amount

-----------------------------------------------------------------------------
Fresh ==
    /\ mood = "humble" /\ trust = 50 /\ told = 0 /\ approved = 0 /\ turns = 0
    /\ buffer = <<>> /\ hand = <<>>
    /\ insights = <<>> /\ package = <<>> /\ awaiting = FALSE /\ overnight = FALSE
    /\ asked = <<>> /\ filed = <<>>

Init ==
    /\ doing = "input" /\ Fresh
    /\ adapters = {} /\ slept = {} /\ lost = {} /\ cut = {}
    /\ files = [k \in Keys |-> 0] /\ rows = files
    /\ runs = 0 /\ lived = {} /\ written = 0 /\ sessions = 1

(* An await comes back only after the tasks that were ready have begun.     *)
Yielded == asked = <<>>

-----------------------------------------------------------------------------
(* Guidance: the core is moved at once, the record is left to a task.       *)
(* "protective" has a word of protection, "possessive" one with exclusive    *)
(* language.                                                                *)

Felt(tone, before) ==
    CASE tone = "possessive" -> "humble"
      [] tone = "protective" -> "protective"
      [] OTHER -> IF before \in {"humble", "deep_trust"} THEN "grateful" ELSE before

Guided(t, before, tone, key) ==
    /\ written < MaxTold
    /\ trust' = Higher(t, 2)
    /\ mood' = Felt(tone, before)
    /\ told' = told + 1
    /\ written' = written + 1
    /\ asked' = Append(asked, [key |-> key, n |-> written + 1])

Chat(tone) ==
    /\ doing = "input" /\ doing' = "chat"
    /\ turns' = turns + 1
    /\ Guided(trust, mood, tone, turns + 1)
    /\ UNCHANGED <<approved, memory, review, ledger, sessions>>

(* The provider answers, fails, or there is none: answer or template.  The  *)
(* chat of the providers there are never suspends, so the time limit around *)
(* it cannot cut it off, and it has no step of its own.                     *)
ProviderAnswers ==
    /\ doing = "chat" /\ doing' = "input"
    /\ UNCHANGED <<bond, turns, memory, review, asked, ledger, written, sessions>>

-----------------------------------------------------------------------------
(* The morning review.                                                      *)

(* A bug: an open review is not refreshed.                                  *)
GoodMorningOnce ==
    /\ doing = "input"
    /\ package' = (IF awaiting THEN package ELSE insights)
    /\ awaiting' = TRUE /\ overnight' = FALSE
    /\ UNCHANGED <<doing, bond, turns, memory, insights, asked, ledger, written,
                   sessions>>

GoodMorning ==
    /\ doing = "input"
    /\ package' = insights /\ awaiting' = TRUE /\ overnight' = FALSE
    /\ UNCHANGED <<doing, bond, turns, memory, insights, asked, ledger, written,
                   sessions>>

Done ==
    /\ doing = "input" /\ awaiting /\ awaiting' = FALSE
    /\ UNCHANGED <<doing, bond, turns, memory, insights, package, overnight, asked,
                   ledger, written, sessions>>

(* An approval names an insight by its number in the core's list of today.  *)
Numbered(i) == i \in DOMAIN insights

Approve(i) ==
    /\ doing = "input" /\ awaiting /\ Numbered(i)
    /\ approved < MaxApproved /\ approved' = approved + 1
    /\ trust' = Higher(trust, 5) /\ mood' = "deep_trust"
    /\ UNCHANGED <<doing, told, turns, memory, review, asked, ledger, written, sessions>>

(* A bug: both the review and the core count the approval's trust.          *)
ModifyTwice(i, tone) ==
    /\ doing = "input" /\ awaiting /\ Numbered(i)
    /\ approved < MaxApproved /\ approved' = approved + 1
    /\ Guided(Higher(trust, 10), "deep_trust", tone, 0)
    /\ UNCHANGED <<doing, turns, memory, review, ledger, sessions>>

Modify(i, tone) ==
    /\ doing = "input" /\ awaiting /\ Numbered(i)
    /\ approved < MaxApproved /\ approved' = approved + 1
    /\ Guided(Higher(trust, 5), "deep_trust", tone, 0)
    /\ UNCHANGED <<doing, turns, memory, review, ledger, sessions>>

-----------------------------------------------------------------------------
(* A run, as LoyalRuntime has it: it may lower the trust, and leaves one    *)
(* experience unless it raises.                                             *)

StartRun ==
    /\ doing = "input" /\ doing' = "run"
    /\ runs < MaxRuns /\ runs' = runs + 1
    /\ UNCHANGED <<bond, turns, buffer, hand, lived, adapters, slept, lost, review,
                   asked, ledger, written, sessions>>

RememberedAll(e) == Append(buffer, e)            \* a bug: nothing is pushed out

(* EpisodicBuffer.add                                                       *)
Remembered(e) ==
    LET longer == Append(buffer, e)
    IN  IF Len(longer) > Capacity THEN Tail(longer) ELSE longer

EndRun ==
    /\ doing = "run" /\ Yielded /\ doing' = "input"
    /\ trust' = Lower(trust, 10 * Blame[runs])
    /\ buffer' = Remembered(runs)
    /\ lived' = lived \cup {runs}
    /\ UNCHANGED <<mood, told, approved, turns, runs, hand, adapters, slept, lost, review,
                   asked, ledger, written, sessions>>

RunRaises ==
    /\ doing = "run" /\ Yielded /\ doing' = "input"
    /\ trust' = Lower(trust, 10 * Blame[runs])
    /\ UNCHANGED <<mood, told, approved, turns, memory, review, asked, ledger, written,
                   sessions>>

-----------------------------------------------------------------------------
(* A bug: the buffer is read, and not emptied.                              *)
GoodnightKeeping ==
    /\ doing = "input" /\ buffer # <<>>
    /\ doing' = "nrem" /\ hand' = buffer
    /\ UNCHANGED <<bond, turns, runs, buffer, lived, adapters, slept, lost, review,
                   asked, ledger, written, sessions>>

(* A night: flush, replay, save, dream, consolidate.  The hippocampal store *)
(* is filled by nobody, so an empty buffer means there is nothing to do.    *)

Goodnight ==
    /\ doing = "input" /\ buffer # <<>>
    /\ doing' = "nrem"
    /\ hand' = buffer /\ buffer' = <<>>
    /\ UNCHANGED <<bond, turns, runs, lived, adapters, slept, lost, review, asked, ledger,
                   written, sessions>>

(* The replay trains adapters made for this runtime and saves them over the *)
(* file of the night before.                                                *)
SaveAdapters ==
    /\ doing = "nrem" /\ Yielded /\ doing' = "rem"
    /\ adapters' = ToSet(hand) /\ slept' = slept \cup ToSet(hand)
    /\ UNCHANGED <<bond, turns, runs, buffer, hand, lived, lost, review, asked, ledger,
                   written, sessions>>

(* A bug: the night goes on without its training.                           *)
SaveFailsDreaming ==
    /\ doing = "nrem" /\ Yielded /\ doing' = "rem"
    /\ lost' = lost \cup ToSet(hand)
    /\ UNCHANGED <<bond, turns, runs, buffer, hand, lived, adapters, slept, review, asked, ledger, written, sessions>>

(* The file cannot be opened, or not written to its end.                    *)
SaveFails ==
    /\ doing = "nrem" /\ Yielded /\ doing' = "input"
    /\ adapters' \in {adapters, {}}
    /\ hand' = <<>> /\ lost' = lost \cup ToSet(hand)
    /\ UNCHANGED <<bond, turns, runs, buffer, lived, slept, review, asked, ledger, written,
                   sessions>>

Dreams(memories) ==
    LET aligned == Without(memories, Experiences \ Aligned)
    IN  SubSeq(aligned, 1, IF Len(aligned) < Simulations THEN Len(aligned) ELSE Simulations)

Dream ==
    /\ doing = "rem" /\ doing' = "consolidate"
    /\ insights' = Dreams(hand) /\ overnight' = TRUE
    /\ mood' = IF Dreams(hand) # <<>> THEN "creative" ELSE mood
    /\ hand' = <<>>
    /\ UNCHANGED <<trust, told, approved, turns, runs, buffer, lived, adapters, slept, lost,
                   package, awaiting, asked, ledger, written, sessions>>

(* A bug: an error in the last phase has the night dream again.             *)
ConsolidateAgain ==
    /\ doing = "consolidate" /\ doing' \in {"input", "rem"}
    /\ UNCHANGED <<bond, turns, memory, review, asked, ledger, written, sessions>>

(* The models of self and human are worded from the ledger; an error there  *)
(* is caught.                                                               *)
Consolidate ==
    /\ doing = "consolidate" /\ doing' = "input"
    /\ UNCHANGED <<bond, turns, memory, review, asked, ledger, written, sessions>>

-----------------------------------------------------------------------------
(* The appends left behind: the event loop begins them in order, and the    *)
(* thread of the database takes their statements in order.  A row that is   *)
(* inserted and not committed is rolled back when the process ends, so one  *)
(* step stands for both.                                                    *)

Awaits == doing \in {"chat", "run", "nrem", "rem", "consolidate", "closing"}

(* A bug: an error of the file is swallowed, and the row inserted.          *)
WriteFileSwallowing ==
    /\ Awaits /\ asked # <<>>
    /\ asked' = Tail(asked)
    /\ files' \in {files, [files EXCEPT ![Head(asked).key] = Head(asked).n]}
    /\ filed' = Append(filed, Head(asked))
    /\ UNCHANGED <<doing, bond, turns, memory, review, rows, cut, written, sessions>>

(* The file is replaced as a whole and the INSERT is queued in one step; an *)
(* error on the way ends the task, and nobody asks for its result.          *)
WriteFile ==
    /\ Awaits /\ asked # <<>>
    /\ asked' = Tail(asked)
    /\ \/ /\ files' = [files EXCEPT ![Head(asked).key] = Head(asked).n]
          /\ filed' = Append(filed, Head(asked))
       \/ UNCHANGED <<files, filed>>
    /\ UNCHANGED <<doing, bond, turns, memory, review, rows, cut, written, sessions>>

CommitRow ==
    /\ Awaits /\ filed # <<>>
    /\ filed' = Tail(filed)
    /\ rows' = [rows EXCEPT ![Head(filed).key] = Head(filed).n]
    /\ UNCHANGED <<doing, bond, turns, memory, review, asked, files, cut, written, sessions>>

-----------------------------------------------------------------------------
(* The end of a process, and the next one.                                  *)

Exit ==
    /\ doing = "input" /\ doing' = "closing"
    /\ UNCHANGED <<bond, turns, memory, review, asked, ledger, written, sessions>>

(* What the ledger had not committed is rolled back, what had not reached   *)
(* it is cancelled, and the experiences no night was slept on are gone.  The *)
(* next process begins with a new core.                                     *)
Vanish ==
    /\ doing' = "gone"
    /\ asked' = <<>> /\ filed' = <<>>
    /\ cut' = cut \cup {filed[i].n : i \in DOMAIN filed}
    /\ lost' = lost \cup ToSet(buffer) \cup (ToSet(hand) \ slept)
    /\ buffer' = <<>> /\ hand' = <<>>
    /\ mood' = "humble" /\ trust' = 50 /\ told' = 0 /\ approved' = 0 /\ turns' = 0
    /\ insights' = <<>> /\ package' = <<>> /\ awaiting' = FALSE /\ overnight' = FALSE
    /\ UNCHANGED <<runs, lived, slept, files, rows, written, sessions>>

CloseLedger ==
    /\ doing = "closing" /\ Yielded
    /\ Vanish /\ UNCHANGED adapters

Crash ==
    /\ doing # "gone"
    /\ Vanish
    /\ \/ UNCHANGED adapters
       \/ doing = "nrem" /\ adapters' = {}

Restart ==
    /\ doing = "gone" /\ sessions < MaxSessions
    /\ doing' = "input" /\ sessions' = sessions + 1
    /\ UNCHANGED <<bond, turns, memory, review, asked, ledger, written>>

-----------------------------------------------------------------------------
Human ==
    \/ \E tone \in Tones : Chat(tone)
    \/ GoodMorning \/ Done \/ StartRun \/ Goodnight \/ Exit
    \/ \E i \in 1..Simulations : Approve(i)
    \/ \E i \in 1..Simulations, tone \in Tones : Modify(i, tone)

RunEnds == EndRun \/ RunRaises

Sleeps == SaveAdapters \/ SaveFails \/ Dream \/ Consolidate

Appends == WriteFile \/ CommitRow

Next ==
    \/ Human \/ ProviderAnswers \/ RunEnds \/ Sleeps \/ Appends
    \/ CloseLedger \/ Crash \/ Restart

Spec == Init /\ [][Next]_vars

(* The event loop runs what is ready.  Two ends are assumed: that of a      *)
(* chat, which the local model computes in one piece, a bounded number of   *)
(* tokens, with nothing to interrupt it; and that of a run, its lookups and *)
(* its reflection included, which are awaited without a time limit.         *)
(* Nothing is assumed of the human or of a process that is gone.            *)
FairSpec ==
    /\ Spec
    /\ WF_vars(Appends) /\ WF_vars(ProviderAnswers) /\ WF_vars(RunEnds)
    /\ WF_vars(Sleeps) /\ WF_vars(CloseLedger)

-----------------------------------------------------------------------------
TypeOK ==
    /\ doing \in Doings /\ mood \in Moods /\ trust \in 0..100
    /\ told \in 0..MaxTold /\ turns \in 0..told /\ approved \in 0..MaxApproved
    /\ buffer \in Seq(Experiences) /\ Len(buffer) <= Capacity
    /\ hand \in Seq(Experiences) /\ Len(hand) <= Capacity
    /\ insights \in Seq(Experiences) /\ package \in Seq(Experiences)
    /\ {awaiting, overnight} \subseteq BOOLEAN
    /\ (adapters \cup slept \cup lost) \subseteq lived /\ lived \subseteq 1..runs
    /\ runs \in 0..MaxRuns
    /\ {asked, filed} \subseteq Seq([key : Keys, n : 1..MaxTold])
    /\ {files, rows} \subseteq [Keys -> 0..MaxTold]
    /\ cut \subseteq 0..MaxTold /\ written \in 0..MaxTold /\ sessions \in 1..MaxSessions

(* Confidence is earned by guidance (core.py: "Humility is the default      *)
(* resting state"): the trust of a session is at most what guidance and     *)
(* approvals add up to, however runs, nights and reviews are mixed, and she *)
(* is not in deep trust, or ready to offer, before an approval or a night.  *)
ConfidenceIsEarned ==
    /\ trust <= 50 + 2 * told + 5 * approved
    /\ mood = "deep_trust" => approved > 0
    /\ mood = "creative" => slept # {}

(* The dreams offered to the human are the aligned ones, at most            *)
(* Simulations of them, of the very night whose training is on disk; a      *)
(* night that fails leaves both as they were, or tears the file.            *)
DreamsMatchTraining ==
    /\ Len(insights) <= Simulations
    /\ ToSet(insights) \subseteq Aligned
    /\ doing \in {"input", "chat", "run", "nrem"} =>
           ToSet(insights) \subseteq adapters \/ adapters = {}

(* An experience is slept on once or not at all: it waits in the buffer or  *)
(* is in hand, was trained on, was pushed out by Capacity newer ones, or    *)
(* fell to a failed night or the end of the process.                        *)
LivedOnce ==
    LET waiting == ToSet(buffer) \cup (IF doing = "nrem" THEN ToSet(hand) ELSE {})
    IN  /\ waiting \cap (slept \cup lost) = {} /\ slept \cap lost = {}
        /\ ToSet(buffer) \cap ToSet(hand) = {}
        /\ \A e \in lived \ (waiting \cup slept \cup lost) :
               Cardinality({f \in lived : f > e}) >= Capacity

(* While a review is open, the numbers the human was shown are those an     *)
(* approval goes by, unless a night was slept since.                        *)
ReviewShowsWhatItJudges == awaiting /\ ~overnight => package = insights

(* A committed row has a file that is at least as new; a file without its   *)
(* row has an append under way, or one that the end of a process cut off.   *)
LedgerAgrees ==
    \A k \in Keys :
        /\ rows[k] <= files[k]
        /\ files[k] # rows[k] =>
               files[k] \in {filed[i].n : i \in DOMAIN filed} \cup cut

(* Every command comes back to the prompt, whatever phase of a night fails  *)
(* and however many appends the commands before it have left behind, if the *)
(* model and the run it called come to their end.                           *)
BackToPrompt == doing \in Doings \ {"input", "gone"} ~> doing \in {"input", "gone"}
=============================================================================
