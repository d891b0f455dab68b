------------------------------ MODULE Builtin -------------------------------
(***************************************************************************)
(* What the builtin tools (lucy_edge/tools/builtin/core.py) do to the disk,*)
(* the memory store and the evidence ledger when ToolRegistry.execute has  *)
(* asked the policy of Permissions.  What a tool reads and how it words it *)
(* is left out, and so are directories made on the way to a file and a path *)
(* that resolves differently between the policy's look and the tool's.     *)
(***************************************************************************)
EXTENDS Permissions, Integers

CONSTANTS
    Locations,     \* what a path argument may name
    Missing,       \* the location of an argument that is absent or empty
    Judged,        \* what the policy sees of a location
    MaxRead,       \* bytes a reader is given at most (64 KiB)
    MaxWrite       \* bytes a writer takes at most (256 KiB)

Builtins == Unattended \cup FileTools \cup {"shell.exec"}

(* The policy's name rules, as the names of the builtin tools meet them.    *)
NamesApart ==
    /\ Builtins \cap Shells = {"shell.exec"}
    /\ Builtins \cap Externals = {}
    /\ Builtins \cap GitTools = {"git.status", "git.diff"}

(* At a location: nothing, a directory, or a file of which `text` says      *)
(* whether its first MaxRead bytes are UTF-8; a longer text whose MaxRead-th *)
(* byte falls inside a character is none.                                   *)
Entries == [kind : {"nothing", "directory", "file"}, size : Nat, text : BOOLEAN]

Nothing == [kind |-> "nothing", size |-> 0, text |-> FALSE]

Worlds == [disk : [Locations -> Entries], proposals : Nat, routed : Nat]

(* `given`: the required argument that is no path; `fits`: no argument is    *)
(* called "context", which the registry passes; `size`: of what to write.   *)
Args == [at : Locations, given : BOOLEAN, fits : BOOLEAN, size : Nat]

Services == {"introspection", "providers", "router", "retrieval", "admission",
             "store", "evidence"}

Ends(answer, world) == [answer |-> answer, world |-> world]

-----------------------------------------------------------------------------
(* Tools that only read.                                                    *)

Answered(answers, world) == {Ends(answer, world) : answer \in answers}

(* model.list makes an exception of a provider part of its answer; the      *)
(* others let it out.                                                       *)
Health(world) == Answered({"output", "raises"}, world)

Capabilities(services, world) ==
    IF "introspection" \in services THEN Answered({"output", "raises"}, world)
    ELSE Answered({"error"}, world)

ModelList(services, world) ==
    Answered({IF "providers" \in services THEN "output" ELSE "error"}, world)

ModelHealth(services, world) ==
    IF "providers" \in services THEN Answered({"output", "error", "raises"}, world)
    ELSE Answered({"error"}, world)

(* The search, and an inspection without an id, convert their limit before  *)
(* they look for the service.                                               *)
Search(services, world) ==
    Answered({IF "retrieval" \in services THEN "output" ELSE "error", "raises"}, world)

Inspect(services, world) ==
    Answered({"error", "raises"} \cup
             IF "store" \in services THEN {"output"} ELSE {}, world)

Query(services, world) ==
    IF "evidence" \in services THEN Answered({"output", "raises"}, world)
    ELSE Answered({"error"}, world)

(* git's exceptions and its timeout are errors of the answer. *)
Git(world) == Answered({"output", "error"}, world)

(* The decision is evidence when there is a ledger; an append that raises   *)
(* may have left its record.                                                *)
Route(args, services, world) ==
    LET recorded == [world EXCEPT !.routed = @ + 1]
    IN  IF ~args.given \/ "router" \notin services THEN {Ends("error", world)}
        ELSE {Ends("raises", world)} \cup
             IF "evidence" \in services
             THEN {Ends("output", recorded), Ends("raises", recorded)}
             ELSE {Ends("output", world)}

WriteProposal(args, services, world) ==
    LET proposed == [world EXCEPT !.proposals = @ + 1]
    IN  IF ~args.given \/ "admission" \notin services THEN {Ends("error", world)}
        ELSE {Ends("output", proposed), Ends("raises", proposed), Ends("raises", world)}

-----------------------------------------------------------------------------
(* File tools. *)

At(world, args) == world.disk[args.at]

Put(world, args, entry) == [world EXCEPT !.disk[args.at] = entry]

Read(args, world) ==
    IF args.at = Missing \/ At(world, args).kind # "file" \/ ~At(world, args).text
    THEN {Ends("error", world)}
    ELSE {Ends("output", world), Ends("raises", world)}

Whole(n) == [kind : {"file"}, size : {n},
             text : IF n <= MaxRead THEN {TRUE} ELSE BOOLEAN]

CutOff(n) == [kind : {"file"}, size : 0..n, text : BOOLEAN]

(* The file is emptied and then written: what raises may leave it cut off.  *)
Write(args, world) ==
    IF args.at = Missing \/ args.size > MaxWrite THEN {Ends("error", world)}
    ELSE IF At(world, args).kind = "directory" THEN {Ends("raises", world)}
    ELSE {Ends("raises", world)}
         \cup {Ends("output", Put(world, args, f)) : f \in Whole(args.size)}
         \cup {Ends("raises", Put(world, args, f)) : f \in CutOff(args.size)}

Delete(args, world) ==
    IF args.at = Missing \/ At(world, args).kind = "nothing" THEN {Ends("error", world)}
    ELSE {Ends("raises", world)} \cup
         IF At(world, args).kind = "file"
         THEN {Ends("output", Put(world, args, Nothing))} ELSE {}

-----------------------------------------------------------------------------
(* The function of a tool; it cannot be called with two contexts.           *)
Results(tool, args, services, world) ==
    IF ~args.fits THEN {Ends("raises", world)} ELSE
    CASE tool = "system.health"              -> Health(world)
      [] tool = "system.capabilities"        -> Capabilities(services, world)
      [] tool = "model.list"                 -> ModelList(services, world)
      [] tool = "model.health"               -> ModelHealth(services, world)
      [] tool = "model.route"                -> Route(args, services, world)
      [] tool = "memory.search"              -> Search(services, world)
      [] tool = "memory.write_proposal"      -> WriteProposal(args, services, world)
      [] tool = "memory.inspect"             -> Inspect(services, world)
      [] tool = "evidence.query"             -> Query(services, world)
      [] tool = "files.read_scoped"          -> Read(args, world)
      [] tool = "files.write_scoped"         -> Write(args, world)
      [] tool = "files.delete_scoped"        -> Delete(args, world)
      [] tool \in {"git.status", "git.diff"} -> Git(world)
      [] tool = "shell.exec"                 -> {Ends("error", world)}

(* ToolRegistry.execute: refused outright, or carried out; an exception     *)
(* becomes a failed result.                                                 *)
Executed(policy, tool, args, services, world) ==
    IF Outcome(policy, tool, Judged[args.at]) = "DENY" THEN {Ends("denied", world)}
    ELSE Results(tool, args, services, world)
=============================================================================
