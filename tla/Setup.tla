------------------------------- MODULE Setup --------------------------------
(***************************************************************************)
(* strata init (cli.initialize and cli.cmd_init): merge the setup files of *)
(* a project under the project lock, refresh, commit what this run         *)
(* changed.  Runs overlap, are refused, fail between two files or are      *)
(* killed; the user edits the files, breaks them, and stages work of his   *)
(* own in the same repository.                                             *)
(*                                                                         *)
(* A file's content is what the user put there, what setup put there, and  *)
(* its layout: as the serializer writes it, or as a hand left it.          *)
(***************************************************************************)
EXTENDS Naturals, Sequences

CONSTANTS
  Runner,          \* processes that run strata init
  Absent, Broken,  \* no file; a file that does not parse
  None,            \* a flag not typed
  Flags,           \* [corpus, manuscript]: the flags of a run
  Stops,           \* whether runs fail and are killed
  MaxRuns,         \* bound: runs
  MaxEdits         \* bound: edits by the user

Parsed == {"config", "mcp", "permissions"}
File == Parsed \cup {"ignore", "overview"}

\* What setup puts into files, and what a file that parses holds.
Ours == {<<"strata">>, <<"entries">>, <<"rules">>}
          \cup {<<"corpus", c>> : c \in UNION {f.corpus : f \in {g \in Flags : g.corpus # None}}}
          \cup {<<"manuscript", f.manuscript>> : f \in Flags}
Content == [user : Nat, ours : SUBSET Ours, layout : {"dumped", "hand"}]

ASSUME SetupAssumption ==
  /\ \A f \in Flags : DOMAIN f = {"corpus", "manuscript"} /\ f.corpus # {}
  /\ Absent # Broken /\ {Absent, Broken} \cap Content = {} /\ None \notin Runner
  /\ Stops \in BOOLEAN
  /\ {MaxRuns, MaxEdits} \subseteq Nat

\* The order of the work; refused runs leave from "validate" and "parse".
Order == <<"start", "lock", "validate", "parse", "config", "mcp", "permissions", "ignore",
           "overview", "unlock", "compare", "commit">>

VARIABLES
  disk,      \* the setup files
  staged,    \* the user has unrelated changes staged
  lock,      \* refresh.lock: a runner or None
  at,        \* each runner's place in Order
  flags,     \* what was typed
  before,    \* cmd_init's snapshot of the files
  new,       \* the merged contents a run is going to write
  wrote,     \* history: files the run replaced
  last,      \* history: how the run that ended last ended
  shared,    \* history: the runners whose run overlaps another
  unsaved,   \* history: the runner whose change of a file is in no commit, or None
  runs, edits

vars == <<disk, staged, lock, at, flags, before, new, wrote, last, shared, unsaved, runs, edits>>
user == <<staged, edits>>
ends == <<last, shared>>

At(p, step) == Order[at[p]] = step
Next1(p) == at' = [at EXCEPT ![p] = @ + 1]
Idle(p) == At(p, "start")

Empty == [f \in File |-> Absent]
Untyped == [corpus |-> None, manuscript |-> None]

Init ==
  /\ disk = Empty
  /\ staged = FALSE /\ lock = None
  /\ at = [p \in Runner |-> 1]
  /\ flags = [p \in Runner |-> Untyped]
  /\ before = [p \in Runner |-> Empty] /\ new = before
  /\ wrote = [p \in Runner |-> {}]
  /\ last = "none" /\ shared = {} /\ unsaved = [f \in File |-> None]
  /\ runs = 0 /\ edits = 0
-----------------------------------------------------------------------------
(***************************************************************************)
(* The user, who edits files only while no run is under way, but stages    *)
(* and commits at any time.                                                *)
(***************************************************************************)
Hand == edits < MaxEdits /\ edits' = edits + 1

Edit(f) ==
  /\ Hand /\ \A p \in Runner : Idle(p)
  /\ disk[f] \notin {Absent, Broken}
  /\ disk' = [disk EXCEPT ![f].user = @ + 1, ![f].layout = "hand"]
  /\ unsaved' = [unsaved EXCEPT ![f] = None]
  /\ UNCHANGED <<ends, staged, lock, at, flags, before, new, wrote, runs>>

Break(f) ==
  /\ Hand /\ \A p \in Runner : Idle(p)
  /\ disk[f] # Absent
  /\ disk' = [disk EXCEPT ![f] = Broken]
  /\ unsaved' = [unsaved EXCEPT ![f] = None]
  /\ UNCHANGED <<ends, staged, lock, at, flags, before, new, wrote, runs>>

Stage ==
  /\ Hand
  /\ staged' = ~staged
  /\ UNCHANGED <<ends, disk, lock, at, flags, before, new, wrote, unsaved, runs>>
-----------------------------------------------------------------------------
(***************************************************************************)
(* What a run would write.                                                 *)
(***************************************************************************)
Typed(fl) == fl.corpus # None \/ fl.manuscript # None

Old(f) == IF disk[f] = Absent THEN [user |-> 0, ours |-> {}, layout |-> "dumped"] ELSE disk[f]

\* The paths are replaced by the flags; a corpus list that was not typed
\* stays, a manuscript that was not typed goes when any flag was.
Paths(fl) ==
  LET kept == Old("config").ours
      corpus == IF fl.corpus = None THEN {x \in kept : x[1] = "corpus"}
                ELSE {<<"corpus", c>> : c \in fl.corpus}
      manuscript == CASE fl.manuscript # None -> {<<"manuscript", fl.manuscript>>}
                      [] Typed(fl) -> {}
                      [] OTHER -> {x \in kept : x[1] = "manuscript"}
  IN corpus \cup manuscript

Manuscripts(paths) == {x \in paths : x[1] = "manuscript"}

\* Mutation: settings are built from the flags alone.
DumpedAfresh(f, ours) == [user |-> 0, ours |-> ours, layout |-> "dumped"]
Dumped(f, ours) == [user |-> Old(f).user, ours |-> ours, layout |-> "dumped"]

-----------------------------------------------------------------------------
Start(p, fl) ==
  /\ Idle(p)
  /\ runs < MaxRuns /\ runs' = runs + 1
  /\ disk["config"] # Absent \/ Typed(fl)
  /\ flags' = [flags EXCEPT ![p] = fl]
  /\ before' = [before EXCEPT ![p] = disk]
  /\ shared' = IF \A q \in Runner : Idle(q) THEN {} ELSE {q \in Runner : ~Idle(q)} \cup {p}
  /\ Next1(p)
  /\ UNCHANGED <<last, user, disk, lock, new, wrote, unsaved>>

Lock(p) ==
  /\ At(p, "lock")
  /\ lock = None /\ lock' = p
  /\ Next1(p)
  /\ UNCHANGED <<ends, user, disk, flags, before, new, wrote, unsaved, runs>>

Valid(p) ==
  /\ disk["config"] # Broken
  /\ \E x \in Paths(flags[p]) : x[1] = "corpus"

\* The proposed settings are complete and valid before anything is written.
Validate(p) ==
  /\ At(p, "validate") /\ Valid(p)
  /\ new' = [new EXCEPT ![p]["config"] = Dumped("config", Paths(flags[p]))]
  /\ Next1(p)
  /\ UNCHANGED <<ends, user, disk, lock, flags, before, wrote, unsaved, runs>>

Parse(p) ==
  /\ At(p, "parse") /\ Broken \notin {disk["mcp"], disk["permissions"]}
  /\ new' = [new EXCEPT
       ![p]["mcp"] = Dumped("mcp", {<<"strata">>}),
       ![p]["permissions"] = Dumped("permissions", Old("permissions").ours \cup {<<"rules">>}
                                      \cup Manuscripts(new[p]["config"].ours))]
  /\ Next1(p)
  /\ UNCHANGED <<ends, user, disk, lock, flags, before, wrote, unsaved, runs>>

\* _atomic_write: the same text is left alone, another replaces the file in
\* one step.
Replace(p, f, content) ==
  /\ disk' = [disk EXCEPT ![f] = content]
  /\ wrote' = [wrote EXCEPT ![p] = IF disk[f] = content THEN @ ELSE @ \cup {f}]
  /\ unsaved' = [unsaved EXCEPT ![f] = IF disk[f] = content THEN @ ELSE p]
  /\ Next1(p)

Write(p, f) ==
  /\ At(p, f)
  /\ \/ f \in Parsed /\ Replace(p, f, new[p][f])
     \/ f = "ignore" /\ Replace(p, f, [Old(f) EXCEPT !.ours = {<<"entries">>}])
     \/ f = "overview" /\ Replace(p, f, Old(f))
  /\ UNCHANGED <<ends, user, lock, flags, before, new, runs>>

Unlock(p) ==
  /\ At(p, "unlock")
  /\ lock' = IF lock = p THEN None ELSE lock
  /\ Next1(p)
  /\ UNCHANGED <<ends, user, disk, flags, before, new, wrote, unsaved, runs>>
-----------------------------------------------------------------------------
End(p, how) ==
  /\ at' = [at EXCEPT ![p] = 1]
  /\ flags' = [flags EXCEPT ![p] = Untyped]
  /\ before' = [before EXCEPT ![p] = Empty]
  /\ new' = [new EXCEPT ![p] = Empty]
  /\ wrote' = [wrote EXCEPT ![p] = {}]
  /\ last' = how /\ shared' = shared \ {p}
  /\ lock' = IF lock = p THEN None ELSE lock

\* Mutation: files that setup created are not looked at.
ChangedOnly(p) == {f \in File : before[p][f] # Absent /\ disk[f] # before[p][f]}

Changed(p) == {f \in File : disk[f] # Absent /\ disk[f] # before[p][f]}

\* After _sync_project, which may fail: git diff --cached; anything staged puts
\* the commit off.
Compare(p) ==
  /\ At(p, "compare")
  /\ CASE Changed(p) = {} -> End(p, "saved")
       [] staged /\ Changed(p) # {} -> End(p, "deferred")
       [] OTHER -> Next1(p) /\ UNCHANGED <<ends, lock, flags, before, new, wrote>>
  /\ UNCHANGED <<user, disk, unsaved, runs>>

\* git add, git commit --only.
Commit(p) ==
  /\ At(p, "commit")
  /\ unsaved' = [f \in File |-> IF f \in Changed(p) THEN None ELSE unsaved[f]]
  /\ End(p, "saved")
  /\ UNCHANGED <<user, disk, runs>>

\* A validation error leaves by the exception, before the first write; so
\* does a lock that is not released in time.
Refuse(p) ==
  /\ \/ At(p, "lock") /\ lock # None
     \/ At(p, "validate") /\ ~Valid(p)
     \/ At(p, "parse") /\ Broken \in {disk["mcp"], disk["permissions"]}
  /\ End(p, "refused")
  /\ UNCHANGED <<user, disk, unsaved, runs>>

\* A write or git fails, the folder a path names is not there, or the
\* process dies.
Stop(p) ==
  /\ Stops /\ ~Idle(p)
  /\ End(p, "stopped")
  /\ UNCHANGED <<user, disk, unsaved, runs>>

Next ==
  \/ \E f \in Parsed : Break(f)
  \/ \E f \in File : Edit(f)
  \/ Stage
  \/ \E p \in Runner :
       \/ \E fl \in Flags : Start(p, fl)
       \/ Lock(p) \/ Validate(p) \/ Parse(p)
       \/ \E f \in File : Write(p, f)
       \/ Unlock(p) \/ Compare(p) \/ Commit(p) \/ Refuse(p) \/ Stop(p)

Spec == Init /\ [][Next]_vars
-----------------------------------------------------------------------------
(***************************************************************************)
(* Properties.                                                             *)
(***************************************************************************)
Readable(f) == disk[f] \notin {Absent, Broken}

\* No run, finished or killed, loses what the user put into a file, nor a
\* folder another run was allowed to open: "unrelated settings, other MCP
\* servers, and permission denies are preserved". (README.md:53-54;
\* cli.initialize)
NothingDropped ==
  [][\A f \in File : Readable(f) /\ disk'[f] \notin {Absent, Broken} =>
       /\ disk'[f].user >= disk[f].user
       /\ f = "permissions" => disk[f].ours \subseteq disk'[f].ours]_vars

Saved(p) == ~Idle(p) /\ at'[p] = 1 /\ last' = "saved"

\* A run that ends well, with no other run under way, has committed what it
\* replaced, whatever earlier runs left behind. (cli._git_commit_if_changed)
CommitsItsChanges ==
  [][\A p \in Runner : Saved(p) /\ p \notin shared => \A f \in wrote[p] : unsaved'[f] # p]_vars

\* "Setup commits its changed setup files when the staging area is empty;
\* existing staged changes defer that commit" (README.md:55-56): a later run
\* that ends well, with nothing staged, leaves no change of setup uncommitted.
DeferredCommitIsMade ==
  [][\A p \in Runner : Saved(p) /\ ~staged => \A f \in File : unsaved'[f] = None]_vars

\* "A bare call in an initialized folder is the refresh ... and never touches
\* config.yaml" (src/strata/cli.py:16-18).
BareLeavesConfig ==
  [][\A p \in Runner : Write(p, "config") /\ ~Typed(flags[p]) => disk'["config"] = disk["config"]]_vars
=============================================================================
