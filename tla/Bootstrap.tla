------------------------------ MODULE Bootstrap ------------------------------
(***************************************************************************)
(* native/bootstrap.py: a compiler is built from fresh checkouts at pinned *)
(* revisions, in a Cargo target directory that builds may share, and copied*)
(* out of it.  A compiler and its digest are the revision whose sources it *)
(* was built from.  Every command may fail and the script may be killed    *)
(* anywhere.                                                               *)
(***************************************************************************)
EXTENDS Naturals

CONSTANTS Builds,       \* runs of the script
          Outs,         \* --out directories
          Targets,      \* Cargo's target directories: each --out directory's own and reusable ones
          Revisions,    \* Fe revisions
          pinned,       \* the revision each run's manifest pins
          Parties,      \* bounds: the processes that take part together, and how many
                        \* commands fail, processes are killed and sources edited
          None

Empty == "empty"        \* what is left where a fetch failed
Changed == "changed"    \* sources the build itself has changed

ASSUME BootstrapAssumption ==
  None \notin Revisions \cup Targets \cup {Empty, Changed} /\ pinned \in [Builds -> Revisions]

VARIABLES
  trees,     \* the checkouts fe and sonatina of each directory
  binary,    \* bin/fe of each directory
  record,    \* build.json of each directory
  cache,     \* release/fe of each target directory
  boots,     \* the runs of the script: where they are, in which directories; as history,
             \* whether another has replaced the compiler a run has yet to copy
  faults     \* how much more may fail

bootVars == <<trees, binary, record, cache, boots>>

\* A step that is a fault, or one that may be.
Fault == faults > 0 /\ faults' = faults - 1
FaultIf(fails) == IF fails THEN Fault ELSE UNCHANGED faults

NoRecord == [complete |-> FALSE, revision |-> None, target |-> None, compiler |-> None]
Idle == [pc |-> "idle", out |-> None, target |-> None, overtaken |-> FALSE]
Absent == [Idle EXCEPT !.pc = "absent"]

At(b, pc) == boots[b].pc = pc
Goto(b, pc) == boots' = [boots EXCEPT ![b].pc = pc]

\* --target-dir names the target directory; without it, it is one in the --out directory.
Start(b, o, t) ==
  /\ At(b, "idle")
  /\ boots' = [boots EXCEPT ![b] = [pc |-> "fe", out |-> o, target |-> t, overtaken |-> FALSE]]
  /\ UNCHANGED <<trees, binary, record, cache, faults>>

\* A checkout refuses a directory that exists, and one that fails leaves one.  The
\* two repositories of a manifest are pinned together.
checkout(b, part, next) ==
  LET o == boots[b].out IN
  /\ At(b, part)
  /\ IF trees[o][part] # None THEN Goto(b, "failed") /\ UNCHANGED <<trees, faults>>
     ELSE \E actual \in Revisions \cup {Empty} :
            /\ trees' = [trees EXCEPT ![o][part] = actual]
            /\ Goto(b, IF actual = pinned[b] THEN next ELSE "failed")
            /\ FaultIf(actual # pinned[b])
  /\ UNCHANGED <<binary, record, cache>>

Recorded(b, complete, sha) == [complete |-> complete, revision |-> pinned[b],
                               target |-> boots[b].target, compiler |-> sha]

\* The lock file is verified (Fail if it differs) and the record of an incomplete
\* build written; --prepare-only ends here.
Prepare(b) ==
  /\ At(b, "prepare")
  /\ record' = [record EXCEPT ![boots[b].out] = Recorded(b, FALSE, None)]
  /\ \E next \in {"build", "done"} : Goto(b, next)
  /\ UNCHANGED <<trees, binary, cache, faults>>

\* The compiler is to be copied from the target directory still.
Copying(b) == boots[b].pc \in {"verify", "copy"}

\* The grammar's and the compiler's build, which may write to the checked out sources.
\* Cargo locks the target directory while it builds, but not until the compiler is copied:
\* this build may replace the compiler another has yet to copy.
Compile(b) ==
  LET o == boots[b].out
      t == boots[b].target IN
  /\ At(b, "build")
  /\ \E built \in {trees[o]["fe"], Changed} :
       /\ trees' = [trees EXCEPT ![o]["fe"] = built] /\ cache' = [cache EXCEPT ![t] = built]
       /\ FaultIf(built = Changed)
  /\ boots' = [c \in Builds |->
       IF c = b THEN [boots[b] EXCEPT !.pc = "verify"]
       ELSE [boots[c] EXCEPT !.overtaken = @ \/ (Copying(c) /\ boots[c].target = t)]]
  /\ UNCHANGED <<binary, record>>

\* The lock file's digest and git's status after the build.
unchanged(o, revision) == trees[o]["fe"] = revision

Verify(b) ==
  /\ At(b, "verify")
  /\ Goto(b, IF unchanged(boots[b].out, pinned[b]) THEN "copy" ELSE "failed")
  /\ UNCHANGED <<trees, binary, record, cache, faults>>

\* bin must not exist yet.
Copy(b) ==
  LET o == boots[b].out IN
  /\ At(b, "copy")
  /\ IF binary[o] # None THEN Goto(b, "failed") /\ UNCHANGED binary
     ELSE binary' = [binary EXCEPT ![o] = cache[boots[b].target]] /\ Goto(b, "record")
  /\ UNCHANGED <<trees, record, cache, faults>>

\* Mutant: the record names the compiler in the target directory.
compiler_cached(o) == cache[record[o].target]

\* The compiler the record names.
compiler(o) == binary[o]

Complete(b) ==
  LET o == boots[b].out IN
  /\ At(b, "record")
  /\ record' = [record EXCEPT ![o] = Recorded(b, TRUE, compiler(o))]
  /\ Goto(b, "done") /\ UNCHANGED <<trees, binary, cache, faults>>

\* A command or a check fails, or the script is killed.
Fail(b) ==
  /\ boots[b].pc \notin {"absent", "idle", "done", "failed"}
  /\ Goto(b, "failed") /\ Fault /\ UNCHANGED <<trees, binary, record, cache>>

BootInit(party) ==
  /\ trees = [o \in Outs |-> [part \in {"fe", "sonatina"} |-> None]]
  /\ binary = [o \in Outs |-> None] /\ record = [o \in Outs |-> NoRecord]
  /\ cache = [t \in Targets |-> None] /\ faults = party.faults
  /\ boots = [b \in Builds |-> IF b \in party.present THEN Idle ELSE Absent]

BootStep(b) ==
  \/ checkout(b, "fe", "sonatina") \/ checkout(b, "sonatina", "prepare")
  \/ Prepare(b) \/ Compile(b) \/ Verify(b) \/ Copy(b) \/ Complete(b) \/ Fail(b)

BootNext == \E b \in Builds : BootStep(b) \/ \E o \in Outs, t \in Targets : Start(b, o, t)

\* Another build replaced the compiler of the one that has the directory before its copy.
Overtaken(o) == \E b \in Builds : boots[b].out = o /\ boots[b].overtaken

\* "Build the pinned native Fe compiler from a fresh, detached checkout", and "keep
\* this accepted compiler immutable": whatever was built before and since, in the same
\* target directory or for the same --out directory, a complete record's directory holds
\* the sources it pins and the compiler it names; and that is built from them, unless
\* another build in the same target directory came between Cargo and the copy.
RecordedCompiler ==
  \A o \in Outs : record[o].complete =>
    /\ trees[o]["fe"] = record[o].revision /\ binary[o] = record[o].compiler
    /\ ~Overtaken(o) => binary[o] = record[o].revision
=============================================================================
