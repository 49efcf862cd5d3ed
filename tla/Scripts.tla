------------------------------- MODULE Scripts -------------------------------
(***************************************************************************)
(* The scripts that acceptance runs and that report in a directory of their*)
(* own: native/cli.py and native/differential/run.py and state_run.py.  A  *)
(* script works on a report in memory and saves it; killed, it leaves what *)
(* it saved last, or half of it.  An executable and its digest are the     *)
(* compiler and the sources it was built from.                             *)
(***************************************************************************)
EXTENDS Bootstrap, Sequences

CONSTANTS Runners,      \* runs of acceptance, each with one child at a time
          Levels,       \* optimisation levels, a sequence
          Cases,        \* cases of a corpus, and checks of the command line
          MaxEdits      \* edits of the sources under test

ASSUME ScriptsAssumption ==
  /\ Len(Levels) \in Nat /\ Cases \in Nat \ {0} /\ MaxEdits \in Nat
  /\ \A party \in Parties : party.edits \in 0..MaxEdits

Differential == {"osaka-frames", "osaka-state"}
Reporting == {"cli-smoke"} \cup Differential

VARIABLES
  sources,   \* the version of the sources under test: no edit brings one back
  child,     \* the process each runner has started
  results    \* results.json in the directory of each reporting stage

scriptVars == <<sources, child, results>>

NoDirectory == [exists |-> FALSE]
Torn == [exists |-> TRUE, readable |-> FALSE]      \* a directory without a whole report
NoChild == [pc |-> "none"]
Report(sha, compiled) ==
  [exists |-> TRUE, readable |-> TRUE, source_sha256 |-> sha, compiler_sha256 |-> compiled,
   levels |-> <<>>, complete |-> FALSE, error |-> FALSE]
Process(stage, path) == [pc |-> "mkdir", stage |-> stage, path |-> path, report |-> Torn]
Exited(status) == [pc |-> "exited", status |-> status]

Set(r, c) == child' = [child EXCEPT ![r] = c]
Runs(r, pc) == child[r].pc = pc
Saves(r, report) == results' = [results EXCEPT ![child[r].stage] = report]
report(r) == child[r].report
Row(sha) == [passed |-> 0, complete |-> FALSE, failed |-> FALSE, executable_sha256 |-> sha]
row(r) == report(r).levels[Len(report(r).levels)]
WithRow(r, new) == [report(r) EXCEPT !.levels[Len(report(r).levels)] = new]

executable(r) == <<compiler(child[r].path), sources>>

Edit == sources < MaxEdits /\ sources' = sources + 1 /\ UNCHANGED <<child, results, faults>>

\* Only one process makes a directory.
mkdir(r) ==
  /\ Runs(r, "mkdir")
  /\ IF results[child[r].stage].exists THEN Set(r, Exited(1)) /\ UNCHANGED results
     ELSE Set(r, [child[r] EXCEPT !.pc = "open"]) /\ Saves(r, Torn)
  /\ UNCHANGED <<sources, faults>>

\* The compiler is hashed and, by the differential scripts, the sources.
Opens(r, next) ==
  LET opened == Report(sources, compiler(child[r].path)) IN
  /\ Set(r, [child[r] EXCEPT !.report = opened, !.pc = next])
  /\ Saves(r, opened) /\ UNCHANGED <<sources, faults>>

-----------------------------------------------------------------------------
(* run.py and state_run.py: what happens in memory is saved at the end of each level, and *)
(* by finally when an exception ends the script *)

Differs(r) == child[r].stage \in Differential

Open(r) == Runs(r, "open") /\ Differs(r) /\ Opens(r, "reference")

\* The contract's tests, the reference's build and answers, and their validation.
Reference(r) ==
  /\ Runs(r, "reference")
  /\ Set(r, [child[r] EXCEPT !.pc = "level"]) /\ Saves(r, report(r)) /\ UNCHANGED <<sources, faults>>

\* A level's row is saved before its executable is built, by the compiler there is from
\* the sources there are.
BeginLevel(r) ==
  LET begun == [report(r) EXCEPT !.levels = Append(@, Row(None))] IN
  /\ Runs(r, "level") /\ Len(report(r).levels) < Len(Levels)
  /\ Set(r, [child[r] EXCEPT !.pc = "compile", !.report = begun]) /\ Saves(r, begun)
  /\ UNCHANGED <<sources, faults>>

BuildLevel(r) ==
  /\ Runs(r, "compile")
  /\ Set(r, [child[r] EXCEPT !.pc = "cases", !.report = WithRow(r, Row(executable(r)))])
  /\ UNCHANGED <<results, sources, faults>>

Case(r) ==
  /\ Runs(r, "cases") /\ row(r).passed < Cases
  /\ Set(r, [child[r] EXCEPT !.report = WithRow(r, [row(r) EXCEPT !.passed = @ + 1])])
  /\ UNCHANGED <<results, sources, faults>>

\* Results differ, or the process failed: the row says which case, the report why it ends.
Mismatch(r) ==
  /\ Runs(r, "cases") /\ row(r).passed < Cases /\ Fault
  /\ Saves(r, [WithRow(r, [row(r) EXCEPT !.failed = TRUE]) EXCEPT !.error = TRUE])
  /\ Set(r, Exited(1)) /\ UNCHANGED sources

EndLevel(r) ==
  LET ended == WithRow(r, [row(r) EXCEPT !.complete = TRUE]) IN
  /\ Runs(r, "cases") /\ row(r).passed = Cases
  /\ Set(r, [child[r] EXCEPT !.pc = "level", !.report = ended]) /\ Saves(r, ended)
  /\ UNCHANGED <<sources, faults>>

\* Mutant: the sources are not hashed again.
same_sources_assumed(r) == TRUE

same_sources(r) == report(r).source_sha256 = sources

Conclude(r) ==
  /\ Runs(r, "level") /\ Len(report(r).levels) = Len(Levels)
  /\ Saves(r, [report(r) EXCEPT !.complete = same_sources(r), !.error = ~same_sources(r)])
  /\ Set(r, Exited(IF same_sources(r) THEN 0 ELSE 1)) /\ UNCHANGED <<sources, faults>>

\* A command fails, or exceeds the timeout it has.
Break(r) ==
  /\ child[r].pc \in {"reference", "level", "compile", "cases"} /\ Fault
  /\ Saves(r, [report(r) EXCEPT !.error = TRUE])
  /\ Set(r, Exited(1)) /\ UNCHANGED sources

-----------------------------------------------------------------------------
(* cli.py: every check is saved, and an exception only ends the script *)

OpenCli(r) == Runs(r, "open") /\ ~Differs(r) /\ Opens(r, "build")

BuildCli(r) ==
  /\ Runs(r, "build") /\ Len(report(r).levels) < Len(Levels)
  /\ Set(r, [child[r] EXCEPT !.pc = "checks", !.report.levels = Append(@, Row(executable(r)))])
  /\ UNCHANGED <<results, sources, faults>>

Check(r) ==
  LET passed == WithRow(r, [row(r) EXCEPT !.passed = @ + 1]) IN
  /\ Runs(r, "checks") /\ row(r).passed < Cases
  /\ Set(r, [child[r] EXCEPT !.report = passed]) /\ Saves(r, passed)
  /\ UNCHANGED <<sources, faults>>

FailedCheck(r) ==
  /\ Runs(r, "checks") /\ row(r).passed < Cases /\ Fault
  /\ Saves(r, WithRow(r, [row(r) EXCEPT !.failed = TRUE]))
  /\ Set(r, Exited(1)) /\ UNCHANGED sources

EndChecks(r) ==
  /\ Runs(r, "checks") /\ row(r).passed = Cases
  /\ Set(r, [child[r] EXCEPT !.pc = "build"]) /\ UNCHANGED <<results, sources, faults>>

ConcludeCli(r) ==
  /\ Runs(r, "build") /\ Len(report(r).levels) = Len(Levels)
  /\ Saves(r, [report(r) EXCEPT !.complete = TRUE]) /\ Set(r, Exited(0))
  /\ UNCHANGED <<sources, faults>>

\* A build or one of the controlled programs fails, or exceeds its timeout; or, in any of
\* the scripts, what comes before the first report.
BreakCli(r) ==
  /\ child[r].pc \in {"open", "build", "checks"} /\ Fault
  /\ Set(r, Exited(1)) /\ UNCHANGED <<results, sources>>

-----------------------------------------------------------------------------
\* A command without a timeout hangs.
Hang(r) ==
  /\ child[r].pc \in {"open", "reference"} /\ Fault
  /\ Set(r, [child[r] EXCEPT !.pc = "hung"]) /\ UNCHANGED <<sources, results>>

ScriptStep(r) ==
  \/ mkdir(r)
  \/ Open(r) \/ Reference(r) \/ BeginLevel(r) \/ BuildLevel(r) \/ Case(r) \/ Mismatch(r)
  \/ EndLevel(r) \/ Conclude(r) \/ Break(r)
  \/ OpenCli(r) \/ BuildCli(r) \/ Check(r) \/ FailedCheck(r) \/ EndChecks(r) \/ ConcludeCli(r)
  \/ BreakCli(r)

ScriptInit(party) ==
  /\ sources = MaxEdits - party.edits /\ child = [r \in Runners |-> NoChild]
  /\ results = [s \in Reporting |-> NoDirectory]

\* The rows of a report that says it is complete.
checked(stage, rep) ==
  /\ Len(rep.levels) = Len(Levels) /\ ~rep.error
  /\ \A i \in DOMAIN rep.levels :
       /\ rep.levels[i].passed = Cases /\ ~rep.levels[i].failed
       /\ rep.levels[i].executable_sha256[1] = rep.compiler_sha256
       /\ stage \in Differential =>
            rep.levels[i].complete /\ rep.levels[i].executable_sha256[2] = rep.source_sha256

\* A report on disk never says more than was done, whenever its script was stopped and
\* whatever was edited meanwhile: complete, it has every level, each built from the
\* sources and by the compiler it names, with every case passed ("sources changed during
\* the differential run").
ReportsHold ==
  \A s \in Reporting :
    results[s].exists /\ results[s].readable /\ results[s].complete => checked(s, results[s])
=============================================================================
