------------------------------ MODULE Acceptance ------------------------------
(***************************************************************************)
(* native/tools/src/accept.fe: the acceptance of a built compiler.  It     *)
(* checks the build record, runs its stages one after another, each with a *)
(* timeout, and rewrites acceptance.json after every one.  Several runs may*)
(* be given one directory, sources are edited and further compilers built  *)
(* meanwhile, and every process may be killed.                             *)
(***************************************************************************)
EXTENDS Scripts

VARIABLES
  runner,       \* the runs of acceptance
  tools,        \* whether the tools stage has built fevm_tools
  acceptance    \* acceptance.json

vars == <<faults, bootVars, scriptVars, runner, tools, acceptance>>

NoReport == [exists |-> FALSE]

\* The stages in order.
stages == [i \in 1..Len(Levels) |-> "workspace"]
          \o <<"cli-smoke", "osaka-frames", "osaka-state", "tools", "session", "arithmetic">>

Becomes(r, s) == runner' = [runner EXCEPT ![r] = s]
In(r, pc) == runner[r].pc = pc
Stage(r) == stages[runner[r].checks + 1]

Accept(r, o) ==
  /\ In(r, "idle") /\ Becomes(r, [runner[r] EXCEPT !.pc = "build", !.build = o])
  /\ UNCHANGED <<faults, bootVars, scriptVars, tools, acceptance>>

\* The record must be complete and name the compiler that is there.
usable(o) == record[o].complete /\ compiler(o) = record[o].compiler

ReadBuild(r) ==
  /\ In(r, "build")
  /\ Becomes(r, [runner[r] EXCEPT !.pc = IF usable(runner[r].build) THEN "fresh" ELSE "failed",
                                  !.compiler = record[runner[r].build].compiler])
  /\ UNCHANGED <<faults, bootVars, scriptVars, tools, acceptance>>

\* A report that exists is not overwritten, but another run may write one after the look.
CheckFresh(r) ==
  /\ In(r, "fresh")
  /\ Becomes(r, [runner[r] EXCEPT !.pc = IF acceptance.exists THEN "failed" ELSE "report"])
  /\ UNCHANGED <<faults, bootVars, scriptVars, tools, acceptance>>

Record(r, checks, complete) ==
  acceptance' = [exists |-> TRUE, readable |-> TRUE, by |-> r, compiler |-> runner[r].compiler,
                 checks |-> checks, complete |-> complete]

FirstReport(r) ==
  /\ In(r, "report") /\ Becomes(r, [runner[r] EXCEPT !.pc = "stage"])
  /\ Record(r, 0, FALSE) /\ UNCHANGED <<faults, bootVars, scriptVars, tools>>

\* A stage is started; one whose program is missing, as session's is when tools failed, is
\* not, and ends with status 127.
StartStage(r) ==
  /\ In(r, "stage") /\ runner[r].checks < Len(stages)
  /\ Becomes(r, [runner[r] EXCEPT !.pc = "running"])
  /\ Set(r, IF Stage(r) = "session" /\ ~tools THEN Exited(127)
            ELSE IF Stage(r) \in Reporting THEN Process(Stage(r), runner[r].build)
            ELSE [pc |-> "program"])
  /\ UNCHANGED <<faults, bootVars, sources, results, tools, acceptance>>

\* A stage that is not one of the scripts here runs and exits or hangs.
Program(r) ==
  /\ Runs(r, "program")
  /\ \E status \in {0, 1} :
       /\ Set(r, Exited(status))
       /\ tools' = (tools \/ (In(r, "running") /\ Stage(r) = "tools" /\ status = 0))
       /\ FaultIf(status # 0)
  /\ UNCHANGED <<bootVars, sources, results, runner, acceptance>>

Running(r) == child[r].pc \notin {"none", "exited"}

\* What a process that is killed leaves of its report: what it saved, or half of it.
Kills(r) ==
  results' \in {results} \cup IF Running(r) /\ child[r].pc \notin {"program", "mkdir"}
                              THEN {[results EXCEPT ![child[r].stage] = Torn]} ELSE {}

\* Mutant: a stage may take for ever.
TimesOut_never(r) == FALSE /\ UNCHANGED vars

\* A stage that exceeds its timeout is killed, with status 124.
TimesOut(r) ==
  /\ In(r, "running") /\ Running(r) /\ Kills(r) /\ Set(r, Exited(124)) /\ FaultIf(~Runs(r, "hung"))
  /\ UNCHANGED <<bootVars, sources, runner, tools, acceptance>>

\* Mutant: the last stage decides.
passes_last(r, status) == status = 0

\* Every stage has to pass.
passes(r, status) == runner[r].complete /\ status = 0

EndStage(r) ==
  LET complete == passes(r, child[r].status) IN
  /\ In(r, "running") /\ Runs(r, "exited")
  /\ Becomes(r, [runner[r] EXCEPT !.pc = "stage", !.checks = @ + 1, !.complete = complete])
  /\ Set(r, NoChild) /\ Record(r, runner[r].checks + 1, FALSE)
  /\ UNCHANGED <<faults, bootVars, sources, results, tools>>

Finish(r) ==
  /\ In(r, "stage") /\ runner[r].checks = Len(stages)
  /\ Record(r, runner[r].checks, runner[r].complete)
  /\ Becomes(r, [runner[r] EXCEPT !.pc = IF runner[r].complete THEN "accepted" ELSE "failed"])
  /\ UNCHANGED <<faults, bootVars, scriptVars, tools>>

\* A run is killed, perhaps as it writes its report; its child goes on.
Die(r) ==
  /\ runner[r].pc \in {"build", "fresh", "report", "stage", "running"}
  /\ Becomes(r, [runner[r] EXCEPT !.pc = "dead"]) /\ Fault
  /\ acceptance' \in {acceptance} \cup IF runner[r].pc \in {"report", "stage", "running"}
                                       THEN {[exists |-> TRUE, readable |-> FALSE]} ELSE {}
  /\ UNCHANGED <<bootVars, scriptVars, tools>>

RunnerStep(r) ==
  \/ ReadBuild(r) \/ CheckFresh(r) \/ FirstReport(r) \/ StartStage(r) \/ EndStage(r) \/ Finish(r)

ChildStep(r) ==
  \/ ScriptStep(r) /\ UNCHANGED <<bootVars, runner, tools, acceptance>>
  \/ Program(r)

Init ==
  /\ tools = FALSE /\ acceptance = NoReport
  /\ \E party \in Parties :
       /\ BootInit(party) /\ ScriptInit(party)
       /\ runner = [r \in Runners |-> [pc |-> IF r \in party.present THEN "idle" ELSE "absent",
                      build |-> None, compiler |-> None, checks |-> 0, complete |-> TRUE]]

Next ==
  \/ BootNext /\ UNCHANGED <<scriptVars, runner, tools, acceptance>>
  \/ Edit /\ UNCHANGED <<bootVars, runner, tools, acceptance>>
  \/ \E r \in Runners :
       \/ RunnerStep(r) \/ ChildStep(r) \/ TimesOut(r) \/ Die(r)
       \/ Hang(r) /\ UNCHANGED <<bootVars, runner, tools, acceptance>>
       \/ \E o \in Outs : Accept(r, o)

\* Loops take their next step, processes that do not hang theirs, and clocks go on.
Spec ==
  /\ Init /\ [][Next]_vars
  /\ \A r \in Runners :
       WF_vars(RunnerStep(r)) /\ WF_vars(ChildStep(r)) /\ WF_vars(TimesOut(r))

-----------------------------------------------------------------------------
(* Properties *)

\* A compiler is accepted by one run only, of all that were given the directory, and only
\* with every script's whole report in it, made with the compiler of the complete build
\* that was asked for; nobody rewrites those reports after.
AcceptedIsChecked ==
  \A r \in Runners : runner[r].pc = "accepted" =>
    /\ \A q \in Runners \ {r} : runner[q].pc # "accepted"
    /\ compiler(runner[r].build) = runner[r].compiler
    /\ ~Overtaken(runner[r].build) => runner[r].compiler = record[runner[r].build].revision
    /\ \A s \in Reporting :
         /\ results[s].exists /\ results[s].readable /\ results[s].complete
         /\ checked(s, results[s]) /\ results[s].compiler_sha256 = runner[r].compiler

\* Every run that was started ends, though a stage may hang: a stage has its timeout.
AcceptanceEnds ==
  \A r \in Runners :
    runner[r].pc = "build" ~> runner[r].pc \in {"accepted", "failed", "dead"}
=============================================================================
