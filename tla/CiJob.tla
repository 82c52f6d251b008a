------------------------------- MODULE CiJob -------------------------------
(***************************************************************************)
(* Integration as it is used: on the names of two branches from the        *)
(* command line, or by the workflow job of a pull request, which runs the  *)
(* gate and then the integration on the revisions of its event and uploads *)
(* what each step announced.  A push to the head cancels the job of the    *)
(* head before.                                                            *)
(***************************************************************************)
EXTENDS Integration

\* A step that has not ended has no exit code.
ASSUME CiAssumption == None # 0

VARIABLE job    \* the job of the pull request

ciVars == <<refs, run, stood, job>>

Steps == {"gate", "integration"}
NoJob == [at |-> "none"]

CiInit == IntegrationInit /\ job = NoJob

-----------------------------------------------------------------------------
(* The job. *)

\* The event names revisions, and the head is checked out.
OpenJob ==
    /\ job = NoJob /\ run = NoRun
    /\ job' = [at |-> "gate", event |-> [target |-> refs.target, head |-> refs.head],
               cancelled |-> FALSE, exit |-> [s \in Steps |-> None],
               file |-> [s \in Steps |-> "none"], outcome |-> [s \in Steps |-> None],
               announced |-> {}, uploaded |-> {}]
    /\ UNCHANGED <<refs, run, stood>>

Running(step) == job # NoJob /\ job.at = step /\ ~job.cancelled

After == [gate |-> "integration", integration |-> "upload"]
ExitOf(outcome) ==
    IF outcome \in {"pass", "compatible"} THEN 0
    ELSE IF outcome \in {"blocked", "conflict"} THEN 2 ELSE 1
Exit(step, code) == job' = [job EXCEPT !.at = After[step], !.exit[step] = code]

\* Seeded fault: the base need not be an ancestor of the head.
RangeFitsAnyway(event) == TRUE
RangeFits(event) == Contains(event.head, event.target)

\* A range that is not linear, no sandbox, no plan for the head or no pinned
\* runtime: the step fails before there is evidence.
RefuseGate ==
    /\ Running("gate") /\ job.file["gate"] = "none"
    /\ ~RangeFits(job.event) \/ {"sandbox", "plan", "runtime"} \cap Troubles # {}
    /\ Exit("gate", 1)
    /\ UNCHANGED <<refs, run, stood>>

JudgeHead ==
    /\ Running("gate") /\ job.file["gate"] = "none" /\ RangeFits(job.event)
    /\ job' = [job EXCEPT !.file["gate"] = "begun", !.outcome["gate"] = job.event.head.verdict]
    /\ UNCHANGED <<refs, run, stood>>

\* The integration follows whatever the gate said.
StartIntegration ==
    /\ Running("integration") /\ run = NoRun
    /\ StartRun(job.event)
    /\ UNCHANGED <<refs, stood, job>>

EndIntegration ==
    /\ Running("integration") /\ job.file["integration"] = "none"
    /\ \/ run.at = "failed" /\ Exit("integration", 1)
       \/ /\ run.at = "done"
          /\ job' = [job EXCEPT !.file["integration"] = "begun", !.outcome["integration"] = run.result.outcome]
    /\ UNCHANGED <<refs, run, stood>>

\* The evidence is written to a new file, read back and compared.
FinishEvidence(step) ==
    /\ Running(step) /\ job.file[step] = "begun"
    /\ \/ job' = [job EXCEPT !.file[step] = "whole"]
       \/ /\ "disk" \in Troubles
          /\ job' = [job EXCEPT !.file[step] = "torn", !.at = After[step], !.exit[step] = 1]
    /\ UNCHANGED <<refs, run, stood>>

Announce(step) ==
    /\ Running(step) /\ job.file[step] = "whole" /\ step \notin job.announced
    /\ job' = [job EXCEPT !.announced = @ \cup {step}]
    /\ UNCHANGED <<refs, run, stood>>

\* The summary is for people; then the command ends by its outcome.
EndStep(step) ==
    /\ Running(step) /\ step \in job.announced
    /\ \/ Exit(step, ExitOf(job.outcome[step]))
       \/ "disk" \in Troubles /\ Exit(step, 1)
    /\ UNCHANGED <<refs, run, stood>>

\* The uploads run always, of what was announced.
Upload ==
    /\ job # NoJob /\ job.at = "upload"
    /\ job' = [job EXCEPT !.at = "over", !.uploaded = job.announced]
    /\ UNCHANGED <<refs, run, stood>>

\* A newer head, or a person, cancels the job in the middle of a step.
CancelJob ==
    /\ job # NoJob /\ job.at \in Steps
    /\ job' = [job EXCEPT !.cancelled = TRUE, !.at = "upload",
                          !.file = [s \in Steps |-> IF @[s] = "begun" THEN "torn" ELSE @[s]]]
    /\ UNCHANGED <<refs, run, stood>>

-----------------------------------------------------------------------------

\* The integration of the command line, or that of the job while it runs.
Integrate == (job = NoJob \/ Running("integration")) /\ RunStep /\ UNCHANGED job

FromTheCommandLine == job = NoJob /\ IntegrateNames /\ UNCHANGED job

\* An event names object ids: a push after it changes nothing that the job reads,
\* and a newer head shows as CancelJob.
Push == job = NoJob /\ (PushTarget \/ PushHead) /\ UNCHANGED job

Done ==
    /\ \/ job = NoJob /\ run.at \in {"done", "failed"}
       \/ job # NoJob /\ job.at = "over"
    /\ UNCHANGED ciVars

CiNext ==
    \/ FromTheCommandLine \/ Integrate \/ Push
    \/ OpenJob \/ RefuseGate \/ JudgeHead \/ StartIntegration \/ EndIntegration
    \/ \E step \in Steps : FinishEvidence(step) \/ Announce(step) \/ EndStep(step)
    \/ Upload \/ CancelJob \/ Done

CiSpec == CiInit /\ [][CiNext]_ciVars

-----------------------------------------------------------------------------
(* Properties. *)

Succeeded == job # NoJob /\ job.at = "over" /\ \A s \in Steps : job.exit[s] = 0

\* A job that succeeds has judged a head that contains the target of its event,
\* passes its gate, integrates with that target and keeps all its claims, and
\* both steps have left their evidence (verifyGitRange, runCi, runIntegrationCi,
\* the exit codes of cli.ts).
SuccessIsEarned ==
    Succeeded =>
        /\ job.event.head.fork >= job.event.target
        /\ job.event.head.verdict = "pass"
        /\ run.result.observed = <<job.event.target, job.event.head.id>>
        /\ run.result.outcome = "compatible"
        /\ job.uploaded = Steps
=============================================================================
