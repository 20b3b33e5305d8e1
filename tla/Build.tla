------------------------------- MODULE Build --------------------------------
(***************************************************************************)
(* One model job: the plan stage, or a build from its preflight to its     *)
(* commit.  A build plans, lets the build agent and the repository's own   *)
(* checks take turns, has the guards probed and the diff reviewed, lets    *)
(* fix rounds answer the findings, and commits what is left: ready, as a   *)
(* draft that says why, or not at all.                                     *)
(*                                                                         *)
(* The agents, the checks, git and the bucket answer as they like.  Time   *)
(* is counted from the start of the stage that pays for it and is only     *)
(* told apart up to that stage's budget.                                   *)
(***************************************************************************)
EXTENDS Integers, Sequences

CONSTANTS Guards,        \* guards a probe can find uncovered
          Remarks,       \* findings a review pass can make
          PlanModels, ReviewModels, BuildModels,  \* how many models each order has
          CheckLoopMaxRounds, MaxFixRounds,
          BuildBudget, ReviewBudget,  \* the stages' shares of the run's time
          AgentTimeout,               \* the configured timeout, 0 when unset
          DefaultAgentTimeout

ASSUME BuildAssumption ==
  /\ Guards \cap Remarks = {}
  /\ {PlanModels, ReviewModels, BuildModels} \subseteq Nat \ {0}
  /\ {CheckLoopMaxRounds, MaxFixRounds} \subseteq Nat \ {0}
  /\ {BuildBudget, ReviewBudget, DefaultAgentTimeout} \subseteq Nat \ {0}
  /\ AgentTimeout \in Nat

VARIABLES job,    \* what the job was started with
          pc,     \* the step it is at
          spent,  \* time since the start of the stage that pays
          call,   \* the agent call under way
          steps,  \* the phase and round of every agent run recorded
          tree,   \* what the worktree holds
          loop,   \* the locals of the check loop and of the review
          sum     \* the summary, and the result the job hands on

vars == <<job, pc, spent, call, steps, tree, loop, sum>>

Findings == Guards \cup Remarks
FormatGates == {"gofmt", "web-fmt-check"}
Points == {"start", "projection", "worktree", "agent-start", "plan", "agent", "planned", "build",
           "built", "checks", "format", "judge", "scan", "review", "reviewed", "fix", "rescan",
           "recheck", "rechecked", "commit", "keep", "ended"}

Jobs ==
  {j \in [stage : {"plan", "build"}, small : BOOLEAN, planned : BOOLEAN, host : BOOLEAN] :
     j.planned => j.stage = "build" /\ ~j.small}

NoCall == [phase |-> "none", kind |-> "none", round |-> 0, model |-> 0, last |-> 0,
           timeout |-> 0, session |-> 0]

(* passed, read and mutant are history: the checks passed on these very files, a clean *)
(* review read them, a probe left a broken guard in them.                              *)
NoChange == [dirty |-> FALSE, committed |-> FALSE, passed |-> FALSE, read |-> FALSE, mutant |-> FALSE]

NoLoop == [n |-> 0, round |-> 0, session |-> 0, formatted |-> {}, gate |-> "none", findings |-> {},
           surviving |-> {}, rounds |-> <<>>]

NoRows == [f \in {} |-> "none"]
NoSummary == [phase |-> "none", outcome |-> "none", reason |-> "none", ready |-> FALSE,
              detail |-> "none", rows |-> NoRows, bundle |-> FALSE, extra |-> FALSE]

Init ==
  /\ job \in Jobs
  /\ pc = "start" /\ spent = 0 /\ call = NoCall /\ steps = {}
  /\ tree = NoChange /\ loop = NoLoop /\ sum = NoSummary

-----------------------------------------------------------------------------
(* Time *)

Least(i, j) == IF i < j THEN i ELSE j

(* The guard scan before the first review pass is still the build stage's. *)
Budget == IF sum.phase = "review" /\ pc # "scan" THEN ReviewBudget ELSE BuildBudget

(* A step no deadline bounds; past the budget, how far past does not matter. *)
Elapse == spent' \in spent..(IF spent < Budget THEN Budget ELSE spent)

effectiveAgentTimeout == IF AgentTimeout = 0 THEN DefaultAgentTimeout ELSE AgentTimeout

InBudget(t, budget) == t < budget

roundTimeout(t, budget) ==
  IF InBudget(t, budget) THEN Least(effectiveAgentTimeout, budget - t) ELSE 0

(* runAgent reads a deadline that is not positive as the default one. *)
Deadline(timeout) == IF timeout <= 0 THEN DefaultAgentTimeout ELSE timeout

-----------------------------------------------------------------------------
(* Endings *)

OutcomeOf(reason) ==
  CASE reason \in {"agent-timeout", "agent-exit", "agent-no-progress"} -> "agent-failed"
    [] reason = "allowance-exhausted" -> "budget-stop"
    [] reason \in {"projection-read", "worktree", "agent-container", "completions-upload",
                   "model-unavailable", "checks-run", "commit", "panic"} -> "infra-failure"
    [] OTHER -> "stopped"

Stop(phase, reason) ==
  /\ sum' = [sum EXCEPT !.phase = phase, !.outcome = OutcomeOf(reason), !.reason = reason]
  /\ pc' = "ended"

keepsWork(reason) == reason \in {"run-budget", "agent-timeout", "agent-no-progress"}

(* Where a failure leads: it ends the plan, it ends the build or goes to keep its work, *)
(* and in the review it makes a draft, unless the formatter left the diff.             *)
(* Variant: every failure of the review ends the job.                                  *)
StopAnyway(reason) == Stop(sum.phase, reason)
Fail(reason) ==
  \/ /\ sum.phase = "review" /\ reason # "formatter-outside-diff"
     /\ sum' = [sum EXCEPT !.phase = "commit", !.ready = FALSE, !.detail = "review"]
     /\ pc' = "commit"
  \/ /\ sum.phase = "build" /\ keepsWork(reason)
     /\ sum' = [sum EXCEPT !.outcome = OutcomeOf(reason), !.reason = reason]
     /\ pc' = "keep"
  \/ /\ ~(sum.phase = "review" /\ reason # "formatter-outside-diff")
     /\ ~(sum.phase = "build" /\ keepsWork(reason))
     /\ Stop(sum.phase, reason)

Enter(phase, point) ==
  /\ sum' = [sum EXCEPT !.phase = phase]
  /\ pc' = point

(* Anything the build calls may panic: the deferred report says so, the locals are gone. *)
Panic ==
  /\ job.stage = "build" /\ pc \notin {"start", "ended"}
  /\ Stop(sum.phase, "panic")
  /\ call' = NoCall /\ loop' = NoLoop
  /\ UNCHANGED <<job, spent, steps, tree>>

-----------------------------------------------------------------------------
(* Preflight *)

NeedsPlan == ~job.small /\ ~job.planned

(* The plan stage's clock starts at its plan, the build's at its first step. *)
Prepare == IF job.stage = "plan" THEN spent' = 0 ELSE Elapse

Preflight ==
  /\ pc = "start"
  /\ \/ \E r \in {"identity-mismatch", "ticket-missing"} : Stop("none", r)
     \/ job.stage = "plan" /\ job.small /\ Stop("none", "plan-invalid")
     \/ ~(job.stage = "plan" /\ job.small) /\ Enter("projection", "projection")
  /\ UNCHANGED <<job, spent, call, steps, tree, loop>>

(* The models, their harnesses and, for a build, its projection. *)
Projection ==
  /\ pc = "projection"
  /\ \/ \E r \in {"model-invalid", "credential-absent"} : Stop("projection", r)
     \/ /\ job.stage = "build"
        /\ \E r \in {"projection-missing", "projection-invalid", "projection-read"} : Stop("projection", r)
     \/ Enter("worktree", "worktree")
  /\ Prepare
  /\ UNCHANGED <<job, call, steps, tree, loop>>

AddWorktree ==
  /\ pc = "worktree"
  /\ \/ Stop("worktree", "worktree")
     \/ /\ ~job.host
        /\ Enter("agent-start", "agent-start")
     \/ /\ job.host
        /\ Enter("worktree", IF NeedsPlan THEN "plan" ELSE "build")
  /\ Prepare
  /\ UNCHANGED <<job, call, steps, tree, loop>>

(* The agent container must start before any agent runs in it. *)
AgentStart ==
  /\ pc = "agent-start"
  /\ \/ Stop("agent-start", "agent-container")
     \/ Enter("agent-start", IF NeedsPlan THEN "plan" ELSE "build")
  /\ Prepare
  /\ UNCHANGED <<job, call, steps, tree, loop>>

-----------------------------------------------------------------------------
(* Agents *)

StartAgent(phase, kind, round, model, last, timeout, session) ==
  /\ call' = [phase |-> phase, kind |-> kind, round |-> round, model |-> model, last |-> last,
              timeout |-> Deadline(timeout), session |-> session]
  /\ pc' = "agent"

(* A build agent may edit, and on the host commit what it edited, even if it then fails. *)
Touched == [tree EXCEPT !.passed = FALSE, !.read = FALSE]
AfterAgent ==
  \/ UNCHANGED tree
  \/ /\ call.phase = "build"
     /\ \E d \in BOOLEAN, c \in BOOLEAN :
          /\ c => job.host
          /\ tree' = [Touched EXCEPT !.dirty = d, !.committed = @ \/ c]

completionsObject(c) == <<c.phase, c.round>>

(* The upload refuses a name that is taken. *)
Recorded ==
  /\ completionsObject(call) \notin steps
  /\ steps' = steps \cup {completionsObject(call)}

After == [plan |-> "planned", correct |-> "planned", build |-> "built", rebuild |-> "checks",
          review |-> "reviewed", fix |-> "checks", recheck |-> "rechecked"]

(* Variant: the round the call was given, before it moved to other models. *)
GivenRound(c)    == c.round - (c.model - 1)
AnsweredRound(c) == c.round

(* The session is the answering model's, and the next rounds count on from its round. *)
(* A review pass starts fresh and hands neither on.                                   *)
AgentAnswers ==
  /\ pc = "agent"
  /\ spent' \in spent..(spent + call.timeout)
  /\ Recorded
  /\ AfterAgent
  /\ loop' = IF call.phase = "review" THEN loop
             ELSE [loop EXCEPT !.round = AnsweredRound(call), !.session = call.model]
  /\ call' = NoCall
  /\ pc' = After[call.kind]
  /\ UNCHANGED <<job, sum>>

(* Variant: the second model gets the deadline the first one had. *)
SameTimeout(t, budget) == call.timeout
NextTimeout(t, budget) == roundTimeout(t, budget)

movesToNextModel == {"model-unavailable", "allowance-exhausted"}

AgentMoves ==
  /\ pc = "agent"
  /\ spent' \in spent..(spent + call.timeout)
  /\ Recorded
  /\ AfterAgent
  /\ call.model < call.last
  /\ \/ /\ InBudget(spent', Budget)
        /\ StartAgent(call.phase, call.kind, call.round + 1, call.model + 1, call.last,
                      NextTimeout(spent', Budget), call.session)
        /\ UNCHANGED sum
     \/ /\ ~InBudget(spent', Budget)
        /\ \E r \in movesToNextModel : Fail(r)
        /\ call' = NoCall
  /\ UNCHANGED <<job, loop>>

AgentFails ==
  /\ pc = "agent"
  /\ Recorded
  /\ AfterAgent
  /\ \/ /\ spent' = spent + call.timeout
        /\ Fail("agent-timeout")
     \/ /\ spent' \in spent..(spent + call.timeout)
        /\ \/ Fail("agent-exit")
           \/ ~job.host /\ Fail("agent-container")
           \/ call.phase = "build" /\ Fail("agent-no-progress")
           \/ call.model = call.last /\ \E r \in movesToNextModel : Fail(r)
  /\ call' = NoCall
  /\ UNCHANGED <<job, loop>>

(* Nothing of the run is recorded: its events could not be stored. *)
UploadFails ==
  /\ pc = "agent"
  /\ spent' \in spent..(spent + call.timeout)
  /\ AfterAgent
  /\ Fail("completions-upload")
  /\ call' = NoCall
  /\ UNCHANGED <<job, steps, loop>>

-----------------------------------------------------------------------------
(* The plan *)

BeginPlan ==
  /\ pc = "plan"
  /\ \/ /\ \E r \in {"projection-missing", "projection-invalid", "projection-read"} : Stop("plan", r)
        /\ UNCHANGED call
     \/ /\ ~InBudget(spent, BuildBudget)
        /\ Stop("plan", "run-budget")
        /\ UNCHANGED call
     \/ /\ InBudget(spent, BuildBudget)
        /\ StartAgent("plan", "plan", 1, 1, PlanModels, roundTimeout(spent, BuildBudget), 0)
        /\ sum' = [sum EXCEPT !.phase = "plan"]
  /\ UNCHANGED <<job, spent, steps, tree, loop>>

Plans(result) ==
  \/ /\ job.stage = "plan"
     /\ sum' = [sum EXCEPT !.outcome = "planned", !.detail = result]
     /\ pc' = "ended"
  \/ /\ job.stage = "build"
     /\ Enter("plan", "build")

(* The model that answered first sits as many places into the order as rounds were added. *)
(* Variants: the correction starts at the head of the order, or one place too far.       *)
HeadOfOrder(round) == 1
OnePlaceOn(round)  == round + 1
CorrectionModel(round) == round

(* Only the plan stage may ask; a question that breaks a bound gets one more round. *)
PlanAnswered ==
  /\ pc = "planned"
  /\ \/ \E r \in {"plan-invalid", "workflow-change"} : Stop("plan", r) /\ UNCHANGED <<call, loop>>
     \/ Plans("files") /\ UNCHANGED <<call, loop>>
     \/ job.stage = "plan" /\ Plans("decision") /\ UNCHANGED <<call, loop>>
     \/ /\ job.stage = "plan" /\ loop.n = 0
        /\ \/ /\ ~InBudget(spent, BuildBudget)
              /\ Stop("plan", "run-budget")
              /\ UNCHANGED <<call, loop>>
           \/ /\ InBudget(spent, BuildBudget)
              /\ StartAgent("plan", "correct", loop.round + 1, CorrectionModel(loop.round), PlanModels,
                            roundTimeout(spent, BuildBudget), loop.session)
              /\ loop' = [loop EXCEPT !.n = 1]
              /\ UNCHANGED sum
  /\ UNCHANGED <<job, spent, steps, tree>>

-----------------------------------------------------------------------------
(* The check loop *)

BeginBuild ==
  /\ pc = "build"
  /\ \/ /\ ~InBudget(spent, BuildBudget)
        /\ sum' = [sum EXCEPT !.phase = "build", !.outcome = OutcomeOf("run-budget"), !.reason = "run-budget"]
        /\ pc' = "keep"
        /\ UNCHANGED call
     \/ /\ InBudget(spent, BuildBudget)
        /\ StartAgent("build", "build", 1, 1, BuildModels, roundTimeout(spent, BuildBudget), 0)
        /\ sum' = [sum EXCEPT !.phase = "build"]
  /\ UNCHANGED <<job, spent, steps, tree, loop>>

(* A worktree with nothing uncommitted skips the checks and the review. *)
Built ==
  /\ pc = "built"
  /\ \/ Fail("checks-run") /\ UNCHANGED loop
     \/ /\ ~tree.dirty
        /\ Enter("commit", "commit")
        /\ UNCHANGED loop
     \/ /\ tree.dirty
        /\ pc' = "checks"
        /\ loop' = [loop EXCEPT !.n = 1]
        /\ UNCHANGED sum
  /\ UNCHANGED <<job, spent, call, steps, tree>>

RunChecks ==
  /\ pc = "checks"
  /\ Elapse
  /\ \/ Fail("checks-run") /\ UNCHANGED <<loop, tree>>
     \/ \E gate \in FormatGates \cup {"none", "test"} :
          /\ loop' = [loop EXCEPT !.gate = gate,
                                  !.formatted = IF gate \in FormatGates \ @ THEN @ ELSE {}]
          /\ tree' = [tree EXCEPT !.passed = (gate = "none")]
          /\ pc' = IF gate \in FormatGates \ loop.formatted THEN "format"
                   ELSE IF sum.phase = "review" THEN "rescan" ELSE "judge"
          /\ UNCHANGED sum
  /\ UNCHANGED <<job, call, steps>>

(* A formatter may only rewrite what the run already changed. *)
FormatInPlace ==
  /\ pc = "format"
  /\ Elapse
  /\ tree' \in {tree, Touched}
  /\ \/ \E r \in {"checks-run", "formatter-outside-diff"} : Fail(r) /\ UNCHANGED loop
     \/ /\ pc' = "checks"
        /\ loop' = [loop EXCEPT !.formatted = @ \cup {loop.gate}]
        /\ UNCHANGED sum
  /\ UNCHANGED <<job, call, steps>>

(* Variant: a pass too many. *)
OnePassMore(n)   == n > CheckLoopMaxRounds
LastPass(n)      == n >= CheckLoopMaxRounds

Judge ==
  /\ pc = "judge"
  /\ \/ /\ loop.gate = "none"
        /\ Enter("review", "scan")
        /\ UNCHANGED <<call, loop>>
     \/ /\ loop.gate # "none" /\ (LastPass(loop.n) \/ ~InBudget(spent, BuildBudget))
        /\ sum' = [sum EXCEPT !.phase = "commit", !.detail = "checks"]
        /\ pc' = "commit"
        /\ UNCHANGED <<call, loop>>
     \/ /\ loop.gate # "none" /\ ~LastPass(loop.n) /\ InBudget(spent, BuildBudget)
        /\ StartAgent("build", "rebuild", loop.round + 1, 1, BuildModels,
                      roundTimeout(spent, BuildBudget), loop.session)
        /\ loop' = [loop EXCEPT !.n = @ + 1]
        /\ UNCHANGED sum
  /\ UNCHANGED <<job, spent, steps, tree>>

-----------------------------------------------------------------------------
(* The review *)

(* Each probe breaks a guard, runs its package's tests and puts the file back.  A write *)
(* that fails may leave the break behind.                                              *)
ScanGuards(next, budget) ==
  \/ /\ \E m \in BOOLEAN : tree' = IF m THEN [Touched EXCEPT !.mutant = TRUE] ELSE tree
     /\ InBudget(spent, budget)
     /\ Elapse
     /\ Fail("checks-run")
     /\ UNCHANGED loop
  \/ /\ Fail("checks-run")
     /\ UNCHANGED <<spent, tree, loop>>
  \/ /\ \E g \in SUBSET Guards :
          /\ InBudget(spent, budget) \/ g = {}
          /\ loop' = [loop EXCEPT !.surviving = g]
     /\ next
     /\ UNCHANGED <<tree, sum>>

(* The first scan is the build's to pay; the review's own time starts after it. *)
ScanDiff ==
  /\ pc = "scan"
  /\ ScanGuards(spent' = 0 /\ pc' = "review", BuildBudget)
  /\ UNCHANGED <<job, call, steps>>

BeginReview ==
  /\ pc = "review"
  /\ \/ Fail("checks-run") /\ UNCHANGED call
     \/ /\ StartAgent("review", "review", 1, 1, ReviewModels, Least(effectiveAgentTimeout, ReviewBudget), 0)
        /\ UNCHANGED sum
  /\ UNCHANGED <<job, spent, steps, tree, loop>>

(* A clean pass leaves the run ready; findings start the fix rounds. *)
Reviewed ==
  /\ pc = "reviewed"
  /\ \/ Fail("review-invalid") /\ UNCHANGED <<tree, loop>>
     \/ \E remarks \in SUBSET Remarks :
          LET pending == loop.surviving \cup remarks IN
          \/ /\ pending = {}
             /\ sum' = [sum EXCEPT !.phase = "commit", !.ready = TRUE]
             /\ pc' = "commit"
             /\ tree' = [tree EXCEPT !.read = TRUE]
             /\ UNCHANGED loop
          \/ /\ pending # {}
             /\ loop' = [loop EXCEPT !.findings = pending, !.n = 1]
             /\ pc' = "fix"
             /\ UNCHANGED <<sum, tree>>
  /\ UNCHANGED <<job, spent, call, steps>>

(* How the round that was given f left it. *)
findingResolution(f, r, rounds, last) ==
  LET reworded == \E o \in r.open : o \notin Guards IN
  IF f \in r.open
  THEN IF r.rechecked /\ last /\ Len(rounds) > 1 THEN "still open after" ELSE "still open"
  ELSE IF ~r.rechecked THEN "addressed"
  ELSE IF f \notin Guards /\ reworded THEN "reworded" ELSE "fixed"

(* Variant: only what a fix round was given is listed. *)
IssuedRows(rounds) ==
  LET given == UNION {rounds[i].issued : i \in DOMAIN rounds} IN
  [f \in given |->
     LET i == CHOOSE i \in DOMAIN rounds :
                /\ f \in rounds[i].issued
                /\ \A j \in DOMAIN rounds : f \in rounds[j].issued => j <= i
     IN  findingResolution(f, rounds[i], rounds, i = Len(rounds))]

(* Every finding a fix round was given, as the last round that had it left it, and what *)
(* the re-checks reported that no round was given.                                      *)
reviewRows(rounds) ==
  LET given == IssuedRows(rounds)
      new   == (UNION {rounds[i].open : i \in DOMAIN rounds}) \ DOMAIN given IN
  [f \in DOMAIN given \cup new |->
     IF f \in DOMAIN given THEN given[f]
     ELSE IF Len(rounds) > 1 THEN "still open after" ELSE "still open"]

resolveFindings(pending) == [f \in pending |-> "still open"]

Published(rounds) == IF rounds = <<>> THEN resolveFindings(loop.findings) ELSE reviewRows(rounds)

Draft(rounds, detail) ==
  /\ sum' = [sum EXCEPT !.phase = "commit", !.detail = detail, !.rows = Published(rounds)]
  /\ pc' = "commit"

BeginFix ==
  /\ pc = "fix"
  /\ \/ /\ ~InBudget(spent, ReviewBudget)
        /\ Draft(loop.rounds, "findings")
        /\ UNCHANGED call
     \/ /\ InBudget(spent, ReviewBudget)
        /\ StartAgent("build", "fix", loop.round + 1, 1, BuildModels,
                      roundTimeout(spent, ReviewBudget), loop.session)
        /\ UNCHANGED sum
  /\ UNCHANGED <<job, spent, steps, tree, loop>>

RescanGuards ==
  /\ pc = "rescan"
  /\ ScanGuards(Elapse /\ pc' = "recheck", ReviewBudget)
  /\ UNCHANGED <<job, call, steps>>

(* The re-check is numbered as the fix round it follows. *)
Recheck ==
  /\ pc = "recheck"
  /\ LET unchecked == [issued |-> loop.findings, open |-> {}, rechecked |-> FALSE] IN
     \/ /\ ~InBudget(spent, ReviewBudget)
        /\ Draft(Append(loop.rounds, unchecked), "findings")
        /\ loop' = [loop EXCEPT !.rounds = Append(@, unchecked)]
        /\ UNCHANGED call
     \/ /\ InBudget(spent, ReviewBudget)
        /\ Fail("checks-run")
        /\ UNCHANGED <<call, loop>>
     \/ /\ InBudget(spent, ReviewBudget)
        /\ StartAgent("review", "recheck", loop.round, 1, ReviewModels,
                      roundTimeout(spent, ReviewBudget), 0)
        /\ UNCHANGED <<sum, loop>>
  /\ UNCHANGED <<job, spent, steps, tree>>

(* What a gate the fix round broke is recorded as. *)
checksDetail(gate) == IF gate = "none" THEN "none" ELSE "checks"

(* Variant: the checks that ran after the fix round are forgotten. *)
CleanRecheck(gate)  == TRUE
ReadyAfterFix(gate) == gate = "none"

Rechecked ==
  /\ pc = "rechecked"
  /\ \/ Fail("review-invalid") /\ UNCHANGED <<tree, loop>>
     \/ \E remarks \in SUBSET Remarks :
          LET open   == loop.surviving \cup remarks
              rounds == Append(loop.rounds, [issued |-> loop.findings, open |-> open, rechecked |-> TRUE]) IN
          \/ /\ open = {}
             /\ sum' = [sum EXCEPT !.phase = "commit", !.rows = reviewRows(rounds),
                                   !.ready = ReadyAfterFix(loop.gate),
                                   !.detail = checksDetail(loop.gate)]
             /\ pc' = "commit"
             /\ tree' = [tree EXCEPT !.read = TRUE]
             /\ loop' = [loop EXCEPT !.rounds = rounds]
          \/ /\ open # {} /\ loop.n < MaxFixRounds
             /\ loop' = [loop EXCEPT !.rounds = rounds, !.findings = open, !.n = @ + 1]
             /\ pc' = "fix"
             /\ UNCHANGED <<sum, tree>>
          \/ /\ open # {} /\ loop.n >= MaxFixRounds
             /\ Draft(rounds, "findings")
             /\ loop' = [loop EXCEPT !.rounds = rounds]
             /\ UNCHANGED tree
  /\ UNCHANGED <<job, spent, call, steps>>

-----------------------------------------------------------------------------
(* The commit *)

Pending == tree.dirty \/ tree.committed

CommitStops == {"git-tampered", "head-moved", "commit"}

(* commitWork: nothing to commit, or a commit with files outside the plan or not, under *)
(* .github/workflows or not, that may still stop on a secret or on git.                 *)
CommitFails ==
  /\ pc \in {"commit", "keep"}
  /\ pc = "keep" => Pending
  /\ \/ \E r \in CommitStops : Stop("commit", r)
     \/ /\ Pending
        /\ Stop("commit", "secret-in-branch")
  /\ UNCHANGED <<job, spent, call, steps, tree, loop>>

CommitWork ==
  /\ pc = "commit"
  /\ pc' = "ended"
  /\ \/ /\ ~Pending
        /\ sum' = [sum EXCEPT !.outcome = "no-changes"]
     \/ /\ Pending
        /\ \E extra \in (IF job.small THEN {FALSE} ELSE BOOLEAN), workflow \in BOOLEAN :
             sum' = [sum EXCEPT !.outcome = IF workflow THEN "stopped" ELSE "built",
                                !.reason  = IF workflow THEN "workflow-change" ELSE "none",
                                !.ready   = sum.ready /\ ~extra /\ ~workflow,
                                !.extra   = extra, !.bundle = TRUE]
  /\ UNCHANGED <<job, spent, call, steps, tree, loop>>

(* A build that ran out of time or of progress keeps what it edited, as a draft under *)
(* its own stop; one that cannot be kept just stops.                                  *)
KeepWork ==
  /\ pc = "keep"
  /\ pc' = "ended"
  /\ \/ UNCHANGED sum
     \/ /\ Pending
        /\ \E extra \in (IF job.small THEN {FALSE} ELSE BOOLEAN) :
             sum' = [sum EXCEPT !.detail = "kept", !.extra = extra, !.bundle = TRUE]
     \/ /\ Pending
        /\ sum' = [sum EXCEPT !.phase = "commit", !.outcome = "stopped", !.reason = "workflow-change",
                              !.bundle = TRUE]
  /\ UNCHANGED <<job, spent, call, steps, tree, loop>>

-----------------------------------------------------------------------------

Next ==
  \/ Preflight \/ Projection \/ AddWorktree \/ AgentStart
  \/ AgentAnswers \/ AgentMoves \/ AgentFails \/ UploadFails
  \/ BeginPlan \/ PlanAnswered
  \/ BeginBuild \/ Built \/ RunChecks \/ FormatInPlace \/ Judge
  \/ ScanDiff \/ BeginReview \/ Reviewed
  \/ BeginFix \/ RescanGuards \/ Recheck \/ Rechecked
  \/ CommitFails \/ CommitWork \/ KeepWork
  \/ Panic

Spec == Init /\ [][Next]_vars
-----------------------------------------------------------------------------
(* What the record job accepts *)

(* buildEndings: what a build may report, by the phase it ended in. *)
AgentEndings == {<<"infra-failure", "completions-upload">>, <<"infra-failure", "agent-container">>,
                 <<"agent-failed", "agent-timeout">>, <<"agent-failed", "agent-exit">>,
                 <<"budget-stop", "allowance-exhausted">>, <<"infra-failure", "model-unavailable">>,
                 <<"stopped", "run-budget">>}
ProjectionEndings == {<<"stopped", "projection-missing">>, <<"stopped", "projection-invalid">>,
                      <<"infra-failure", "projection-read">>}
buildEndings(phase) ==
  CASE phase = "none" -> {<<"infra-failure", "setup">>, <<"stopped", "identity-mismatch">>,
                          <<"stopped", "ticket-missing">>, <<"stopped", "ticket-not-delivered">>}
    [] phase = "projection" -> ProjectionEndings \cup
                  {<<"stopped", "model-invalid">>, <<"stopped", "credential-absent">>,
                   <<"infra-failure", "panic">>}
    [] phase = "worktree" -> {<<"infra-failure", "worktree">>, <<"infra-failure", "panic">>}
    [] phase = "agent-start" -> {<<"infra-failure", "agent-container">>, <<"infra-failure", "panic">>}
    [] phase = "plan" -> ProjectionEndings \cup AgentEndings \cup
                  {<<"stopped", "plan-invalid">>, <<"stopped", "workflow-change">>,
                   <<"infra-failure", "panic">>}
    [] phase = "build" -> AgentEndings \cup
                  {<<"agent-failed", "agent-no-progress">>, <<"infra-failure", "checks-run">>,
                   <<"stopped", "formatter-outside-diff">>, <<"infra-failure", "panic">>}
    [] phase = "review" -> {<<"stopped", "formatter-outside-diff">>, <<"infra-failure", "panic">>}
    [] phase = "commit" -> {<<"stopped", "git-tampered">>, <<"stopped", "head-moved">>,
                   <<"infra-failure", "commit">>, <<"stopped", "secret-in-branch">>,
                   <<"stopped", "workflow-change">>, <<"no-changes", "none">>, <<"built", "none">>,
                   <<"infra-failure", "panic">>}

hasStep(phase) == \E s \in steps : s[1] = phase

(* Summary.validate: a known ending, and an agent's step where its phase must have one. *)
ValidSummary ==
  /\ <<sum.outcome, sum.reason>> \in buildEndings(sum.phase)
  /\ (sum.phase = "commit" \/ sum.outcome \in {"agent-failed", "budget-stop"})
       => hasStep(IF sum.phase = "commit" THEN "build" ELSE sum.phase)

-----------------------------------------------------------------------------
(* Properties *)

(* What the job's variables hold; the model an agent runs on is one of its order. *)
TypeOK ==
  /\ job \in Jobs
  /\ pc \in Points
  /\ spent \in Nat
  /\ call.phase \in {"none", "plan", "build", "review"}
  /\ {call.round, call.model, call.last, call.timeout, call.session, loop.n, loop.round, loop.session} \subseteq Nat
  /\ pc = "agent" => call.model \in 1..call.last /\ call.kind \in DOMAIN After
  /\ \A s \in steps : s[1] \in {"plan", "build", "review"} /\ s[2] \in Nat
  /\ tree \in [dirty : BOOLEAN, committed : BOOLEAN, passed : BOOLEAN, read : BOOLEAN, mutant : BOOLEAN]
  /\ loop.formatted \subseteq FormatGates /\ loop.findings \subseteq Findings
  /\ loop.surviving \subseteq Guards
  /\ sum.ready \in BOOLEAN /\ sum.bundle \in BOOLEAN /\ sum.extra \in BOOLEAN

(* A branch handed on as ready was built to the end, its files passed the checks and a  *)
(* clean review read them as they are, no broken guard is left in them, and none of     *)
(* them is outside the plan: the summary's Ready in Build, runReview and commitWork.    *)
ReadyIsEarned ==
  pc = "ended" /\ sum.bundle /\ sum.ready =>
    /\ sum.outcome = "built" /\ ~sum.extra
    /\ tree.passed /\ tree.read /\ ~tree.mutant

(* Every ending a build can come to is one the record job accepts: Build's returns      *)
(* against buildEndings and Summary.validate.                                           *)
EndingIsAccepted == pc = "ended" /\ job.stage = "build" => ValidSummary

(* No agent is given more time than the stage that pays for it has left, however often  *)
(* its phase moved to another model: roundTimeout and runAgentInOrder.                  *)
AgentFitsItsStage == pc = "agent" => spent + call.timeout <= Budget

(* A plan or build agent never runs under a round that already has its record.          *)
BuildRoundsAreFresh == pc = "agent" /\ call.phase # "review" => completionsObject(call) \notin steps

(* The build agent runs at most once per model in each check pass and each fix round.   *)
RoundsAreBounded ==
  pc = "agent" /\ call.phase = "build" => call.round <= (CheckLoopMaxRounds + MaxFixRounds) * BuildModels

(* A correction goes first to the model whose session it continues: runPlanPhase.       *)
CorrectionKeepsItsModel ==
  pc = "agent" /\ call.kind = "correct" /\ call.round = loop.round + 1 => call.model = call.session

(* The rows the PR publishes leave out nothing the last re-check reported, and a ready  *)
(* PR publishes no finding as open: reviewRows and runReview.                           *)
RowsAccountForFindings ==
  pc = "ended" /\ sum.rows # NoRows =>
    /\ loop.rounds # <<>> => loop.rounds[Len(loop.rounds)].open \subseteq DOMAIN sum.rows
    /\ sum.ready => \A f \in DOMAIN sum.rows : sum.rows[f] \notin {"still open", "still open after"}

(* No agent runs under a round that already has its record: runAgentInOrder reports its *)
(* last round so that a caller continues from there rather than reusing one.            *)
RoundsAreFresh == pc = "agent" => completionsObject(call) \notin steps
=============================================================================
