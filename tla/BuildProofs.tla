---------------------------- MODULE BuildProofs -----------------------------
(***************************************************************************)
(* Theorems about Build, for any models, budgets, rounds and findings.     *)
(***************************************************************************)
EXTENDS Build, WellFoundedInduction, TLAPS

Phases == {"none", "projection", "worktree", "agent-start", "plan", "build", "review", "commit"}
Outcomes == {"none", "planned", "no-changes", "built", "stopped", "agent-failed", "budget-stop", "infra-failure"}
Reasons == {"none", "identity-mismatch", "ticket-missing", "plan-invalid", "model-invalid", "credential-absent",
            "projection-missing", "projection-invalid", "projection-read", "worktree", "agent-container",
            "agent-timeout", "agent-exit", "agent-no-progress", "allowance-exhausted", "model-unavailable",
            "completions-upload", "run-budget", "workflow-change", "checks-run", "formatter-outside-diff",
            "review-invalid", "git-tampered", "head-moved", "commit", "secret-in-branch", "panic"}
Details == {"none", "files", "decision", "checks", "review", "findings", "kept"}
Gates == FormatGates \cup {"none", "test"}
Kinds == {"plan", "correct", "build", "rebuild", "review", "fix", "recheck"}
Resolutions == {"still open", "still open after", "addressed", "reworded", "fixed"}
Rows == UNION {[D -> Resolutions] : D \in SUBSET Findings}
FixRound == [issued : SUBSET Findings, open : SUBSET Findings, rechecked : BOOLEAN]

Calls == [phase : {"none", "plan", "build", "review"}, kind : {"none"} \cup Kinds, round : Nat,
          model : Nat, last : Nat, timeout : Nat, session : Nat]
Trees == [dirty : BOOLEAN, committed : BOOLEAN, passed : BOOLEAN, read : BOOLEAN, mutant : BOOLEAN]
Loops == [n : Nat, round : Nat, session : Nat, formatted : SUBSET FormatGates, gate : Gates,
          findings : SUBSET Findings, surviving : SUBSET Guards, rounds : Seq(FixRound)]
Sums  == [phase : Phases, outcome : Outcomes, reason : Reasons, ready : BOOLEAN, detail : Details,
          rows : Rows, bundle : BOOLEAN, extra : BOOLEAN]

Types ==
  /\ job \in Jobs
  /\ pc \in Points
  /\ spent \in Nat
  /\ call \in Calls
  /\ steps \subseteq {"plan", "build", "review"} \X Nat
  /\ tree \in Trees
  /\ loop \in Loops
  /\ sum \in Sums

(* The points of the plan, of the build and of the review. *)
Before     == {"start", "projection", "worktree", "agent-start", "plan"}
BuildSteps == {"built", "judge"}
ReviewSteps == {"scan", "review", "reviewed", "fix", "rescan", "recheck", "rechecked"}
Resting    == {"commit", "keep", "ended"}

(* The summary's phase is the review exactly at the review's points. *)
PhaseFits ==
  /\ pc \in ReviewSteps => sum.phase = "review"
  /\ pc \in Before \cup {"planned", "build", "built", "judge"} => sum.phase # "review"
  /\ pc = "agent" =>
       /\ call.kind \in Kinds
       /\ call.kind \in {"review", "recheck"} <=> call.phase = "review"
       /\ call.kind \in {"plan", "correct"} <=> call.phase = "plan"
       /\ call.phase # "none"
       /\ call.kind \in {"review", "fix", "recheck"} <=> sum.phase = "review"
       /\ call.model \in 1..call.last
  /\ pc = "review" => spent = 0
  /\ pc = "format" => loop.gate \in FormatGates

(* Only the end of a job is ready, and only then is there a bundle. *)
ReadyFits ==
  /\ sum.ready => pc \in {"commit", "ended"} /\ tree.passed /\ tree.read /\ ~tree.mutant
  /\ pc # "ended" => ~sum.bundle
  /\ tree.mutant => pc \in {"commit", "ended"}
  /\ pc \in {"scan", "review", "reviewed"} => tree.passed
  /\ pc = "agent" /\ call.kind = "review" => tree.passed
  /\ pc \in {"judge", "rescan", "recheck", "rechecked"} /\ loop.gate = "none" => tree.passed
  /\ pc = "agent" /\ call.kind = "recheck" /\ loop.gate = "none" => tree.passed

(* No agent run of this phase is recorded past this round. *)
UpTo(phase, round) == \A s \in steps : s[1] = phase => s[2] <= round

(* What is recorded of a phase never passes the round its next agent counts on from. *)
RoundsFit ==
  /\ pc \in Before => steps = {}
  /\ pc \in {"planned", "build"} => UpTo("build", 0)
  /\ pc = "planned" => UpTo("plan", loop.round)
  /\ pc \in BuildSteps \cup {"checks", "format"} \cup ReviewSteps => UpTo("build", loop.round)
  /\ pc = "agent" =>
       /\ call.phase = "plan" => UpTo("build", 0)
       /\ call.phase = "review" => UpTo("build", loop.round)
       /\ call.phase # "review" => UpTo(call.phase, call.round - 1)

(* The plan's first order starts at round 1, so rounds and places in it agree. *)
PlanFits ==
  /\ pc \in Before => loop.n = 0
  /\ pc = "agent" /\ call.kind = "plan" =>
       loop.n = 0 /\ call.round = call.model /\ call.last = PlanModels
  /\ pc = "planned" /\ loop.n = 0 => loop.round \in 1..PlanModels /\ loop.session = loop.round
  /\ pc = "agent" /\ call.kind = "correct" => call.round > loop.round /\ loop.n # 0

IInv ==
  /\ Types
  /\ PhaseFits
  /\ ReadyFits
  /\ ReadyIsEarned
  /\ RoundsFit
  /\ PlanFits
  /\ AgentFitsItsStage
  /\ CorrectionKeepsItsModel

(* The invariant holds the type invariant the runs check. *)
LEMMA TypesGiveTypeOK == IInv => TypeOK
  BY DEF IInv, Types, PhaseFits, TypeOK, Calls, Trees, Loops, Sums, Kinds, After
-----------------------------------------------------------------------------
(* A job that has not begun satisfies the invariant. *)
LEMMA InitInv == Init => IInv
<1> SUFFICES ASSUME Init PROVE IInv OBVIOUS
<1>1. Types
  <2>1. NoRows \in Rows
    BY DEF NoRows, Rows
  <2>2. sum \in Sums
    BY <2>1 DEF Init, NoSummary, Sums, Phases, Outcomes, Reasons, Details
  <2>3. loop \in Loops
    BY DEF Init, NoLoop, Loops, Gates
  <2>4. call \in Calls /\ tree \in Trees
    BY DEF Init, NoCall, Calls, NoChange, Trees
  <2> QED BY <2>2, <2>3, <2>4 DEF Init, Types, Points
<1>2. PhaseFits
  BY DEF Init, PhaseFits, ReviewSteps, NoSummary
<1>3. ReadyFits /\ ReadyIsEarned
  BY DEF Init, ReadyFits, ReadyIsEarned, NoSummary, NoChange
<1>4. RoundsFit /\ PlanFits
  BY DEF Init, RoundsFit, PlanFits, Before, BuildSteps, ReviewSteps, NoLoop
<1>5. AgentFitsItsStage /\ CorrectionKeepsItsModel
  BY DEF Init, AgentFitsItsStage, CorrectionKeepsItsModel
<1> QED BY <1>1, <1>2, <1>3, <1>4, <1>5 DEF IInv

(* A step to the end of a job, or to its commit, owes little. *)
LEMMA Rest ==
  ASSUME Types', pc' \in Resting, ~sum'.ready, ~sum'.bundle,
         tree'.mutant => pc' \in {"commit", "ended"}
  PROVE  IInv'
<1>1. PhaseFits'
  BY DEF PhaseFits, Resting, ReviewSteps, Before
<1>2. ReadyFits' /\ ReadyIsEarned'
  BY DEF ReadyFits, ReadyIsEarned, Resting
<1>3. RoundsFit' /\ PlanFits'
  BY DEF RoundsFit, PlanFits, Resting, ReviewSteps, Before, BuildSteps
<1>4. AgentFitsItsStage' /\ CorrectionKeepsItsModel'
  BY DEF AgentFitsItsStage, CorrectionKeepsItsModel, Resting
<1> QED BY <1>1, <1>2, <1>3, <1>4 DEF IInv

(* Every reason has an outcome the summary knows. *)
LEMMA OutcomeIs == ASSUME NEW r PROVE OutcomeOf(r) \in Outcomes
  BY DEF OutcomeOf, Outcomes

(* Stopping ends the job and leaves ready and the bundle alone. *)
LEMMA StopIs ==
  ASSUME sum \in Sums, NEW phase \in Phases, NEW r \in Reasons, Stop(phase, r)
  PROVE  /\ sum' \in Sums /\ pc' = "ended"
         /\ sum'.ready = sum.ready /\ sum'.bundle = sum.bundle
  BY OutcomeIs DEF Stop, Sums

(* A failure leads to the commit, to the kept work or to the end, never to ready. *)
LEMMA FailIs ==
  ASSUME sum \in Sums, NEW r \in Reasons, Fail(r)
  PROVE  /\ sum' \in Sums /\ pc' \in Resting
         /\ sum'.ready => sum.ready
         /\ sum'.bundle = sum.bundle
         /\ sum.phase = "review" => pc' \in {"commit", "ended"}
<1>1. CASE sum.phase = "review" /\ r # "formatter-outside-diff"
  BY <1>1 DEF Fail, Stop, Sums, Resting, Phases, Details
<1>2. CASE sum.phase = "build" /\ keepsWork(r)
  <2>1. sum' = [sum EXCEPT !.outcome = OutcomeOf(r), !.reason = r] /\ pc' = "keep"
    BY <1>2 DEF Fail
  <2> QED BY <1>2, <2>1, OutcomeIs DEF Sums, Resting
<1>3. CASE ~(sum.phase = "review" /\ r # "formatter-outside-diff") /\ ~(sum.phase = "build" /\ keepsWork(r))
  <2>1. Stop(sum.phase, r)
    BY <1>3 DEF Fail
  <2> QED BY <2>1, StopIs DEF Sums, Resting
<1> QED BY <1>1, <1>2, <1>3

(* A failure away from the commit. *)
LEMMA FailInv ==
  ASSUME IInv, NEW r \in Reasons, Fail(r), pc \notin Resting, job' = job,
         spent' \in Nat, call' \in Calls, steps' \subseteq {"plan", "build", "review"} \X Nat,
         tree' \in Trees, loop' \in Loops, tree'.mutant => sum.phase = "review"
  PROVE  IInv'
<1>1. /\ sum' \in Sums /\ pc' \in Resting
      /\ sum'.ready => sum.ready
      /\ sum'.bundle = sum.bundle
      /\ sum.phase = "review" => pc' \in {"commit", "ended"}
  BY FailIs DEF IInv, Types
<1>2. ~sum.ready /\ ~sum.bundle
  BY DEF IInv, ReadyFits, Resting
<1>3. Types'
  BY <1>1 DEF IInv, Types, Resting, Points
<1> QED BY <1>1, <1>2, <1>3, Rest

(* Stopping a job that is not ready keeps the invariant. *)
LEMMA StopInv ==
  ASSUME IInv, NEW r \in Reasons, NEW phase \in Phases, Stop(phase, r), ~sum.ready, pc # "ended",
         job' = job, spent' \in Nat, call' \in Calls, loop' \in Loops, UNCHANGED <<steps, tree>>
  PROVE  IInv'
<1>1. /\ sum' \in Sums /\ pc' = "ended" /\ sum'.ready = sum.ready /\ sum'.bundle = sum.bundle
  BY StopIs DEF IInv, Types
<1>2. ~sum.bundle
  BY DEF IInv, ReadyFits
<1>3. Types'
  BY <1>1 DEF IInv, Types, Points
<1> QED BY <1>1, <1>2, <1>3, Rest DEF Resting

(* Entering a phase changes only the summary's phase. *)
LEMMA EnterIs ==
  ASSUME sum \in Sums, NEW phase \in Phases, NEW point, Enter(phase, point)
  PROVE  /\ sum' \in Sums /\ pc' = point /\ sum'.phase = phase
         /\ sum'.ready = sum.ready /\ sum'.bundle = sum.bundle
  BY DEF Enter, Sums

(* Whichever stage pays, its budget is a number. *)
LEMMA BudgetIs == Budget \in Nat
  BY BuildAssumption DEF Budget

(* Time that passes stays a number. *)
LEMMA ElapseIs == ASSUME spent \in Nat, Elapse PROVE spent' \in Nat
  BY BudgetIs DEF Elapse

(* So does the time of the steps before an agent. *)
LEMMA PrepareIs == ASSUME spent \in Nat, Prepare PROVE spent' \in Nat
  BY ElapseIs DEF Prepare

(* The deadline of a round its stage has time for ends within the stage. *)
LEMMA DeadlineFits ==
  ASSUME NEW t \in Nat, NEW budget \in Nat, InBudget(t, budget)
  PROVE  /\ Deadline(roundTimeout(t, budget)) \in Nat
         /\ t + Deadline(roundTimeout(t, budget)) <= budget
  BY BuildAssumption DEF InBudget, roundTimeout, Deadline, Least, effectiveAgentTimeout

-----------------------------------------------------------------------------
(* One lemma per action *)

(* A step of the preflight that goes on. *)
LEMMA ForwardInv ==
  ASSUME IInv, pc \in Before, pc' \in Before \cup {"build"}, sum' \in Sums, sum'.phase # "review",
         sum'.ready = sum.ready, sum'.bundle = sum.bundle, spent' \in Nat,
         UNCHANGED <<job, call, steps, tree, loop>>
  PROVE  IInv'
<1>1. ~sum.ready /\ ~sum.bundle /\ ~tree.mutant
  BY DEF IInv, ReadyFits, Before
<1>2. Types'
  BY DEF IInv, Types, Before, Points
<1>3. PhaseFits'
  BY DEF PhaseFits, Before, ReviewSteps
<1>4. ReadyFits' /\ ReadyIsEarned'
  BY <1>1 DEF ReadyFits, ReadyIsEarned, Before
<1>5. RoundsFit' /\ PlanFits'
  BY DEF IInv, RoundsFit, PlanFits, Before, BuildSteps, ReviewSteps, UpTo
<1>6. AgentFitsItsStage' /\ CorrectionKeepsItsModel'
  BY DEF AgentFitsItsStage, CorrectionKeepsItsModel, Before
<1> QED BY <1>2, <1>3, <1>4, <1>5, <1>6 DEF IInv

(* A stop of the preflight or of the plan. *)
LEMMA EarlyStopInv ==
  ASSUME IInv, pc \in Before \cup {"planned"}, NEW r \in Reasons, NEW phase \in Phases, Stop(phase, r),
         spent' \in Nat, UNCHANGED <<job, call, steps, tree, loop>>
  PROVE  IInv'
<1>1. ~sum.ready /\ pc # "ended" /\ call' \in Calls /\ loop' \in Loops
  BY DEF IInv, Types, ReadyFits, Before
<1> QED BY <1>1, StopInv

(* Preflight stops the job or goes on to the projection. *)
LEMMA PreflightInv == ASSUME IInv, Preflight PROVE IInv'
<1> USE DEF Preflight
<1>1. pc \in Before /\ sum \in Sums /\ spent' \in Nat /\ UNCHANGED <<job, call, steps, tree, loop>>
  BY DEF IInv, Types, Before
<1>2. ASSUME NEW r \in {"identity-mismatch", "ticket-missing", "plan-invalid"}, Stop("none", r) PROVE IInv'
  BY <1>1, <1>2, EarlyStopInv DEF Reasons, Phases
<1>3. CASE Enter("projection", "projection")
  BY <1>1, <1>3, EnterIs, ForwardInv DEF Phases, Before
<1> QED BY <1>2, <1>3

(* So does the projection, which goes on to the worktree. *)
LEMMA ProjectionInv == ASSUME IInv, Projection PROVE IInv'
<1> USE DEF Projection
<1>1. pc \in Before /\ sum \in Sums /\ spent' \in Nat /\ UNCHANGED <<job, call, steps, tree, loop>>
  BY PrepareIs DEF IInv, Types, Before
<1>2. ASSUME NEW r \in {"model-invalid", "credential-absent", "projection-missing", "projection-invalid", "projection-read"},
             Stop("projection", r) PROVE IInv'
  BY <1>1, <1>2, EarlyStopInv DEF Reasons, Phases
<1>3. CASE Enter("worktree", "worktree")
  BY <1>1, <1>3, EnterIs, ForwardInv DEF Phases, Before
<1> QED BY <1>2, <1>3

(* The worktree is added, or the job stops. *)
LEMMA AddWorktreeInv == ASSUME IInv, AddWorktree PROVE IInv'
<1> USE DEF AddWorktree
<1>1. pc \in Before /\ sum \in Sums /\ spent' \in Nat /\ UNCHANGED <<job, call, steps, tree, loop>>
  BY PrepareIs DEF IInv, Types, Before
<1>2. CASE Stop("worktree", "worktree")
  BY <1>1, <1>2, EarlyStopInv DEF Reasons, Phases
<1>3. ASSUME NEW phase \in {"agent-start", "worktree"}, NEW point \in {"agent-start", "plan", "build"},
             Enter(phase, point) PROVE IInv'
  BY <1>1, <1>3, EnterIs, ForwardInv DEF Phases, Before
<1> QED BY <1>2, <1>3

(* The agent's container starts, or the job stops. *)
LEMMA AgentStartInv == ASSUME IInv, AgentStart PROVE IInv'
<1> USE DEF AgentStart
<1>1. pc \in Before /\ sum \in Sums /\ spent' \in Nat /\ UNCHANGED <<job, call, steps, tree, loop>>
  BY PrepareIs DEF IInv, Types, Before
<1>2. CASE Stop("agent-start", "agent-container")
  BY <1>1, <1>2, EarlyStopInv DEF Reasons, Phases
<1>3. ASSUME NEW point \in {"plan", "build"}, Enter("agent-start", point) PROVE IInv'
  BY <1>1, <1>3, EnterIs, ForwardInv DEF Phases, Before
<1> QED BY <1>2, <1>3

(* An agent's edits break no guard, and a review edits nothing. *)
LEMMA AfterAgentIs ==
  ASSUME IInv, pc = "agent", AfterAgent
  PROVE  /\ tree' \in Trees /\ ~tree'.mutant
         /\ call.phase = "review" => tree' = tree
<1>1. tree \in Trees /\ ~tree.mutant
  BY DEF IInv, Types, ReadyFits
<1>2. CASE tree' = tree
  BY <1>1, <1>2
<1>3. CASE tree' # tree
  <2>1. call.phase = "build"
    BY <1>3 DEF AfterAgent
  <2>2. PICK d \in BOOLEAN, c \in BOOLEAN :
          tree' = [Touched EXCEPT !.dirty = d, !.committed = @ \/ c]
    BY <1>3, <2>1 DEF AfterAgent
  <2>3. tree' = [dirty |-> d, committed |-> tree.committed \/ c, passed |-> FALSE, read |-> FALSE,
                 mutant |-> tree.mutant]
    BY <1>1, <2>2 DEF Touched, Trees
  <2> QED BY <1>1, <2>1, <2>3 DEF Trees
<1> QED BY <1>2, <1>3

(* A recorded agent run adds its phase and round to the steps. *)
LEMMA RecordedIs ==
  ASSUME IInv, pc = "agent", Recorded
  PROVE  /\ steps' \subseteq {"plan", "build", "review"} \X Nat
         /\ steps' = steps \cup {<<call.phase, call.round>>}
<1>1. call.phase \in {"plan", "build", "review"} /\ call.round \in Nat
  BY DEF IInv, Types, PhaseFits, Calls
<1> QED BY <1>1 DEF IInv, Types, Recorded, completionsObject

(* No call is a call. *)
LEMMA NoCallIs == NoCall \in Calls
  BY DEF NoCall, Calls

(* A failure of the agent under way. *)
LEMMA AgentFailInv ==
  ASSUME IInv, pc = "agent", NEW r \in Reasons, Fail(r), spent' \in Nat, call' = NoCall,
         steps' \subseteq {"plan", "build", "review"} \X Nat, AfterAgent, UNCHANGED <<job, loop>>
  PROVE  IInv'
<1>1. loop' \in Loops /\ pc \notin Resting
  BY DEF IInv, Types, Resting
<1> QED BY <1>1, AfterAgentIs, NoCallIs, FailInv

(* An agent that fails leads where Fail does, with its run recorded. *)
LEMMA AgentFailsInv == ASSUME IInv, AgentFails PROVE IInv'
<1> USE DEF AgentFails
<1>1. pc = "agent" /\ Recorded /\ AfterAgent /\ call' = NoCall /\ UNCHANGED <<job, loop>>
  OBVIOUS
<1>2. spent' \in Nat
  BY DEF IInv, Types, Calls
<1>3. \E r \in Reasons : Fail(r)
  BY DEF Reasons, movesToNextModel
<1> QED BY <1>1, <1>2, <1>3, RecordedIs, AgentFailInv

(* So does an upload that fails, with nothing recorded. *)
LEMMA UploadFailsInv == ASSUME IInv, UploadFails PROVE IInv'
<1> USE DEF UploadFails
<1>1. pc = "agent" /\ AfterAgent /\ call' = NoCall /\ UNCHANGED <<job, loop>>
  OBVIOUS
<1>2. spent' \in Nat /\ steps' \subseteq {"plan", "build", "review"} \X Nat
  BY DEF IInv, Types, Calls
<1>3. Fail("completions-upload") /\ "completions-upload" \in Reasons
  BY DEF Reasons
<1> QED BY <1>1, <1>2, <1>3, AgentFailInv

(* A phase that moves to its next model takes one round more and what time is left. *)
LEMMA AgentMovesInv == ASSUME IInv, AgentMoves PROVE IInv'
<1> USE DEF AgentMoves
<1>1. /\ pc = "agent" /\ Recorded /\ AfterAgent /\ call.model < call.last
      /\ job' = job /\ loop' = loop /\ spent' \in Nat
  BY DEF IInv, Types, Calls
<1>2. /\ steps' = steps \cup {<<call.phase, call.round>>}
      /\ steps' \subseteq {"plan", "build", "review"} \X Nat
      /\ tree' \in Trees /\ ~tree'.mutant
      /\ call.phase = "review" => tree' = tree
  BY <1>1, RecordedIs, AfterAgentIs
<1>3. CASE ~InBudget(spent', Budget)
  <2>1. (\E r \in movesToNextModel : Fail(r)) /\ call' = NoCall
    BY <1>3
  <2>2. \E r \in Reasons : Fail(r)
    BY <2>1 DEF movesToNextModel, Reasons
  <2> QED BY <1>1, <1>2, <2>1, <2>2, AgentFailInv
<1>4. CASE InBudget(spent', Budget)
  <2>1. /\ pc' = "agent" /\ sum' = sum
        /\ call' = [phase |-> call.phase, kind |-> call.kind, round |-> call.round + 1,
                    model |-> call.model + 1, last |-> call.last,
                    timeout |-> Deadline(roundTimeout(spent', Budget)), session |-> call.session]
    BY <1>4 DEF StartAgent, NextTimeout
  <2>2. /\ Deadline(roundTimeout(spent', Budget)) \in Nat
        /\ spent' + Deadline(roundTimeout(spent', Budget)) <= Budget
    BY <1>1, <1>4, BudgetIs, DeadlineFits
  <2>3. Budget' = Budget
    BY <1>1, <2>1 DEF Budget
  <2>4. call \in Calls /\ call' \in Calls
    BY <2>1, <2>2 DEF IInv, Types, Calls
  <2>5. Types'
    BY <1>1, <1>2, <2>1, <2>4 DEF IInv, Types
  <2>6. PhaseFits'
    BY <1>1, <2>1, <2>4 DEF IInv, PhaseFits, Calls, ReviewSteps, Before
  <2>7. ReadyFits' /\ ReadyIsEarned'
    BY <1>1, <1>2, <2>1 DEF IInv, ReadyFits, PhaseFits, ReadyIsEarned
  <2>8. RoundsFit'
    <3>1. call.round \in Nat /\ call.round + 1 - 1 = call.round
      BY <2>4 DEF Calls
    <3>2. call.phase = "review" => UpTo("build", loop.round)'
      BY <1>1, <1>2 DEF IInv, RoundsFit, UpTo
    <3>3. call.phase = "plan" => UpTo("build", 0)'
      BY <1>1, <1>2 DEF IInv, RoundsFit, UpTo
    <3>4. call.phase # "review" => \A s \in steps' : s[1] = call.phase => s[2] <= call.round
      BY <1>1, <1>2, <3>1 DEF IInv, RoundsFit, UpTo, Types
    <3> QED BY <2>1, <3>1, <3>2, <3>3, <3>4 DEF RoundsFit, UpTo, Before, BuildSteps, ReviewSteps
  <2>9. PlanFits'
    BY <1>1, <2>1, <2>4 DEF IInv, Types, PlanFits, Before, Calls, Loops
  <2>10. AgentFitsItsStage'
    BY <2>1, <2>2, <2>3 DEF AgentFitsItsStage
  <2>11. CorrectionKeepsItsModel'
    <3>1. call.round \in Nat /\ loop.round \in Nat
      BY <2>4 DEF IInv, Types, Calls, Loops
    <3> QED BY <1>1, <2>1, <3>1 DEF IInv, CorrectionKeepsItsModel, PlanFits
  <2> QED BY <2>5, <2>6, <2>7, <2>8, <2>9, <2>10, <2>11 DEF IInv
<1> QED BY <1>3, <1>4

(* The next rounds count on from the one that answered. *)
LEMMA AgentAnswersInv == ASSUME IInv, AgentAnswers PROVE IInv'
<1> USE DEF AgentAnswers
<1>1. /\ pc = "agent" /\ Recorded /\ AfterAgent /\ job' = job /\ sum' = sum /\ call' = NoCall
      /\ spent' \in Nat /\ pc' = After[call.kind]
  BY DEF IInv, Types, Calls
<1>2. /\ steps' = steps \cup {<<call.phase, call.round>>}
      /\ steps' \subseteq {"plan", "build", "review"} \X Nat
      /\ tree' \in Trees /\ ~tree'.mutant
      /\ call.phase = "review" => tree' = tree
  BY <1>1, RecordedIs, AfterAgentIs
<1>3. /\ call \in Calls /\ loop \in Loops /\ call.kind \in Kinds
      /\ call.kind \in {"review", "recheck"} <=> call.phase = "review"
      /\ call.kind \in {"plan", "correct"} <=> call.phase = "plan"
      /\ call.kind \in {"review", "fix", "recheck"} <=> sum.phase = "review"
      /\ call.model \in 1..call.last
  BY <1>1 DEF IInv, Types, PhaseFits
<1>4. /\ call.phase = "review" => loop' = loop
      /\ call.phase # "review" =>
           /\ loop'.round = call.round /\ loop'.session = call.model
           /\ loop'.n = loop.n
      /\ loop' \in Loops /\ loop'.gate = loop.gate
  BY <1>3 DEF Loops, Calls, AnsweredRound
<1>5. /\ call.kind \in {"plan", "correct"} => pc' = "planned"
      /\ call.kind = "build" => pc' = "built"
      /\ call.kind \in {"rebuild", "fix"} => pc' = "checks"
      /\ call.kind = "review" => pc' = "reviewed"
      /\ call.kind = "recheck" => pc' = "rechecked"
      /\ pc' \in {"planned", "built", "checks", "reviewed", "rechecked"}
  BY <1>1, <1>3 DEF After, Kinds
<1>6. Types'
  BY <1>1, <1>2, <1>4, <1>5, NoCallIs DEF IInv, Types, Points
<1>7. PhaseFits'
  BY <1>1, <1>3, <1>5 DEF PhaseFits, ReviewSteps, Before, Kinds
<1>8. ReadyFits' /\ ReadyIsEarned'
  BY <1>1, <1>2, <1>3, <1>4, <1>5 DEF IInv, ReadyFits, ReadyIsEarned, Kinds
<1>9. RoundsFit'
  <2>1. call.round \in Nat
    BY <1>3 DEF Calls
  <2>2. call.phase = "review" => UpTo("build", loop.round)'
    BY <1>1, <1>2, <1>4 DEF IInv, RoundsFit, UpTo
  <2>3. call.phase = "plan" => UpTo("build", 0)'
    BY <1>1, <1>2 DEF IInv, RoundsFit, UpTo
  <2>4. call.phase # "review" => \A s \in steps' : s[1] = call.phase => s[2] <= call.round
    BY <1>1, <1>2, <2>1 DEF IInv, RoundsFit, UpTo, Types
  <2>5. call.phase = "plan" => UpTo("plan", loop.round)'
    BY <1>4, <2>4 DEF UpTo
  <2>6. call.phase = "build" => UpTo("build", loop.round)'
    BY <1>4, <2>4 DEF UpTo
  <2>7. call.phase \in {"plan", "build", "review"}
    BY <1>1 DEF IInv, Types, PhaseFits, Calls
  <2> QED BY <1>3, <1>5, <2>2, <2>3, <2>5, <2>6, <2>7 DEF RoundsFit, Before, BuildSteps, ReviewSteps, Kinds
<1>10. PlanFits'
  BY <1>1, <1>3, <1>4, <1>5 DEF IInv, PlanFits, Before, Kinds
<1>11. AgentFitsItsStage' /\ CorrectionKeepsItsModel'
  BY <1>5 DEF AgentFitsItsStage, CorrectionKeepsItsModel
<1> QED BY <1>6, <1>7, <1>8, <1>9, <1>10, <1>11 DEF IInv

(* A call that starts from a point between agents. *)
LEMMA StartIs ==
  ASSUME IInv, NEW phase \in {"plan", "build", "review"}, NEW kind \in Kinds, NEW round \in Nat,
         NEW model \in Nat, NEW last \in Nat, NEW session \in Nat, NEW timeout, Deadline(timeout) \in Nat,
         StartAgent(phase, kind, round, model, last, timeout, session)
  PROVE  /\ pc' = "agent" /\ call' \in Calls
         /\ call'.phase = phase /\ call'.kind = kind /\ call'.round = round /\ call'.model = model
         /\ call'.last = last /\ call'.timeout = Deadline(timeout) /\ call'.session = session
  BY DEF StartAgent, Calls

(* The plan's first order starts at round 1 with nothing recorded. *)
LEMMA BeginPlanInv == ASSUME IInv, BeginPlan PROVE IInv'
<1> USE DEF BeginPlan
<1>1. /\ pc = "plan" /\ pc \in Before /\ UNCHANGED <<job, spent, steps, tree, loop>>
      /\ spent \in Nat /\ sum \in Sums /\ loop \in Loops
  BY DEF IInv, Types, Before
<1>2. ASSUME NEW r \in Reasons, Stop("plan", r), UNCHANGED call PROVE IInv'
  BY <1>1, <1>2, EarlyStopInv DEF Phases
<1>3. CASE InBudget(spent, BuildBudget) /\ sum' = [sum EXCEPT !.phase = "plan"]
           /\ StartAgent("plan", "plan", 1, 1, PlanModels, roundTimeout(spent, BuildBudget), 0)
  <2>1. /\ Deadline(roundTimeout(spent, BuildBudget)) \in Nat
        /\ spent + Deadline(roundTimeout(spent, BuildBudget)) <= BuildBudget
    BY <1>1, <1>3, DeadlineFits, BuildAssumption
  <2>2. PlanModels \in Nat /\ PlanModels >= 1
    BY BuildAssumption
  <2>3. /\ pc' = "agent" /\ call' \in Calls
        /\ call'.phase = "plan" /\ call'.kind = "plan" /\ call'.round = 1 /\ call'.model = 1
        /\ call'.last = PlanModels /\ call'.timeout = Deadline(roundTimeout(spent, BuildBudget))
    BY <1>3, <2>1, <2>2, StartIs DEF Kinds
  <2>4. sum' \in Sums /\ sum'.phase = "plan" /\ sum'.ready = sum.ready /\ sum'.bundle = sum.bundle
    BY <1>1, <1>3 DEF Sums, Phases
  <2>5. Types'
    BY <1>1, <2>3, <2>4 DEF IInv, Types, Points
  <2>6. PhaseFits'
    BY <2>2, <2>3, <2>4 DEF PhaseFits, ReviewSteps, Before, Kinds
  <2>7. ReadyFits' /\ ReadyIsEarned'
    BY <1>1, <2>3, <2>4 DEF IInv, ReadyFits, ReadyIsEarned
  <2>8. RoundsFit' /\ PlanFits'
    BY <1>1, <2>3 DEF IInv, RoundsFit, PlanFits, UpTo, Before, BuildSteps, ReviewSteps
  <2>9. AgentFitsItsStage' /\ CorrectionKeepsItsModel'
    BY <1>1, <2>1, <2>3, <2>4 DEF AgentFitsItsStage, CorrectionKeepsItsModel, Budget
  <2> QED BY <2>5, <2>6, <2>7, <2>8, <2>9 DEF IInv
<1> QED BY <1>2, <1>3 DEF Reasons

(* A correction goes on from the round and the model that answered. *)
LEMMA PlanAnsweredInv == ASSUME IInv, PlanAnswered PROVE IInv'
<1> USE DEF PlanAnswered
<1>1. /\ pc = "planned" /\ UNCHANGED <<job, spent, steps, tree>>
      /\ spent \in Nat /\ sum \in Sums /\ loop \in Loops /\ call \in Calls
      /\ sum.phase # "review" /\ ~sum.ready /\ ~sum.bundle /\ ~tree.mutant
  BY DEF IInv, Types, PhaseFits, ReadyFits
<1>2. ASSUME NEW r \in Reasons, Stop("plan", r), UNCHANGED <<call, loop>> PROVE IInv'
  BY <1>1, <1>2, EarlyStopInv DEF Phases
<1>3. ASSUME NEW result \in {"files", "decision"}, Plans(result), UNCHANGED <<call, loop>> PROVE IInv'
  <2>1. CASE sum' = [sum EXCEPT !.outcome = "planned", !.detail = result] /\ pc' = "ended"
    <3>1. sum' \in Sums /\ sum'.ready = sum.ready /\ sum'.bundle = sum.bundle
      BY <1>1, <2>1 DEF Sums, Outcomes, Details
    <3>2. Types'
      BY <1>1, <1>3, <2>1, <3>1 DEF IInv, Types, Points
    <3> QED BY <1>1, <2>1, <3>1, <3>2, Rest DEF Resting
  <2>2. CASE Enter("plan", "build")
    <3>1. /\ sum' \in Sums /\ pc' = "build" /\ sum'.phase = "plan"
          /\ sum'.ready = sum.ready /\ sum'.bundle = sum.bundle
      BY <1>1, <2>2, EnterIs DEF Phases
    <3>2. Types'
      BY <1>1, <1>3, <3>1 DEF IInv, Types, Points
    <3>3. PhaseFits' /\ ReadyFits' /\ ReadyIsEarned'
      BY <1>1, <3>1 DEF PhaseFits, ReadyFits, ReadyIsEarned, ReviewSteps, Before
    <3>4. RoundsFit' /\ PlanFits'
      BY <1>1, <1>3, <3>1 DEF IInv, RoundsFit, PlanFits, UpTo, Before, BuildSteps, ReviewSteps
    <3>5. AgentFitsItsStage' /\ CorrectionKeepsItsModel'
      BY <3>1 DEF AgentFitsItsStage, CorrectionKeepsItsModel
    <3> QED BY <3>2, <3>3, <3>4, <3>5 DEF IInv
  <2> QED BY <1>3, <2>1, <2>2 DEF Plans
<1>4. CASE /\ loop.n = 0 /\ InBudget(spent, BuildBudget)
           /\ StartAgent("plan", "correct", loop.round + 1, CorrectionModel(loop.round), PlanModels,
                         roundTimeout(spent, BuildBudget), loop.session)
           /\ loop' = [loop EXCEPT !.n = 1]
           /\ UNCHANGED sum
  <2>1. /\ Deadline(roundTimeout(spent, BuildBudget)) \in Nat
        /\ spent + Deadline(roundTimeout(spent, BuildBudget)) <= BuildBudget
    BY <1>1, <1>4, DeadlineFits, BuildAssumption
  <2>2. /\ PlanModels \in Nat /\ loop.round \in 1..PlanModels /\ loop.session = loop.round
        /\ loop.session \in Nat /\ loop.round + 1 \in Nat
    BY <1>1, <1>4, BuildAssumption DEF IInv, PlanFits, Loops
  <2>3. /\ pc' = "agent" /\ call' \in Calls
        /\ call'.phase = "plan" /\ call'.kind = "correct" /\ call'.round = loop.round + 1
        /\ call'.model = loop.round /\ call'.last = PlanModels
        /\ call'.timeout = Deadline(roundTimeout(spent, BuildBudget)) /\ call'.session = loop.session
    BY <1>4, <2>1, <2>2, StartIs DEF Kinds, CorrectionModel
  <2>4. loop' \in Loops /\ loop'.n = 1 /\ loop'.round = loop.round /\ loop'.gate = loop.gate
    BY <1>1, <1>4 DEF Loops
  <2>5. Types'
    BY <1>1, <1>4, <2>3, <2>4 DEF IInv, Types, Points
  <2>6. PhaseFits'
    BY <1>1, <1>4, <2>2, <2>3 DEF PhaseFits, ReviewSteps, Before, Kinds
  <2>7. ReadyFits' /\ ReadyIsEarned'
    BY <1>1, <1>4, <2>3 DEF ReadyFits, ReadyIsEarned
  <2>8. RoundsFit'
    BY <1>1, <2>2, <2>3 DEF IInv, RoundsFit, UpTo, Before, BuildSteps, ReviewSteps
  <2>9. PlanFits' /\ CorrectionKeepsItsModel'
    BY <2>2, <2>3, <2>4 DEF PlanFits, CorrectionKeepsItsModel, Before
  <2>10. AgentFitsItsStage'
    BY <1>1, <1>4, <2>1, <2>3 DEF AgentFitsItsStage, Budget
  <2> QED BY <2>5, <2>6, <2>7, <2>8, <2>9, <2>10 DEF IInv
<1> QED BY <1>2, <1>3, <1>4 DEF Reasons

(* A build or review call begins. *)
LEMMA StartedInv ==
  ASSUME IInv, pc \notin Resting, Types', pc' = "agent", UNCHANGED <<steps, tree>>,
         call'.kind \in {"build", "rebuild", "review", "fix", "recheck"},
         call'.phase = (IF call'.kind \in {"review", "recheck"} THEN "review" ELSE "build"),
         call'.kind \in {"review", "fix", "recheck"} <=> sum'.phase = "review",
         call'.model = 1, call'.last >= 1,
         sum'.ready = sum.ready, sum'.bundle = sum.bundle,
         spent' + call'.timeout <= (IF sum'.phase = "review" THEN ReviewBudget ELSE BuildBudget),
         call'.phase = "review" => UpTo("build", loop'.round),
         call'.phase = "build" => UpTo("build", call'.round - 1),
         call'.kind = "review" => tree.passed,
         call'.kind = "recheck" /\ loop'.gate = "none" => tree.passed
  PROVE  IInv'
<1>1. ~sum.ready /\ ~sum.bundle /\ ~tree.mutant
  BY DEF IInv, ReadyFits, Resting
<1>2. PhaseFits'
  <2>1. call'.last \in Nat
    BY DEF Types, Calls
  <2> QED BY <2>1 DEF PhaseFits, ReviewSteps, Before, Kinds
<1>3. ReadyFits' /\ ReadyIsEarned'
  BY <1>1 DEF ReadyFits, ReadyIsEarned
<1>4. RoundsFit' /\ PlanFits'
  BY DEF RoundsFit, PlanFits, UpTo, Before, BuildSteps, ReviewSteps
<1>5. AgentFitsItsStage' /\ CorrectionKeepsItsModel'
  BY DEF AgentFitsItsStage, CorrectionKeepsItsModel, Budget
<1> QED BY <1>2, <1>3, <1>4, <1>5 DEF IInv

(* The build's first agent runs as round 1; no build round is recorded yet. *)
LEMMA BeginBuildInv == ASSUME IInv, BeginBuild PROVE IInv'
<1>1. /\ pc = "build" /\ UNCHANGED <<job, spent, steps, tree, loop>>
      /\ spent \in Nat /\ sum \in Sums /\ loop \in Loops /\ call \in Calls
      /\ ~sum.ready /\ ~sum.bundle /\ ~tree.mutant
  BY DEF BeginBuild, IInv, Types, ReadyFits
<1>2. CASE ~InBudget(spent, BuildBudget)
  <2>1. /\ pc' = "keep" /\ call' = call
        /\ sum' = [sum EXCEPT !.phase = "build", !.outcome = OutcomeOf("run-budget"), !.reason = "run-budget"]
    BY <1>2 DEF BeginBuild
  <2>2. sum' \in Sums /\ sum'.ready = sum.ready /\ sum'.bundle = sum.bundle
    BY <1>1, <2>1, OutcomeIs DEF Sums, Phases, Reasons
  <2>3. Types'
    BY <1>1, <2>1, <2>2 DEF IInv, Types, Points
  <2> QED BY <1>1, <2>1, <2>2, <2>3, Rest DEF Resting
<1>3. CASE InBudget(spent, BuildBudget)
  <2>1. /\ StartAgent("build", "build", 1, 1, BuildModels, roundTimeout(spent, BuildBudget), 0)
        /\ sum' = [sum EXCEPT !.phase = "build"]
    BY <1>3 DEF BeginBuild
  <2>2. /\ Deadline(roundTimeout(spent, BuildBudget)) \in Nat
        /\ spent + Deadline(roundTimeout(spent, BuildBudget)) <= BuildBudget
    BY <1>1, <1>3, DeadlineFits, BuildAssumption
  <2>3. BuildModels \in Nat /\ BuildModels >= 1
    BY BuildAssumption
  <2>4. /\ pc' = "agent" /\ call' \in Calls
        /\ call'.phase = "build" /\ call'.kind = "build" /\ call'.round = 1 /\ call'.model = 1
        /\ call'.last = BuildModels /\ call'.timeout = Deadline(roundTimeout(spent, BuildBudget))
    BY <2>1, <2>2, <2>3 DEF StartAgent, Calls, Kinds
  <2>5. sum' \in Sums /\ sum'.phase = "build" /\ sum'.ready = sum.ready /\ sum'.bundle = sum.bundle
    BY <1>1, <2>1 DEF Sums, Phases
  <2>6. Types'
    BY <1>1, <2>4, <2>5 DEF IInv, Types, Points
  <2>7. UpTo("build", 0)
    BY <1>1 DEF IInv, RoundsFit
  <2> QED BY <1>1, <2>2, <2>3, <2>4, <2>5, <2>6, <2>7, StartedInv DEF Resting
<1> QED BY <1>2, <1>3

(* A step between two points of the check loop or the review. *)
LEMMA StepInv ==
  ASSUME IInv, pc \in {"built", "checks", "format", "judge"} \cup ReviewSteps, Types',
         pc' \in {"checks", "format", "judge"} \cup ReviewSteps,
         UNCHANGED steps, loop'.round = loop.round, ~tree'.mutant,
         sum'.ready = sum.ready, sum'.bundle = sum.bundle,
         pc' \in ReviewSteps => sum'.phase = "review",
         pc' = "judge" => sum'.phase # "review",
         pc' = "review" => spent' = 0,
         pc' = "format" => loop'.gate \in FormatGates,
         pc' \in {"scan", "review", "reviewed"} => tree'.passed,
         pc' \in {"judge", "rescan", "recheck", "rechecked"} /\ loop'.gate = "none" => tree'.passed
  PROVE  IInv'
<1>1. ~sum.ready /\ ~sum.bundle
  BY DEF IInv, ReadyFits, ReviewSteps
<1>2. PhaseFits'
  BY DEF PhaseFits, ReviewSteps, Before
<1>3. ReadyFits' /\ ReadyIsEarned'
  BY <1>1 DEF ReadyFits, ReadyIsEarned, ReviewSteps
<1>4. RoundsFit'
  <2>1. UpTo("build", loop.round)
    BY DEF IInv, RoundsFit, BuildSteps
  <2>2. UpTo("build", loop.round)'
    BY <2>1 DEF UpTo
  <2> QED BY <2>2 DEF RoundsFit, BuildSteps, ReviewSteps, Before
<1>5. PlanFits' /\ AgentFitsItsStage' /\ CorrectionKeepsItsModel'
  BY DEF PlanFits, AgentFitsItsStage, CorrectionKeepsItsModel, ReviewSteps, Before
<1> QED BY <1>2, <1>3, <1>4, <1>5 DEF IInv

(* What holds at every point of the check loop and the review. *)
LEMMA AtStep ==
  ASSUME IInv, pc \in {"built", "checks", "format", "judge"} \cup ReviewSteps
  PROVE  /\ spent \in Nat /\ sum \in Sums /\ loop \in Loops /\ call \in Calls /\ tree \in Trees
         /\ steps \subseteq {"plan", "build", "review"} \X Nat
         /\ ~sum.ready /\ ~sum.bundle /\ ~tree.mutant /\ pc \notin Resting
         /\ UpTo("build", loop.round)
  BY DEF IInv, Types, ReadyFits, RoundsFit, Resting, BuildSteps, ReviewSteps

(* A first build goes to its checks, or to the commit when it left nothing. *)
LEMMA BuiltInv == ASSUME IInv, Built PROVE IInv'
<1> USE DEF Built
<1>1. pc = "built" /\ UNCHANGED <<job, spent, call, steps, tree>>
  OBVIOUS
<1>2. CASE Fail("checks-run") /\ UNCHANGED loop
  BY <1>1, <1>2, AtStep, FailInv DEF Reasons
<1>3. CASE Enter("commit", "commit") /\ UNCHANGED loop
  <2>1. sum' \in Sums /\ pc' = "commit" /\ sum'.ready = sum.ready /\ sum'.bundle = sum.bundle
    BY <1>1, <1>3, AtStep, EnterIs DEF Phases
  <2>2. Types'
    BY <1>1, <1>3, <2>1 DEF IInv, Types, Points
  <2> QED BY <1>1, <2>1, <2>2, AtStep, Rest DEF Resting
<1>4. CASE pc' = "checks" /\ loop' = [loop EXCEPT !.n = 1] /\ UNCHANGED sum
  <2>1. loop' \in Loops /\ loop'.round = loop.round
    BY <1>1, <1>4, AtStep DEF Loops
  <2>2. Types'
    BY <1>1, <1>4, <2>1 DEF IInv, Types, Points
  <2> QED BY <1>1, <1>4, <2>1, <2>2, AtStep, StepInv DEF ReviewSteps
<1> QED BY <1>2, <1>3, <1>4

(* What the checks say of the tree is remembered with the gate they name. *)
LEMMA RunChecksInv == ASSUME IInv, RunChecks PROVE IInv'
<1> USE DEF RunChecks
<1>1. pc = "checks" /\ Elapse /\ UNCHANGED <<job, call, steps>>
  OBVIOUS
<1>2. spent' \in Nat /\ loop \in Loops /\ tree \in Trees /\ sum \in Sums
  BY <1>1, AtStep, ElapseIs
<1>3. CASE Fail("checks-run") /\ UNCHANGED <<loop, tree>>
  BY <1>1, <1>2, <1>3, AtStep, FailInv DEF Reasons
<1>4. ASSUME NEW gate \in FormatGates \cup {"none", "test"},
             loop' = [loop EXCEPT !.gate = gate, !.formatted = IF gate \in FormatGates \ @ THEN @ ELSE {}],
             tree' = [tree EXCEPT !.passed = (gate = "none")],
             pc' = IF gate \in FormatGates \ loop.formatted THEN "format"
                   ELSE IF sum.phase = "review" THEN "rescan" ELSE "judge",
             UNCHANGED sum
      PROVE  IInv'
  <2>1. loop' \in Loops /\ loop'.round = loop.round /\ loop'.gate = gate
    BY <1>2, <1>4 DEF Loops, Gates
  <2>2. tree' \in Trees /\ tree'.mutant = tree.mutant /\ tree'.passed = (gate = "none")
    BY <1>2, <1>4 DEF Trees
  <2>3. Types'
    BY <1>1, <1>2, <1>4, <2>1, <2>2 DEF IInv, Types, Points
  <2> QED BY <1>1, <1>4, <2>1, <2>2, <2>3, AtStep, StepInv DEF ReviewSteps
<1> QED BY <1>3, <1>4

(* A formatter's rewrite is checked again before it counts. *)
LEMMA FormatInPlaceInv == ASSUME IInv, FormatInPlace PROVE IInv'
<1> USE DEF FormatInPlace
<1>1. pc = "format" /\ Elapse /\ UNCHANGED <<job, call, steps>>
  OBVIOUS
<1>2. spent' \in Nat /\ loop \in Loops /\ tree' \in Trees /\ ~tree'.mutant
  BY <1>1, AtStep, ElapseIs DEF Touched, Trees
<1>3. ASSUME NEW r \in {"checks-run", "formatter-outside-diff"}, Fail(r), UNCHANGED loop PROVE IInv'
  BY <1>1, <1>2, <1>3, AtStep, FailInv DEF Reasons
<1>4. CASE pc' = "checks" /\ loop' = [loop EXCEPT !.formatted = @ \cup {loop.gate}] /\ UNCHANGED sum
  <2>1. loop' \in Loops /\ loop'.round = loop.round
    BY <1>1, <1>2, <1>4 DEF IInv, PhaseFits, Loops
  <2>2. Types'
    BY <1>1, <1>2, <1>4, <2>1 DEF IInv, Types, Points
  <2> QED BY <1>1, <1>2, <1>4, <2>1, <2>2, StepInv DEF ReviewSteps
<1> QED BY <1>3, <1>4

(* Passed checks lead to the review; a rebuild takes the next round. *)
LEMMA JudgeInv == ASSUME IInv, Judge PROVE IInv'
<1>1. /\ pc = "judge" /\ UNCHANGED <<job, spent, steps, tree>>
      /\ sum.phase # "review" /\ (loop.gate = "none" => tree.passed)
  BY DEF Judge, IInv, PhaseFits, ReadyFits
<1>2. CASE loop.gate = "none" /\ Enter("review", "scan") /\ UNCHANGED <<call, loop>>
  <2>1. /\ sum' \in Sums /\ pc' = "scan" /\ sum'.phase = "review"
        /\ sum'.ready = sum.ready /\ sum'.bundle = sum.bundle
    BY <1>1, <1>2, AtStep, EnterIs DEF Phases
  <2>2. Types'
    BY <1>1, <1>2, <2>1 DEF IInv, Types, Points
  <2> QED BY <1>1, <1>2, <2>1, <2>2, AtStep, StepInv DEF ReviewSteps
<1>3. CASE /\ sum' = [sum EXCEPT !.phase = "commit", !.detail = "checks"] /\ pc' = "commit"
           /\ UNCHANGED <<call, loop>>
  <2>1. sum' \in Sums /\ sum'.ready = sum.ready /\ sum'.bundle = sum.bundle
    BY <1>1, <1>3, AtStep DEF Sums, Phases, Details
  <2>2. Types'
    BY <1>1, <1>3, <2>1 DEF IInv, Types, Points
  <2> QED BY <1>1, <1>3, <2>1, <2>2, AtStep, Rest DEF Resting
<1>4. CASE /\ InBudget(spent, BuildBudget)
           /\ StartAgent("build", "rebuild", loop.round + 1, 1, BuildModels,
                         roundTimeout(spent, BuildBudget), loop.session)
           /\ loop' = [loop EXCEPT !.n = @ + 1]
           /\ UNCHANGED sum
  <2>1. spent \in Nat /\ loop \in Loops /\ UpTo("build", loop.round)
    BY <1>1, AtStep
  <2>2. /\ Deadline(roundTimeout(spent, BuildBudget)) \in Nat
        /\ spent + Deadline(roundTimeout(spent, BuildBudget)) <= BuildBudget
    BY <1>4, <2>1, DeadlineFits, BuildAssumption
  <2>3. /\ BuildModels \in Nat /\ BuildModels >= 1
        /\ loop.round \in Nat /\ loop.session \in Nat /\ loop.round + 1 - 1 = loop.round
    BY <2>1, BuildAssumption DEF Loops
  <2>4. /\ pc' = "agent" /\ call' \in Calls
        /\ call'.phase = "build" /\ call'.kind = "rebuild" /\ call'.round = loop.round + 1
        /\ call'.model = 1 /\ call'.last = BuildModels
        /\ call'.timeout = Deadline(roundTimeout(spent, BuildBudget))
    BY <1>4, <2>2, <2>3 DEF StartAgent, Calls, Kinds
  <2>5. loop' \in Loops
    BY <1>4, <2>1 DEF Loops
  <2>6. Types'
    BY <1>1, <1>4, <2>4, <2>5 DEF IInv, Types, Points
  <2> QED BY <1>1, <1>4, <2>1, <2>2, <2>3, <2>4, <2>6, AtStep, StartedInv
<1> QED BY <1>2, <1>3, <1>4 DEF Judge

(* A scan goes on, or fails and may leave a break behind. *)
LEMMA ScanIs ==
  ASSUME IInv, pc \in ReviewSteps, NEW next, NEW budget, ScanGuards(next, budget), UNCHANGED <<job, call, steps>>
  PROVE  \/ IInv'
         \/ /\ next /\ UNCHANGED <<tree, sum>>
            /\ loop' \in Loops /\ loop'.round = loop.round /\ loop'.gate = loop.gate
<1>1. sum.phase = "review"
  BY DEF IInv, PhaseFits
<1>2. ASSUME Fail("checks-run"), spent' \in Nat, tree' \in Trees, UNCHANGED loop PROVE IInv'
  BY <1>1, <1>2, AtStep, FailInv DEF Reasons
<1>3. ASSUME NEW m \in BOOLEAN, tree' = IF m THEN [Touched EXCEPT !.mutant = TRUE] ELSE tree
      PROVE  tree' \in Trees
  BY <1>3, AtStep DEF Touched, Trees
<1>4. CASE Elapse /\ Fail("checks-run") /\ UNCHANGED loop
           /\ \E m \in BOOLEAN : tree' = IF m THEN [Touched EXCEPT !.mutant = TRUE] ELSE tree
  BY <1>2, <1>3, <1>4, AtStep, ElapseIs
<1>5. CASE Fail("checks-run") /\ UNCHANGED <<spent, tree, loop>>
  BY <1>2, <1>5, AtStep
<1>6. CASE /\ \E g \in SUBSET Guards : loop' = [loop EXCEPT !.surviving = g]
           /\ next /\ UNCHANGED <<tree, sum>>
  BY <1>6, AtStep DEF Loops
<1> QED BY <1>4, <1>5, <1>6 DEF ScanGuards

(* The first guard scan hands over to the review with its time at zero. *)
LEMMA ScanDiffInv == ASSUME IInv, ScanDiff PROVE IInv'
<1>1. /\ pc = "scan" /\ pc \in ReviewSteps /\ UNCHANGED <<job, call, steps>>
      /\ ScanGuards(spent' = 0 /\ pc' = "review", BuildBudget)
  BY DEF ScanDiff, ReviewSteps
<1>2. CASE /\ spent' = 0 /\ pc' = "review" /\ UNCHANGED <<tree, sum>>
           /\ loop' \in Loops /\ loop'.round = loop.round
  <2>1. Types'
    BY <1>1, <1>2 DEF IInv, Types, Points
  <2>2. tree.passed /\ sum.phase = "review"
    BY <1>1 DEF IInv, ReadyFits, PhaseFits
  <2> QED BY <1>1, <1>2, <2>1, <2>2, AtStep, StepInv DEF ReviewSteps
<1> QED BY <1>1, <1>2, ScanIs

(* A later scan leaves what the checks said standing. *)
LEMMA RescanGuardsInv == ASSUME IInv, RescanGuards PROVE IInv'
<1>1. /\ pc = "rescan" /\ pc \in ReviewSteps /\ UNCHANGED <<job, call, steps>>
      /\ ScanGuards(Elapse /\ pc' = "recheck", ReviewBudget)
  BY DEF RescanGuards, ReviewSteps
<1>2. CASE /\ Elapse /\ pc' = "recheck" /\ UNCHANGED <<tree, sum>>
           /\ loop' \in Loops /\ loop'.round = loop.round /\ loop'.gate = loop.gate
  <2>1. spent' \in Nat
    BY <1>1, <1>2, AtStep, ElapseIs
  <2>2. Types'
    BY <1>1, <1>2, <2>1 DEF IInv, Types, Points
  <2>3. (loop.gate = "none" => tree.passed) /\ sum.phase = "review"
    BY <1>1 DEF IInv, ReadyFits, PhaseFits
  <2> QED BY <1>1, <1>2, <2>2, <2>3, AtStep, StepInv DEF ReviewSteps
<1> QED BY <1>1, <1>2, ScanIs

(* The first review pass has the whole review budget before it. *)
LEMMA BeginReviewInv == ASSUME IInv, BeginReview PROVE IInv'
<1>1. /\ pc = "review" /\ UNCHANGED <<job, spent, steps, tree, loop>>
      /\ sum.phase = "review" /\ spent = 0 /\ tree.passed /\ pc \in ReviewSteps
  BY DEF BeginReview, IInv, PhaseFits, ReadyFits, ReviewSteps
<1>2. CASE Fail("checks-run") /\ UNCHANGED call
  BY <1>1, <1>2, AtStep, FailInv DEF Reasons
<1>3. CASE /\ StartAgent("review", "review", 1, 1, ReviewModels, Least(effectiveAgentTimeout, ReviewBudget), 0)
           /\ UNCHANGED sum
  <2>1. /\ Deadline(Least(effectiveAgentTimeout, ReviewBudget)) \in Nat
        /\ Deadline(Least(effectiveAgentTimeout, ReviewBudget)) <= ReviewBudget
    BY BuildAssumption DEF Deadline, Least, effectiveAgentTimeout
  <2>2. ReviewModels \in Nat /\ ReviewModels >= 1
    BY BuildAssumption
  <2>3. /\ pc' = "agent" /\ call' \in Calls
        /\ call'.phase = "review" /\ call'.kind = "review" /\ call'.round = 1
        /\ call'.model = 1 /\ call'.last = ReviewModels
        /\ call'.timeout = Deadline(Least(effectiveAgentTimeout, ReviewBudget))
    BY <1>3, <2>1, <2>2 DEF StartAgent, Calls, Kinds
  <2>4. Types'
    BY <1>1, <1>3, <2>3 DEF IInv, Types, Points
  <2>5. 0 + call'.timeout <= ReviewBudget
    BY <2>1, <2>3, BuildAssumption
  <2> QED BY <1>1, <1>3, <2>2, <2>3, <2>4, <2>5, AtStep, StartedInv
<1> QED BY <1>2, <1>3 DEF BeginReview

(* What a review publishes is a table of findings. *)
LEMMA RowsAreRows ==
  ASSUME NEW rounds \in Seq(FixRound)
  PROVE  reviewRows(rounds) \in Rows
<1> DEFINE given == UNION {rounds[i].issued : i \in DOMAIN rounds}
           all == UNION {rounds[i].open : i \in DOMAIN rounds}
<1>1. \A i \in DOMAIN rounds : rounds[i] \in FixRound
  OBVIOUS
<1>2. given \subseteq Findings /\ all \subseteq Findings
  BY <1>1 DEF FixRound
<1>3. ASSUME NEW f, NEW r, NEW last PROVE findingResolution(f, r, rounds, last) \in Resolutions
  BY DEF findingResolution, Resolutions
<1>4. IssuedRows(rounds) \in [given -> Resolutions]
  BY <1>3 DEF IssuedRows
<1>5. DOMAIN IssuedRows(rounds) = given
  BY DEF IssuedRows
<1>6. reviewRows(rounds) \in [given \cup (all \ given) -> Resolutions]
  <2> DEFINE ir == IssuedRows(rounds)
  <2>1. reviewRows(rounds) =
          [f \in DOMAIN ir \cup (all \ DOMAIN ir) |->
             IF f \in DOMAIN ir THEN ir[f]
             ELSE IF Len(rounds) > 1 THEN "still open after" ELSE "still open"]
    BY DEF reviewRows
  <2>2. \A f \in given : ir[f] \in Resolutions
    BY <1>4
  <2>3. DOMAIN ir = given
    BY <1>5
  <2> HIDE DEF given, all, ir
  <2> QED BY <2>1, <2>2, <2>3 DEF Resolutions
<1>7. given \cup (all \ given) \in SUBSET Findings
  BY <1>2
<1> QED BY <1>6, <1>7 DEF Rows

(* What a draft publishes are rows. *)
LEMMA PublishedAreRows ==
  ASSUME loop \in Loops, NEW rounds \in Seq(FixRound)
  PROVE  Published(rounds) \in Rows
<1>1. loop.findings \in SUBSET Findings
  BY DEF Loops
<1>2. resolveFindings(loop.findings) \in [loop.findings -> Resolutions]
  BY DEF resolveFindings, Resolutions
<1>3. resolveFindings(loop.findings) \in Rows
  BY <1>1, <1>2 DEF Rows
<1> QED BY <1>3, RowsAreRows DEF Published

(* A review that ends in a draft. *)
LEMMA DraftInv ==
  ASSUME IInv, pc \in ReviewSteps, NEW rounds \in Seq(FixRound), NEW detail \in Details, Draft(rounds, detail),
         loop' \in Loops, UNCHANGED <<job, spent, call, steps, tree>>
  PROVE  IInv'
<1>1. Published(rounds) \in Rows
  BY AtStep, PublishedAreRows
<1>2. sum' \in Sums /\ pc' = "commit" /\ sum'.ready = sum.ready /\ sum'.bundle = sum.bundle
  BY <1>1, AtStep DEF Draft, Sums, Phases
<1>3. Types'
  BY <1>2 DEF IInv, Types, Points
<1> QED BY <1>2, <1>3, AtStep, Rest DEF Resting

(* A review that ends clean. *)
LEMMA CleanInv ==
  ASSUME Types', pc' = "commit", ~sum'.bundle, ~tree'.mutant, sum'.ready => tree'.passed /\ tree'.read
  PROVE  IInv'
<1>1. PhaseFits' /\ ReadyFits' /\ ReadyIsEarned'
  BY DEF PhaseFits, ReadyFits, ReadyIsEarned, ReviewSteps, Before
<1>2. RoundsFit' /\ PlanFits' /\ AgentFitsItsStage' /\ CorrectionKeepsItsModel'
  BY DEF RoundsFit, PlanFits, AgentFitsItsStage, CorrectionKeepsItsModel, ReviewSteps, Before, BuildSteps
<1> QED BY <1>1, <1>2 DEF IInv

(* A clean pass read the very files that passed the checks. *)
LEMMA ReviewedInv == ASSUME IInv, Reviewed PROVE IInv'
<1>1. /\ pc = "reviewed" /\ pc \in ReviewSteps /\ UNCHANGED <<job, spent, call, steps>>
      /\ tree.passed /\ sum.phase = "review"
  BY DEF Reviewed, IInv, PhaseFits, ReadyFits, ReviewSteps
<1>2. CASE Fail("review-invalid") /\ UNCHANGED <<tree, loop>>
  BY <1>1, <1>2, AtStep, FailInv DEF Reasons
<1>3. CASE /\ sum' = [sum EXCEPT !.phase = "commit", !.ready = TRUE] /\ pc' = "commit"
           /\ tree' = [tree EXCEPT !.read = TRUE] /\ UNCHANGED loop
  <2>1. sum' \in Sums /\ ~sum'.bundle
    BY <1>1, <1>3, AtStep DEF Sums, Phases
  <2>2. tree' \in Trees /\ tree'.passed /\ tree'.read /\ ~tree'.mutant
    BY <1>1, <1>3, AtStep DEF Trees
  <2>3. Types'
    BY <1>1, <1>3, <2>1, <2>2 DEF IInv, Types, Points
  <2> QED BY <1>3, <2>1, <2>2, <2>3, CleanInv
<1>4. ASSUME NEW pending \in SUBSET Findings, loop' = [loop EXCEPT !.findings = pending, !.n = 1],
             pc' = "fix", UNCHANGED <<sum, tree>>
      PROVE  IInv'
  <2>1. loop' \in Loops /\ loop'.round = loop.round
    BY <1>1, <1>4, AtStep DEF Loops
  <2>2. Types'
    BY <1>1, <1>4, <2>1 DEF IInv, Types, Points
  <2> QED BY <1>1, <1>4, <2>1, <2>2, AtStep, StepInv DEF ReviewSteps
<1>5. \A remarks \in SUBSET Remarks : loop.surviving \cup remarks \in SUBSET Findings
  BY <1>1, AtStep DEF Loops, Findings
<1> QED BY <1>2, <1>3, <1>4, <1>5 DEF Reviewed

(* A fix round takes the build's next round and what the review has left. *)
LEMMA BeginFixInv == ASSUME IInv, BeginFix PROVE IInv'
<1>1. /\ pc = "fix" /\ pc \in ReviewSteps /\ UNCHANGED <<job, spent, steps, tree, loop>>
      /\ sum.phase = "review"
  BY DEF BeginFix, IInv, PhaseFits, ReviewSteps
<1>2. loop \in Loops /\ loop.rounds \in Seq(FixRound) /\ spent \in Nat /\ UpTo("build", loop.round)
  BY <1>1, AtStep DEF Loops
<1>3. CASE Draft(loop.rounds, "findings") /\ UNCHANGED call
  BY <1>1, <1>2, <1>3, DraftInv DEF Details
<1>4. CASE /\ InBudget(spent, ReviewBudget)
           /\ StartAgent("build", "fix", loop.round + 1, 1, BuildModels,
                         roundTimeout(spent, ReviewBudget), loop.session)
           /\ UNCHANGED sum
  <2>1. /\ Deadline(roundTimeout(spent, ReviewBudget)) \in Nat
        /\ spent + Deadline(roundTimeout(spent, ReviewBudget)) <= ReviewBudget
    BY <1>2, <1>4, DeadlineFits, BuildAssumption
  <2>2. /\ BuildModels \in Nat /\ BuildModels >= 1
        /\ loop.round \in Nat /\ loop.session \in Nat /\ loop.round + 1 - 1 = loop.round
    BY <1>2, BuildAssumption DEF Loops
  <2>3. /\ pc' = "agent" /\ call' \in Calls
        /\ call'.phase = "build" /\ call'.kind = "fix" /\ call'.round = loop.round + 1
        /\ call'.model = 1 /\ call'.last = BuildModels
        /\ call'.timeout = Deadline(roundTimeout(spent, ReviewBudget))
    BY <1>4, <2>1, <2>2 DEF StartAgent, Calls, Kinds
  <2>4. Types'
    BY <1>1, <1>4, <2>3 DEF IInv, Types, Points
  <2> QED BY <1>1, <1>2, <1>4, <2>1, <2>2, <2>3, <2>4, AtStep, StartedInv
<1> QED BY <1>3, <1>4 DEF BeginFix

(* A re-check takes what the review has left. *)
LEMMA RecheckInv == ASSUME IInv, Recheck PROVE IInv'
<1> DEFINE unchecked == [issued |-> loop.findings, open |-> {}, rechecked |-> FALSE]
<1>1. /\ pc = "recheck" /\ pc \in ReviewSteps /\ UNCHANGED <<job, spent, steps, tree>>
      /\ sum.phase = "review" /\ (loop.gate = "none" => tree.passed)
  BY DEF Recheck, IInv, PhaseFits, ReadyFits, ReviewSteps
<1>2. loop \in Loops /\ loop.rounds \in Seq(FixRound) /\ spent \in Nat /\ UpTo("build", loop.round)
  BY <1>1, AtStep DEF Loops
<1>3. CASE /\ Draft(Append(loop.rounds, unchecked), "findings") /\ UNCHANGED call
           /\ loop' = [loop EXCEPT !.rounds = Append(@, unchecked)]
  <2>1. unchecked \in FixRound
    BY <1>2 DEF Loops, FixRound
  <2>2. Append(loop.rounds, unchecked) \in Seq(FixRound)
    BY <1>2, <2>1
  <2>3. loop' \in Loops
    BY <1>2, <1>3, <2>2 DEF Loops
  <2> QED BY <1>1, <1>3, <2>2, <2>3, DraftInv DEF Details
<1>4. CASE Fail("checks-run") /\ UNCHANGED <<call, loop>>
  BY <1>1, <1>4, AtStep, FailInv DEF Reasons
<1>5. CASE /\ InBudget(spent, ReviewBudget)
           /\ StartAgent("review", "recheck", loop.round, 1, ReviewModels,
                         roundTimeout(spent, ReviewBudget), 0)
           /\ UNCHANGED <<sum, loop>>
  <2>1. /\ Deadline(roundTimeout(spent, ReviewBudget)) \in Nat
        /\ spent + Deadline(roundTimeout(spent, ReviewBudget)) <= ReviewBudget
    BY <1>2, <1>5, DeadlineFits, BuildAssumption
  <2>2. ReviewModels \in Nat /\ ReviewModels >= 1 /\ loop.round \in Nat
    BY <1>2, BuildAssumption DEF Loops
  <2>3. /\ pc' = "agent" /\ call' \in Calls
        /\ call'.phase = "review" /\ call'.kind = "recheck" /\ call'.round = loop.round
        /\ call'.model = 1 /\ call'.last = ReviewModels
        /\ call'.timeout = Deadline(roundTimeout(spent, ReviewBudget))
    BY <1>5, <2>1, <2>2 DEF StartAgent, Calls, Kinds
  <2>4. Types'
    BY <1>1, <1>5, <2>3 DEF IInv, Types, Points
  <2> QED BY <1>1, <1>2, <1>5, <2>1, <2>2, <2>3, <2>4, AtStep, StartedInv
<1> QED BY <1>3, <1>4, <1>5 DEF Recheck

(* A clean re-check is ready only when no gate is named. *)
LEMMA RecheckedInv == ASSUME IInv, Rechecked PROVE IInv'
<1>1. /\ pc = "rechecked" /\ pc \in ReviewSteps /\ UNCHANGED <<job, spent, call, steps>>
      /\ sum.phase = "review" /\ (loop.gate = "none" => tree.passed)
  BY DEF Rechecked, IInv, PhaseFits, ReadyFits, ReviewSteps
<1>2. loop \in Loops /\ loop.rounds \in Seq(FixRound) /\ loop.findings \in SUBSET Findings
  BY <1>1, AtStep DEF Loops
<1>3. CASE Fail("review-invalid") /\ UNCHANGED <<tree, loop>>
  BY <1>1, <1>3, AtStep, FailInv DEF Reasons
<1>4. ASSUME NEW remarks \in SUBSET Remarks, NEW open, open = loop.surviving \cup remarks,
             NEW rounds,
             rounds = Append(loop.rounds, [issued |-> loop.findings, open |-> open, rechecked |-> TRUE]),
             \/ /\ sum' = [sum EXCEPT !.phase = "commit", !.rows = reviewRows(rounds),
                                      !.ready = ReadyAfterFix(loop.gate),
                                      !.detail = checksDetail(loop.gate)]
                /\ pc' = "commit"
                /\ tree' = [tree EXCEPT !.read = TRUE]
                /\ loop' = [loop EXCEPT !.rounds = rounds]
             \/ /\ loop' = [loop EXCEPT !.rounds = rounds, !.findings = open, !.n = @ + 1]
                /\ pc' = "fix"
                /\ UNCHANGED <<sum, tree>>
             \/ /\ Draft(rounds, "findings")
                /\ loop' = [loop EXCEPT !.rounds = rounds]
                /\ UNCHANGED tree
      PROVE  IInv'
  <2>1. open \in SUBSET Findings
    BY <1>2, <1>4 DEF Loops, Findings
  <2>2. [issued |-> loop.findings, open |-> open, rechecked |-> TRUE] \in FixRound
    BY <1>2, <2>1 DEF FixRound
  <2>3. rounds \in Seq(FixRound)
    BY <1>2, <1>4, <2>2
  <2>4. CASE /\ sum' = [sum EXCEPT !.phase = "commit", !.rows = reviewRows(rounds),
                                   !.ready = ReadyAfterFix(loop.gate), !.detail = checksDetail(loop.gate)]
             /\ pc' = "commit"
             /\ tree' = [tree EXCEPT !.read = TRUE]
             /\ loop' = [loop EXCEPT !.rounds = rounds]
    <3>1. /\ reviewRows(rounds) \in Rows /\ checksDetail(loop.gate) \in Details
          /\ ReadyAfterFix(loop.gate) \in BOOLEAN
      BY <2>3, RowsAreRows DEF checksDetail, Details, ReadyAfterFix
    <3>2. sum' \in Sums /\ ~sum'.bundle /\ sum'.ready = ReadyAfterFix(loop.gate)
      <4> DEFINE rows == reviewRows(rounds)
                 ready == ReadyAfterFix(loop.gate)
                 detail == checksDetail(loop.gate)
      <4>1. sum' = [sum EXCEPT !.phase = "commit", !.rows = rows, !.ready = ready, !.detail = detail]
        BY <2>4
      <4>2. rows \in Rows /\ ready \in BOOLEAN /\ detail \in Details /\ sum \in Sums /\ ~sum.bundle
        BY <1>1, <3>1, AtStep
      <4>3. "commit" \in Phases
        BY DEF Phases
      <4> HIDE DEF rows, ready, detail
      <4>4. sum' \in Sums
        BY <4>1, <4>2, <4>3 DEF Sums
      <4>5. sum'.bundle = sum.bundle /\ sum'.ready = ready
        BY <4>1, <4>2 DEF Sums
      <4> QED BY <4>2, <4>4, <4>5 DEF ready
    <3>3. tree' \in Trees /\ tree'.passed = tree.passed /\ tree'.read /\ ~tree'.mutant
      BY <1>1, <2>4, AtStep DEF Trees
    <3>4. loop' \in Loops
      BY <1>2, <2>3, <2>4 DEF Loops
    <3>5. Types'
      BY <1>1, <2>4, <3>2, <3>3, <3>4 DEF IInv, Types, Points
    <3>6. sum'.ready => tree'.passed
      BY <1>1, <3>2, <3>3 DEF ReadyAfterFix
    <3> QED BY <2>4, <3>2, <3>3, <3>5, <3>6, CleanInv
  <2>5. CASE /\ loop' = [loop EXCEPT !.rounds = rounds, !.findings = open, !.n = @ + 1]
             /\ pc' = "fix"
             /\ UNCHANGED <<sum, tree>>
    <3>1. loop' \in Loops /\ loop'.round = loop.round
      <4> DEFINE m == loop.n + 1
      <4>1. m \in Nat
        BY <1>2 DEF Loops
      <4>2. loop' = [loop EXCEPT !.rounds = rounds, !.findings = open, !.n = m]
        BY <2>5
      <4> HIDE DEF m
      <4>3. loop' \in Loops
        BY <1>2, <2>1, <2>3, <4>1, <4>2 DEF Loops
      <4>4. loop'.round = loop.round
        BY <1>2, <4>2 DEF Loops
      <4> QED BY <4>3, <4>4
    <3>2. Types'
      BY <1>1, <2>5, <3>1 DEF IInv, Types, Points
    <3> QED BY <1>1, <2>5, <3>1, <3>2, AtStep, StepInv DEF ReviewSteps
  <2>6. CASE Draft(rounds, "findings") /\ loop' = [loop EXCEPT !.rounds = rounds] /\ UNCHANGED tree
    <3>1. loop' \in Loops
      BY <1>2, <2>3, <2>6 DEF Loops
    <3> QED BY <1>1, <2>3, <2>6, <3>1, DraftInv DEF Details
  <2> QED BY <1>4, <2>4, <2>5, <2>6
<1> QED BY <1>3, <1>4 DEF Rechecked

(* A job ends with what it had decided, and hands nothing on. *)
LEMMA EndInv ==
  ASSUME IInv, Types', pc' = "ended", sum'.ready = sum.ready, ~sum'.bundle, UNCHANGED tree
  PROVE  IInv'
<1>1. PhaseFits' /\ ReadyIsEarned'
  BY DEF PhaseFits, ReadyIsEarned, ReviewSteps, Before
<1>2. ReadyFits'
  BY DEF IInv, ReadyFits
<1>3. RoundsFit' /\ PlanFits' /\ AgentFitsItsStage' /\ CorrectionKeepsItsModel'
  BY DEF RoundsFit, PlanFits, AgentFitsItsStage, CorrectionKeepsItsModel, ReviewSteps, Before, BuildSteps
<1> QED BY <1>1, <1>2, <1>3 DEF IInv

(* A panic ends the job with nothing handed on. *)
LEMMA PanicInv == ASSUME IInv, Panic PROVE IInv'
<1>1. pc # "ended" /\ Stop(sum.phase, "panic") /\ call' = NoCall /\ loop' = NoLoop /\ UNCHANGED <<job, spent, steps, tree>>
  BY DEF Panic
<1>2. sum \in Sums /\ sum.phase \in Phases /\ ~sum.bundle
  BY <1>1 DEF IInv, Types, ReadyFits, Sums
<1>3. sum' \in Sums /\ pc' = "ended" /\ sum'.ready = sum.ready /\ sum'.bundle = sum.bundle
  BY <1>1, <1>2, StopIs DEF Reasons
<1>4. NoLoop \in Loops
  BY DEF NoLoop, Loops, Gates
<1>5. Types'
  BY <1>1, <1>3, <1>4, NoCallIs DEF IInv, Types, Points
<1> QED BY <1>1, <1>2, <1>3, <1>5, EndInv

(* So does a commit that fails. *)
LEMMA CommitFailsInv == ASSUME IInv, CommitFails PROVE IInv'
<1>1. pc \in {"commit", "keep"} /\ UNCHANGED <<job, spent, call, steps, tree, loop>>
  BY DEF CommitFails
<1>2. \E r \in Reasons : Stop("commit", r)
  BY DEF CommitFails, CommitStops, Reasons
<1>3. sum \in Sums /\ ~sum.bundle
  BY <1>1 DEF IInv, Types, ReadyFits
<1>4. sum' \in Sums /\ pc' = "ended" /\ sum'.ready = sum.ready /\ sum'.bundle = sum.bundle
  BY <1>2, <1>3, StopIs DEF Phases
<1>5. Types'
  BY <1>1, <1>4 DEF IInv, Types, Points
<1> QED BY <1>1, <1>3, <1>4, <1>5, EndInv

(* A commit is ready only when the review said so and nothing is out of the plan. *)
LEMMA CommitWorkInv == ASSUME IInv, CommitWork PROVE IInv'
<1>1. pc = "commit" /\ pc' = "ended" /\ UNCHANGED <<job, spent, call, steps, tree, loop>>
  BY DEF CommitWork
<1>2. /\ sum \in Sums /\ ~sum.bundle
      /\ sum.ready => tree.passed /\ tree.read /\ ~tree.mutant
  BY <1>1 DEF IInv, Types, ReadyFits
<1>3. CASE sum' = [sum EXCEPT !.outcome = "no-changes"]
  <2>1. sum' \in Sums /\ sum'.ready = sum.ready /\ sum'.bundle = sum.bundle
    BY <1>2, <1>3 DEF Sums, Outcomes
  <2>2. Types'
    BY <1>1, <2>1 DEF IInv, Types, Points
  <2> QED BY <1>1, <1>2, <2>1, <2>2, EndInv
<1>4. ASSUME NEW extra \in BOOLEAN, NEW workflow \in BOOLEAN,
             sum' = [sum EXCEPT !.outcome = IF workflow THEN "stopped" ELSE "built",
                                !.reason  = IF workflow THEN "workflow-change" ELSE "none",
                                !.ready   = sum.ready /\ ~extra /\ ~workflow,
                                !.extra   = extra, !.bundle = TRUE]
      PROVE  IInv'
  <2> DEFINE outcome == IF workflow THEN "stopped" ELSE "built"
             reason  == IF workflow THEN "workflow-change" ELSE "none"
             ready   == sum.ready /\ ~extra /\ ~workflow
  <2>1. sum' = [sum EXCEPT !.outcome = outcome, !.reason = reason, !.ready = ready, !.extra = extra, !.bundle = TRUE]
    BY <1>4
  <2>2. outcome \in Outcomes /\ reason \in Reasons
    BY DEF Outcomes, Reasons
  <2>3. ready \in BOOLEAN /\ (ready => sum.ready /\ ~extra /\ outcome = "built")
    BY Zenon
  <2> HIDE DEF outcome, reason, ready
  <2>4. sum' \in Sums
    BY <1>2, <2>1, <2>2, <2>3 DEF Sums
  <2>5. sum'.ready = ready /\ sum'.outcome = outcome /\ sum'.extra = extra
    BY <1>2, <2>1 DEF Sums
  <2>6. Types'
    BY <1>1, <2>4 DEF IInv, Types, Points
  <2>7. ReadyIsEarned' /\ ReadyFits'
    BY <1>1, <1>2, <2>3, <2>5 DEF ReadyIsEarned, ReadyFits
  <2>8. PhaseFits' /\ RoundsFit' /\ PlanFits'
    BY <1>1 DEF PhaseFits, RoundsFit, PlanFits, ReviewSteps, Before, BuildSteps
  <2>9. AgentFitsItsStage' /\ CorrectionKeepsItsModel'
    BY <1>1 DEF AgentFitsItsStage, CorrectionKeepsItsModel
  <2> QED BY <2>6, <2>7, <2>8, <2>9 DEF IInv
<1> QED BY <1>3, <1>4 DEF CommitWork

(* Kept work is never ready. *)
LEMMA KeepWorkInv == ASSUME IInv, KeepWork PROVE IInv'
<1>1. pc = "keep" /\ pc' = "ended" /\ UNCHANGED <<job, spent, call, steps, tree, loop>>
  BY DEF KeepWork
<1>2. sum \in Sums /\ ~sum.ready
  BY <1>1 DEF IInv, Types, ReadyFits
<1>3. sum' \in Sums /\ ~sum'.ready
  <2>1. CASE UNCHANGED sum
    BY <1>2, <2>1
  <2>2. ASSUME NEW extra \in BOOLEAN, sum' = [sum EXCEPT !.detail = "kept", !.extra = extra, !.bundle = TRUE]
        PROVE  sum' \in Sums /\ ~sum'.ready
    BY <1>2, <2>2 DEF Sums, Details
  <2>3. CASE sum' = [sum EXCEPT !.phase = "commit", !.outcome = "stopped", !.reason = "workflow-change",
                                !.bundle = TRUE]
    BY <1>2, <2>3 DEF Sums, Phases, Outcomes, Reasons
  <2> QED BY <2>1, <2>2, <2>3 DEF KeepWork
<1>4. Types'
  BY <1>1, <1>3 DEF IInv, Types, Points
<1>5. ReadyIsEarned' /\ ReadyFits'
  BY <1>1, <1>3 DEF ReadyIsEarned, ReadyFits
<1>6. PhaseFits' /\ RoundsFit' /\ PlanFits'
  BY <1>1 DEF PhaseFits, RoundsFit, PlanFits, ReviewSteps, Before, BuildSteps
<1>7. AgentFitsItsStage' /\ CorrectionKeepsItsModel'
  BY <1>1 DEF AgentFitsItsStage, CorrectionKeepsItsModel
<1> QED BY <1>4, <1>5, <1>6, <1>7 DEF IInv

(* A step that changes nothing keeps the invariant. *)
LEMMA StutterInv == ASSUME IInv, UNCHANGED vars PROVE IInv'
<1>1. Types' /\ PhaseFits' /\ ReadyFits' /\ ReadyIsEarned'
  BY DEF IInv, vars, Types, PhaseFits, ReadyFits, ReadyIsEarned
<1>2. RoundsFit' /\ PlanFits'
  BY DEF IInv, vars, RoundsFit, PlanFits, UpTo
<1>3. AgentFitsItsStage' /\ CorrectionKeepsItsModel'
  BY DEF IInv, vars, AgentFitsItsStage, CorrectionKeepsItsModel, Budget
<1> QED BY <1>1, <1>2, <1>3 DEF IInv

(* Every step of a model job preserves the invariant. *)
LEMMA NextInv == IInv /\ [Next]_vars => IInv'
<1> SUFFICES ASSUME IInv, [Next]_vars PROVE IInv'
  OBVIOUS
<1>1. CASE Preflight \/ Projection \/ AddWorktree \/ AgentStart
  BY <1>1, PreflightInv, ProjectionInv, AddWorktreeInv, AgentStartInv
<1>2. CASE AgentAnswers \/ AgentMoves \/ AgentFails \/ UploadFails
  BY <1>2, AgentAnswersInv, AgentMovesInv, AgentFailsInv, UploadFailsInv
<1>3. CASE BeginPlan \/ PlanAnswered \/ BeginBuild \/ Built
  BY <1>3, BeginPlanInv, PlanAnsweredInv, BeginBuildInv, BuiltInv
<1>4. CASE RunChecks \/ FormatInPlace \/ Judge \/ ScanDiff
  BY <1>4, RunChecksInv, FormatInPlaceInv, JudgeInv, ScanDiffInv
<1>5. CASE BeginReview \/ Reviewed \/ BeginFix \/ RescanGuards
  BY <1>5, BeginReviewInv, ReviewedInv, BeginFixInv, RescanGuardsInv
<1>6. CASE Recheck \/ Rechecked \/ CommitFails \/ CommitWork \/ KeepWork \/ Panic
  BY <1>6, RecheckInv, RecheckedInv, CommitFailsInv, CommitWorkInv, KeepWorkInv, PanicInv
<1>7. CASE UNCHANGED vars
  BY <1>7, StutterInv
<1> QED BY <1>1, <1>2, <1>3, <1>4, <1>5, <1>6, <1>7 DEF Next

(* The invariant holds in every state of a model job. *)
LEMMA InvHolds == Spec => []IInv
  BY InitInv, NextInv, PTL DEF Spec
-----------------------------------------------------------------------------
(* The theorems *)

(* In every state of a model job its variables hold what the code's types say, and an   *)
(* agent runs on a model of its own order.                                              *)
THEOREM TypeCorrect == Spec => []TypeOK
  BY InvHolds, TypesGiveTypeOK, PTL

(* Whatever the agents, the checks and git answer, and however many models, rounds and  *)
(* findings there are, a branch Build hands on as ready passed the checks and a clean   *)
(* review as it is, holds no broken guard and nothing outside the plan.                 *)
THEOREM ReadyBranchesEarnedIt == Spec => []ReadyIsEarned
<1>1. IInv => ReadyIsEarned
  BY DEF IInv
<1> QED BY InvHolds, <1>1, PTL

(* No agent runAgentInOrder starts can outlive the budget of the stage that pays for    *)
(* it, whatever the budgets and the configured timeout are.                             *)
THEOREM AgentsFitTheirStage == Spec => []AgentFitsItsStage
<1>1. IInv => AgentFitsItsStage
  BY DEF IInv
<1> QED BY InvHolds, <1>1, PTL

(* The plan and build agents never run under a round whose completions are already      *)
(* recorded, so no record of theirs is overwritten.                                     *)
THEOREM BuildRoundsStayFresh == Spec => []BuildRoundsAreFresh
<1>1. IInv => BuildRoundsAreFresh
  <2> SUFFICES ASSUME IInv, pc = "agent", call.phase # "review",
                      <<call.phase, call.round>> \in steps
               PROVE  FALSE
    BY DEF BuildRoundsAreFresh, completionsObject
  <2>1. call.round \in Nat
    BY DEF IInv, Types, Calls
  <2>2. call.round <= call.round - 1
    BY DEF IInv, RoundsFit, UpTo
  <2> QED BY <2>1, <2>2
<1> QED BY InvHolds, <1>1, PTL

(* A plan's correction goes first to the model whose session it resumes, for any order  *)
(* of models.                                                                           *)
THEOREM CorrectionsKeepTheirModel == Spec => []CorrectionKeepsItsModel
<1>1. IInv => CorrectionKeepsItsModel
  BY DEF IInv
<1> QED BY InvHolds, <1>1, PTL
-----------------------------------------------------------------------------
(* The build agent's rounds *)

(* The rounds that many check passes and fix rounds may use, one for each model. *)
Allowed(k) == k * BuildModels

(* The points at which a fix round is under way, and those at which a check pass is. *)
AgentIs(kinds) == pc = "agent" /\ call.kind \in kinds
Fixing   == \/ pc \in {"rescan", "recheck", "rechecked"} \/ AgentIs({"recheck"})
            \/ pc \in {"checks", "format"} /\ sum.phase = "review"
Checking == pc \in {"checks", "format", "judge"} /\ sum.phase # "review"

(* Each check pass, and after them each fix round, counts on from what the ones before *)
(* it may have used.                                                                   *)
RoundsCounted ==
  /\ AgentIs({"build", "rebuild", "fix"}) => call.last = BuildModels
  /\ AgentIs({"build"}) => call.round = call.model
  /\ AgentIs({"rebuild"}) =>
       loop.n \in 2..CheckLoopMaxRounds /\ call.round <= Allowed(loop.n - 1) + call.model
  /\ AgentIs({"fix"}) =>
       loop.n \in 1..MaxFixRounds /\ call.round <= Allowed(CheckLoopMaxRounds + loop.n - 1) + call.model
  /\ pc = "built" => loop.round <= BuildModels
  /\ Checking => loop.n \in 1..CheckLoopMaxRounds /\ loop.round <= Allowed(loop.n)
  /\ pc \in {"scan", "review", "reviewed"} \/ AgentIs({"review"}) => loop.round <= Allowed(CheckLoopMaxRounds)
  /\ pc = "fix" => loop.n \in 1..MaxFixRounds /\ loop.round <= Allowed(CheckLoopMaxRounds + loop.n - 1)
  /\ Fixing => loop.n \in 1..MaxFixRounds /\ loop.round <= Allowed(CheckLoopMaxRounds + loop.n)


(* What the numbers of models and rounds are. *)
LEMMA LimitsAre ==
  /\ BuildModels \in Nat /\ CheckLoopMaxRounds \in Nat /\ MaxFixRounds \in Nat
  /\ CheckLoopMaxRounds >= 1 /\ MaxFixRounds >= 1
  BY BuildAssumption

(* The bound grows by one order of models at a time. *)
LEMMA AllowedIs ==
  /\ Allowed(1) = BuildModels
  /\ \A k \in Nat : Allowed(k) \in Nat
  /\ \A k \in Nat : Allowed(k + 1) = Allowed(k) + BuildModels
  /\ \A j, k \in Nat : j <= k => Allowed(j) <= Allowed(k)
<1>1. BuildModels \in Nat
  BY LimitsAre
<1>2. Allowed(1) = BuildModels /\ \A k \in Nat : Allowed(k) \in Nat
  BY <1>1 DEF Allowed
<1>3. \A k \in Nat : Allowed(k + 1) = Allowed(k) + BuildModels
  BY <1>1 DEF Allowed
<1>4. ASSUME NEW j \in Nat, NEW k \in Nat, j <= k PROVE Allowed(j) <= Allowed(k)
  <2>1. PICK d \in Nat : k = j + d
    <3>1. k - j \in Nat /\ k = j + (k - j)
      BY <1>4
    <3> QED BY <3>1
  <2>2. k * BuildModels = j * BuildModels + d * BuildModels
    BY <1>1, <2>1
  <2>3. d * BuildModels \in Nat /\ j * BuildModels \in Nat
    BY <1>1
  <2> QED BY <2>2, <2>3 DEF Allowed
<1> QED BY <1>2, <1>3, <1>4

(* Away from the build and the review there is nothing to count. *)
LEMMA IdleCounted ==
  ASSUME pc' \in Resting \cup Before \cup {"planned", "build"} PROVE RoundsCounted'
  BY DEF RoundsCounted, AgentIs, Fixing, Checking, Resting, Before

(* A failure leads to the commit, to the kept work or to the end. *)
LEMMA FailRests == ASSUME NEW r, Fail(r) PROVE pc' \in Resting
  BY DEF Fail, Stop, Resting

(* The numbers the counting is about. *)
LEMMA NumbersIs ==
  ASSUME IInv
  PROVE  /\ loop \in Loops /\ loop.n \in Nat /\ loop.round \in Nat /\ loop.session \in Nat
         /\ call.round \in Nat /\ call.model \in Nat /\ call.last \in Nat
  BY DEF IInv, Types, Loops, Calls

(* The steps that begin no round and end none. *)
LEMMA QuietCounted ==
  ASSUME IInv, Preflight \/ Projection \/ AddWorktree \/ AgentStart \/ AgentFails \/ UploadFails
               \/ BeginPlan \/ PlanAnswered \/ CommitFails \/ CommitWork \/ KeepWork \/ Panic
  PROVE  RoundsCounted'
<1>1. ASSUME Preflight \/ Projection \/ AddWorktree \/ AgentStart PROVE RoundsCounted'
  <2>1. pc' \in Resting \cup Before \cup {"build"}
    BY <1>1 DEF Preflight, Projection, AddWorktree, AgentStart, Stop, Enter, Resting, Before
  <2> QED BY <2>1, IdleCounted
<1>2. ASSUME AgentFails \/ UploadFails PROVE RoundsCounted'
  <2>1. \E r : Fail(r)
    BY <1>2 DEF AgentFails, UploadFails
  <2> QED BY <2>1, FailRests, IdleCounted
<1>3. ASSUME BeginPlan \/ PlanAnswered PROVE RoundsCounted'
  <2>1. \/ pc' \in Resting \cup {"build"}
        \/ pc' = "agent" /\ call'.kind \in {"plan", "correct"}
    BY <1>3 DEF BeginPlan, PlanAnswered, Plans, Stop, Enter, StartAgent, Resting
  <2>2. ASSUME pc' = "agent", call'.kind \in {"plan", "correct"} PROVE RoundsCounted'
    BY <2>2 DEF RoundsCounted, AgentIs, Fixing, Checking
  <2> QED BY <2>1, <2>2, IdleCounted
<1>4. ASSUME CommitFails \/ CommitWork \/ KeepWork \/ Panic PROVE RoundsCounted'
  <2>1. pc' \in Resting
    BY <1>4 DEF CommitFails, CommitWork, KeepWork, Panic, Stop, Resting
  <2> QED BY <2>1, IdleCounted
<1> QED BY <1>1, <1>2, <1>3, <1>4

(* The agent's own steps: it answers as the last of the models its round allows, or *)
(* moves to the next of them under the next round.                                  *)
LEMMA AgentCounted == ASSUME IInv, RoundsCounted, AgentAnswers \/ AgentMoves PROVE RoundsCounted'
<1>1. pc = "agent" /\ call.model \in 1..call.last /\ call.kind \in Kinds
  BY DEF IInv, PhaseFits, AgentAnswers, AgentMoves
<1>2. /\ call.kind \in {"review", "recheck"} <=> call.phase = "review"
      /\ call.kind \in {"review", "fix", "recheck"} <=> sum.phase = "review"
  BY <1>1 DEF IInv, PhaseFits
<1>3. ASSUME AgentAnswers PROVE RoundsCounted'
  <2>1. /\ pc' = After[call.kind] /\ sum' = sum
        /\ loop' = IF call.phase = "review" THEN loop
                   ELSE [loop EXCEPT !.round = call.round, !.session = call.model]
    BY <1>3 DEF AgentAnswers, AnsweredRound
  <2>2. loop'.n = loop.n /\ loop'.round = IF call.phase = "review" THEN loop.round ELSE call.round
    BY <2>1, NumbersIs DEF Loops
  <2>3. ASSUME call.kind \in {"plan", "correct"} PROVE RoundsCounted'
    BY <2>1, <2>3, IdleCounted DEF After
  <2>4. ASSUME call.kind = "build" PROVE RoundsCounted'
    <3>1. pc' = "built"
      BY <2>1, <2>4 DEF After
    <3>2. loop'.round <= BuildModels
      BY <1>1, <1>2, <2>2, <2>4, NumbersIs DEF RoundsCounted, AgentIs
    <3> QED BY <3>1, <3>2 DEF RoundsCounted, AgentIs, Fixing, Checking
  <2>5. ASSUME call.kind = "rebuild" PROVE RoundsCounted'
    <3>1. pc' = "checks" /\ sum'.phase # "review"
      BY <1>2, <2>1, <2>5 DEF After
    <3>2. /\ loop'.n = loop.n /\ loop'.round = call.round /\ loop.n \in 2..CheckLoopMaxRounds
          /\ call.round <= Allowed(loop.n - 1) + call.model /\ call.model <= BuildModels
      BY <1>1, <1>2, <2>2, <2>5, NumbersIs DEF RoundsCounted, AgentIs
    <3>3. PICK k \in Nat : k = loop.n - 1
      BY <3>2, LimitsAre
    <3>4. loop.n = k + 1 /\ Allowed(loop.n) = Allowed(k) + BuildModels /\ Allowed(k) \in Nat
      <4>1. loop.n = k + 1
        BY <3>3, NumbersIs
      <4> QED BY <4>1, AllowedIs
    <3>5. loop'.round <= Allowed(loop'.n) /\ loop'.n \in 1..CheckLoopMaxRounds
      BY <3>2, <3>3, <3>4, LimitsAre, NumbersIs
    <3> QED BY <3>1, <3>5 DEF RoundsCounted, AgentIs, Fixing, Checking
  <2>6. ASSUME call.kind = "fix" PROVE RoundsCounted'
    <3>1. pc' = "checks" /\ sum'.phase = "review"
      BY <1>2, <2>1, <2>6 DEF After
    <3>2. /\ loop'.n = loop.n /\ loop'.round = call.round /\ loop.n \in 1..MaxFixRounds
          /\ call.round <= Allowed(CheckLoopMaxRounds + loop.n - 1) + call.model
          /\ call.model <= BuildModels
      BY <1>1, <1>2, <2>2, <2>6, NumbersIs DEF RoundsCounted, AgentIs
    <3>3. PICK k \in Nat : k = CheckLoopMaxRounds + loop.n - 1
      BY <3>2, LimitsAre
    <3>4. /\ CheckLoopMaxRounds + loop.n = k + 1 /\ Allowed(k) \in Nat
          /\ Allowed(CheckLoopMaxRounds + loop.n) = Allowed(k) + BuildModels
      <4>1. CheckLoopMaxRounds + loop.n = k + 1
        BY <3>3, LimitsAre, NumbersIs
      <4> QED BY <4>1, AllowedIs
    <3>5. loop'.round <= Allowed(CheckLoopMaxRounds + loop'.n) /\ loop'.n \in 1..MaxFixRounds
      BY <3>2, <3>3, <3>4, LimitsAre, NumbersIs
    <3> QED BY <3>1, <3>5 DEF RoundsCounted, AgentIs, Fixing, Checking
  <2>7. ASSUME call.kind = "review" PROVE RoundsCounted'
    <3>1. pc' = "reviewed" /\ loop'.round = loop.round
      BY <1>2, <2>1, <2>2, <2>7 DEF After
    <3>2. loop.round <= Allowed(CheckLoopMaxRounds)
      BY <1>1, <2>7 DEF RoundsCounted, AgentIs
    <3> QED BY <3>1, <3>2 DEF RoundsCounted, AgentIs, Fixing, Checking
  <2>8. ASSUME call.kind = "recheck" PROVE RoundsCounted'
    <3>1. pc' = "rechecked" /\ loop'.round = loop.round /\ loop'.n = loop.n
      BY <1>2, <2>1, <2>2, <2>8 DEF After
    <3>2. loop.n \in 1..MaxFixRounds /\ loop.round <= Allowed(CheckLoopMaxRounds + loop.n)
      BY <1>1, <2>8 DEF RoundsCounted, AgentIs, Fixing
    <3> QED BY <3>1, <3>2 DEF RoundsCounted, AgentIs, Fixing, Checking
  <2> QED BY <1>1, <2>3, <2>4, <2>5, <2>6, <2>7, <2>8 DEF Kinds
<1>4. ASSUME AgentMoves PROVE RoundsCounted'
  <2>1. ASSUME NEW r, Fail(r) PROVE RoundsCounted'
    BY <2>1, FailRests, IdleCounted
  <2>2. ASSUME StartAgent(call.phase, call.kind, call.round + 1, call.model + 1, call.last,
                          NextTimeout(spent', Budget), call.session),
               UNCHANGED sum, UNCHANGED loop
        PROVE  RoundsCounted'
    <3>1. /\ pc' = "agent" /\ call'.kind = call.kind /\ call'.round = call.round + 1
          /\ call'.model = call.model + 1 /\ call'.last = call.last
      BY <2>2 DEF StartAgent
    <3>2. /\ AgentIs({"build", "rebuild", "fix"})' => call'.last = BuildModels
          /\ AgentIs({"build"})' => call'.round = call'.model
      BY <1>1, <3>1 DEF RoundsCounted, AgentIs
    <3>3. AgentIs({"rebuild"})' =>
            loop'.n \in 2..CheckLoopMaxRounds /\ call'.round <= Allowed(loop'.n - 1) + call'.model
      <4> SUFFICES ASSUME call.kind = "rebuild"
                   PROVE  loop.n \in 2..CheckLoopMaxRounds /\ call'.round <= Allowed(loop.n - 1) + call'.model
        BY <2>2, <3>1 DEF AgentIs
      <4>1. loop.n \in 2..CheckLoopMaxRounds /\ call.round <= Allowed(loop.n - 1) + call.model
        BY <1>1 DEF RoundsCounted, AgentIs
      <4>2. PICK k \in Nat : k = loop.n - 1
        BY <4>1, LimitsAre
      <4>3. Allowed(k) \in Nat /\ call.round <= Allowed(k) + call.model
        BY <4>1, <4>2, AllowedIs
      <4>4. call'.round <= Allowed(k) + call'.model
        BY <3>1, <4>3, NumbersIs
      <4> QED BY <4>1, <4>2, <4>4
    <3>4. AgentIs({"fix"})' =>
            /\ loop'.n \in 1..MaxFixRounds
            /\ call'.round <= Allowed(CheckLoopMaxRounds + loop'.n - 1) + call'.model
      <4> SUFFICES ASSUME call.kind = "fix"
                   PROVE  /\ loop.n \in 1..MaxFixRounds
                          /\ call'.round <= Allowed(CheckLoopMaxRounds + loop.n - 1) + call'.model
        BY <2>2, <3>1 DEF AgentIs
      <4>1. loop.n \in 1..MaxFixRounds /\ call.round <= Allowed(CheckLoopMaxRounds + loop.n - 1) + call.model
        BY <1>1 DEF RoundsCounted, AgentIs
      <4>2. PICK k \in Nat : k = CheckLoopMaxRounds + loop.n - 1
        BY <4>1, LimitsAre
      <4>3. Allowed(k) \in Nat /\ call.round <= Allowed(k) + call.model
        BY <4>1, <4>2, AllowedIs
      <4>4. call'.round <= Allowed(k) + call'.model
        BY <3>1, <4>3, NumbersIs
      <4> QED BY <4>1, <4>2, <4>4
    <3>5. AgentIs({"review"})' => loop'.round <= Allowed(CheckLoopMaxRounds)
      BY <1>1, <2>2, <3>1 DEF RoundsCounted, AgentIs
    <3>6. AgentIs({"recheck"})' =>
            loop'.n \in 1..MaxFixRounds /\ loop'.round <= Allowed(CheckLoopMaxRounds + loop'.n)
      BY <1>1, <2>2, <3>1 DEF RoundsCounted, AgentIs, Fixing
    <3> QED BY <3>1, <3>2, <3>3, <3>4, <3>5, <3>6 DEF RoundsCounted, Fixing, Checking
  <2> QED BY <1>4, <2>1, <2>2 DEF AgentMoves
<1> QED BY <1>3, <1>4
(* The check loop begins a pass under the rounds the ones before it left. *)
LEMMA LoopCounted ==
  ASSUME IInv, RoundsCounted, BeginBuild \/ Built \/ RunChecks \/ FormatInPlace \/ Judge
  PROVE  RoundsCounted'
<1>1. ASSUME NEW r, Fail(r) PROVE RoundsCounted'
  BY <1>1, FailRests, IdleCounted
<1>2. ASSUME BeginBuild PROVE RoundsCounted'
  <2>1. \/ pc' = "keep"
        \/ /\ pc' = "agent" /\ call'.kind = "build" /\ call'.round = 1 /\ call'.model = 1
           /\ call'.last = BuildModels
    BY <1>2 DEF BeginBuild, StartAgent
  <2> QED BY <2>1, IdleCounted DEF RoundsCounted, AgentIs, Fixing, Checking, Resting
<1>3. ASSUME Built PROVE RoundsCounted'
  <2>1. ASSUME pc' = "commit" PROVE RoundsCounted'
    BY <2>1, IdleCounted DEF Resting
  <2>2. ASSUME pc' = "checks", loop' = [loop EXCEPT !.n = 1], UNCHANGED sum PROVE RoundsCounted'
    <3>1. sum'.phase # "review" /\ loop.round <= BuildModels
      BY <1>3, <2>2 DEF Built, IInv, PhaseFits, RoundsCounted
    <3>2. loop'.n = 1 /\ loop'.round = loop.round
      BY <2>2, NumbersIs DEF Loops
    <3>3. loop'.n \in 1..CheckLoopMaxRounds
      BY <3>2, LimitsAre
    <3>4. loop'.round <= Allowed(loop'.n)
      <4>1. Allowed(loop'.n) = BuildModels
        BY <3>2, AllowedIs, Zenon
      <4> QED BY <3>1, <3>2, <4>1
    <3> QED BY <2>2, <3>1, <3>3, <3>4 DEF RoundsCounted, AgentIs, Fixing, Checking
  <2> QED BY <1>1, <1>3, <2>1, <2>2 DEF Built, Enter
<1>4. ASSUME pc \in {"checks", "format"}, sum' = sum, loop'.n = loop.n, loop'.round = loop.round,
             \/ pc' \in {"checks", "format"}
             \/ pc' = "rescan" /\ sum.phase = "review"
             \/ pc' = "judge" /\ sum.phase # "review"
      PROVE  RoundsCounted'
  BY <1>4 DEF RoundsCounted, AgentIs, Fixing, Checking
<1>5. ASSUME RunChecks PROVE RoundsCounted'
  <2>1. ASSUME NEW gate, loop' = [loop EXCEPT !.gate = gate, !.formatted = IF gate \in FormatGates \ @ THEN @ ELSE {}],
               pc' = IF gate \in FormatGates \ loop.formatted THEN "format"
                     ELSE IF sum.phase = "review" THEN "rescan" ELSE "judge",
               UNCHANGED sum
        PROVE  RoundsCounted'
    <3>1. loop'.n = loop.n /\ loop'.round = loop.round
      BY <2>1, NumbersIs DEF Loops
    <3>2. pc = "checks"
      BY <1>5 DEF RunChecks
    <3>3. \/ pc' = "format"
          \/ pc' = "rescan" /\ sum.phase = "review"
          \/ pc' = "judge" /\ sum.phase # "review"
      BY <2>1
    <3> QED BY <1>4, <2>1, <3>1, <3>2, <3>3
  <2> QED BY <1>1, <1>5, <2>1 DEF RunChecks
<1>6. ASSUME FormatInPlace PROVE RoundsCounted'
  <2>1. ASSUME pc' = "checks", loop' = [loop EXCEPT !.formatted = @ \cup {loop.gate}], UNCHANGED sum
        PROVE  RoundsCounted'
    <3>1. loop'.n = loop.n /\ loop'.round = loop.round
      BY <2>1, NumbersIs DEF Loops
    <3>2. pc = "format"
      BY <1>6 DEF FormatInPlace
    <3> QED BY <1>4, <2>1, <3>1, <3>2
  <2> QED BY <1>1, <1>6, <2>1 DEF FormatInPlace
<1>7. ASSUME Judge PROVE RoundsCounted'
  <2>1. pc = "judge" /\ sum.phase # "review" /\ Checking
    BY <1>7 DEF Judge, IInv, PhaseFits, Checking
  <2>2. loop.n \in 1..CheckLoopMaxRounds /\ loop.round <= Allowed(loop.n)
    BY <2>1 DEF RoundsCounted
  <2>3. ASSUME pc' = "scan", UNCHANGED loop PROVE RoundsCounted'
    <3>1. Allowed(loop.n) <= Allowed(CheckLoopMaxRounds)
      <4>1. loop.n <= CheckLoopMaxRounds /\ loop.n \in Nat /\ CheckLoopMaxRounds \in Nat
        BY <2>2, LimitsAre, NumbersIs
      <4> QED BY <4>1, AllowedIs, Zenon
    <3>2. Allowed(loop.n) \in Nat /\ Allowed(CheckLoopMaxRounds) \in Nat
      BY AllowedIs, LimitsAre, NumbersIs, Zenon
    <3>3. loop'.round <= Allowed(CheckLoopMaxRounds)
      BY <2>2, <2>3, <3>1, <3>2, NumbersIs
    <3> QED BY <2>3, <3>3 DEF RoundsCounted, AgentIs, Fixing, Checking
  <2>4. ASSUME pc' = "commit" PROVE RoundsCounted'
    BY <2>4, IdleCounted DEF Resting
  <2>5. ASSUME ~LastPass(loop.n),
               StartAgent("build", "rebuild", loop.round + 1, 1, BuildModels,
                          roundTimeout(spent, BuildBudget), loop.session),
               loop' = [loop EXCEPT !.n = @ + 1]
        PROVE  RoundsCounted'
    <3>1. /\ pc' = "agent" /\ call'.kind = "rebuild" /\ call'.round = loop.round + 1
          /\ call'.model = 1 /\ call'.last = BuildModels
      BY <2>5 DEF StartAgent
    <3>2. loop'.n = loop.n + 1
      BY <2>5, NumbersIs DEF Loops
    <3>3. loop'.n \in 2..CheckLoopMaxRounds /\ loop'.n - 1 = loop.n
      BY <2>2, <2>5, <3>2, NumbersIs, LimitsAre DEF LastPass
    <3>4. call'.round <= Allowed(loop'.n - 1) + call'.model
      <4>1. Allowed(loop.n) \in Nat /\ Allowed(loop'.n - 1) = Allowed(loop.n)
        BY <3>3, NumbersIs, AllowedIs, Zenon
      <4> QED BY <2>2, <3>1, <4>1, NumbersIs
    <3> QED BY <3>1, <3>3, <3>4 DEF RoundsCounted, AgentIs, Fixing, Checking
  <2> QED BY <1>7, <2>3, <2>4, <2>5 DEF Judge, Enter
<1> QED BY <1>2, <1>3, <1>5, <1>6, <1>7

(* The review counts no round of its own; a fix round takes the next order of models. *)
LEMMA ReviewCounted ==
  ASSUME IInv, RoundsCounted,
         ScanDiff \/ BeginReview \/ Reviewed \/ BeginFix \/ RescanGuards \/ Recheck \/ Rechecked
  PROVE  RoundsCounted'
<1>1. ASSUME NEW r, Fail(r) PROVE RoundsCounted'
  BY <1>1, FailRests, IdleCounted
<1>2. ASSUME pc' = "commit" PROVE RoundsCounted'
  BY <1>2, IdleCounted DEF Resting
<1>3. ASSUME NEW g, loop' = [loop EXCEPT !.surviving = g] PROVE loop'.n = loop.n /\ loop'.round = loop.round
  BY <1>3, NumbersIs DEF Loops
<1>4. ASSUME ScanDiff PROVE RoundsCounted'
  <2>1. ASSUME NEW g, loop' = [loop EXCEPT !.surviving = g], pc' = "review" PROVE RoundsCounted'
    <3>1. loop'.round = loop.round /\ loop.round <= Allowed(CheckLoopMaxRounds)
      BY <1>3, <1>4, <2>1 DEF ScanDiff, RoundsCounted
    <3> QED BY <2>1, <3>1 DEF RoundsCounted, AgentIs, Fixing, Checking
  <2> QED BY <1>1, <1>4, <2>1 DEF ScanDiff, ScanGuards
<1>5. ASSUME BeginReview PROVE RoundsCounted'
  <2>1. ASSUME pc' = "agent", call'.kind = "review" PROVE RoundsCounted'
    <3>1. loop' = loop /\ loop.round <= Allowed(CheckLoopMaxRounds)
      BY <1>5 DEF BeginReview, RoundsCounted
    <3> QED BY <2>1, <3>1 DEF RoundsCounted, AgentIs, Fixing, Checking
  <2> QED BY <1>1, <1>5, <2>1 DEF BeginReview, StartAgent
<1>6. ASSUME Reviewed PROVE RoundsCounted'
  <2>1. ASSUME NEW pending, loop' = [loop EXCEPT !.findings = pending, !.n = 1], pc' = "fix"
        PROVE  RoundsCounted'
    <3>1. loop'.n = 1 /\ loop'.round = loop.round
      BY <2>1, NumbersIs DEF Loops
    <3>2. loop.round <= Allowed(CheckLoopMaxRounds)
      BY <1>6 DEF Reviewed, RoundsCounted
    <3>3. CheckLoopMaxRounds + loop'.n - 1 = CheckLoopMaxRounds /\ loop'.n \in 1..MaxFixRounds
      BY <3>1, LimitsAre
    <3> QED BY <2>1, <3>1, <3>2, <3>3 DEF RoundsCounted, AgentIs, Fixing, Checking
  <2> QED BY <1>1, <1>2, <1>6, <2>1 DEF Reviewed
<1>7. ASSUME BeginFix PROVE RoundsCounted'
  <2>1. ASSUME StartAgent("build", "fix", loop.round + 1, 1, BuildModels,
                          roundTimeout(spent, ReviewBudget), loop.session)
        PROVE  RoundsCounted'
    <3>1. /\ pc' = "agent" /\ call'.kind = "fix" /\ call'.round = loop.round + 1
          /\ call'.model = 1 /\ call'.last = BuildModels
      BY <2>1 DEF StartAgent
    <3>2. loop' = loop /\ loop.n \in 1..MaxFixRounds /\ loop.round <= Allowed(CheckLoopMaxRounds + loop.n - 1)
      BY <1>7 DEF BeginFix, RoundsCounted
    <3>3. PICK k \in Nat : k = CheckLoopMaxRounds + loop.n - 1
      BY <3>2, LimitsAre
    <3>4. Allowed(k) \in Nat /\ loop.round <= Allowed(k)
      BY <3>2, <3>3, AllowedIs
    <3>5. call'.round <= Allowed(k) + call'.model
      BY <3>1, <3>4, NumbersIs
    <3>6. call'.round <= Allowed(CheckLoopMaxRounds + loop'.n - 1) + call'.model
      BY <3>2, <3>3, <3>5
    <3> QED BY <3>1, <3>2, <3>6 DEF RoundsCounted, AgentIs, Fixing, Checking
  <2> QED BY <1>2, <1>7, <2>1 DEF BeginFix, Draft
<1>8. ASSUME Fixing PROVE loop.n \in 1..MaxFixRounds /\ loop.round <= Allowed(CheckLoopMaxRounds + loop.n)
  BY <1>8 DEF RoundsCounted
<1>9. ASSUME RescanGuards PROVE RoundsCounted'
  <2>1. ASSUME NEW g, loop' = [loop EXCEPT !.surviving = g], pc' = "recheck" PROVE RoundsCounted'
    <3>1. loop'.n = loop.n /\ loop'.round = loop.round
      BY <1>3, <2>1
    <3>2. Fixing
      BY <1>9 DEF RescanGuards, Fixing
    <3> QED BY <1>8, <2>1, <3>1, <3>2 DEF RoundsCounted, AgentIs, Fixing, Checking
  <2> QED BY <1>1, <1>9, <2>1 DEF RescanGuards, ScanGuards
<1>10. ASSUME Recheck PROVE RoundsCounted'
  <2>1. ASSUME pc' = "agent", call'.kind = "recheck", UNCHANGED loop PROVE RoundsCounted'
    <3>1. Fixing
      BY <1>10 DEF Recheck, Fixing
    <3> QED BY <1>8, <2>1, <3>1 DEF RoundsCounted, AgentIs, Fixing, Checking
  <2> QED BY <1>1, <1>2, <1>10, <2>1 DEF Recheck, Draft, StartAgent
<1>11. ASSUME Rechecked PROVE RoundsCounted'
  <2>1. ASSUME NEW rounds, NEW open, loop.n < MaxFixRounds, pc' = "fix",
               loop' = [loop EXCEPT !.rounds = rounds, !.findings = open, !.n = @ + 1]
        PROVE  RoundsCounted'
    <3>1. loop'.n = loop.n + 1 /\ loop'.round = loop.round
      BY <2>1, NumbersIs DEF Loops
    <3>2. Fixing
      BY <1>11 DEF Rechecked, Fixing
    <3>3. CheckLoopMaxRounds + loop'.n - 1 = CheckLoopMaxRounds + loop.n /\ loop'.n \in 1..MaxFixRounds
      BY <1>8, <2>1, <3>1, <3>2, LimitsAre, NumbersIs
    <3>4. loop'.round <= Allowed(CheckLoopMaxRounds + loop'.n - 1)
      BY <1>8, <3>1, <3>2, <3>3
    <3> QED BY <2>1, <3>3, <3>4 DEF RoundsCounted, AgentIs, Fixing, Checking
  <2> QED BY <1>1, <1>2, <1>11, <2>1 DEF Rechecked, Draft
<1> QED BY <1>4, <1>5, <1>6, <1>7, <1>9, <1>10, <1>11

(* Every step of a model job keeps its rounds counted. *)
LEMMA NextCounted == IInv /\ RoundsCounted /\ [Next]_vars => RoundsCounted'
<1> SUFFICES ASSUME IInv, RoundsCounted, [Next]_vars PROVE RoundsCounted'
  OBVIOUS
<1>1. CASE UNCHANGED vars
  BY <1>1 DEF vars, RoundsCounted, AgentIs, Fixing, Checking
<1> QED BY <1>1, QuietCounted, AgentCounted, LoopCounted, ReviewCounted DEF Next

(* Counted rounds are bounded ones. *)
LEMMA CountedIsBounded == IInv /\ RoundsCounted => RoundsAreBounded
<1> SUFFICES ASSUME IInv, RoundsCounted, pc = "agent", call.phase = "build"
             PROVE  call.round <= Allowed(CheckLoopMaxRounds + MaxFixRounds)
  BY DEF RoundsAreBounded, Allowed
<1>1. call.kind \in {"build", "rebuild", "fix"} /\ call.model \in 1..call.last
  BY DEF IInv, PhaseFits, Kinds
<1>2. call.model <= BuildModels
  BY <1>1, NumbersIs DEF RoundsCounted, AgentIs
<1>3. ASSUME NEW k \in Nat, k + 1 <= CheckLoopMaxRounds + MaxFixRounds, call.round <= Allowed(k) + call.model
      PROVE  call.round <= Allowed(CheckLoopMaxRounds + MaxFixRounds)
  <2>1. k + 1 \in Nat /\ CheckLoopMaxRounds + MaxFixRounds \in Nat
    BY LimitsAre
  <2>2. Allowed(k + 1) = Allowed(k) + BuildModels /\ Allowed(k) \in Nat
    BY AllowedIs
  <2>3. Allowed(k + 1) <= Allowed(CheckLoopMaxRounds + MaxFixRounds)
    BY <1>3, <2>1, AllowedIs, Zenon
  <2>4. Allowed(CheckLoopMaxRounds + MaxFixRounds) \in Nat
    BY <2>1, AllowedIs
  <2>5. call.round <= Allowed(k) + call.model
    BY <1>3
  <2> QED BY <1>2, <2>2, <2>3, <2>4, <2>5, LimitsAre, NumbersIs
<1>4. ASSUME call.kind = "build" PROVE call.round <= Allowed(CheckLoopMaxRounds + MaxFixRounds)
  <2>1. call.round = call.model /\ Allowed(0) \in Nat
    BY <1>4, AllowedIs DEF RoundsCounted, AgentIs
  <2>2. call.round <= Allowed(0) + call.model /\ 0 + 1 <= CheckLoopMaxRounds + MaxFixRounds
    BY <2>1, LimitsAre, NumbersIs
  <2> QED BY <1>3, <2>2
<1>5. ASSUME call.kind = "rebuild" PROVE call.round <= Allowed(CheckLoopMaxRounds + MaxFixRounds)
  <2>1. loop.n \in 2..CheckLoopMaxRounds /\ call.round <= Allowed(loop.n - 1) + call.model
    BY <1>5 DEF RoundsCounted, AgentIs
  <2>2. loop.n - 1 \in Nat /\ (loop.n - 1) + 1 <= CheckLoopMaxRounds + MaxFixRounds
    BY <2>1, LimitsAre
  <2> QED BY <1>3, <2>1, <2>2
<1>6. ASSUME call.kind = "fix" PROVE call.round <= Allowed(CheckLoopMaxRounds + MaxFixRounds)
  <2>1. loop.n \in 1..MaxFixRounds /\ call.round <= Allowed(CheckLoopMaxRounds + loop.n - 1) + call.model
    BY <1>6 DEF RoundsCounted, AgentIs
  <2>2. /\ CheckLoopMaxRounds + loop.n - 1 \in Nat
        /\ (CheckLoopMaxRounds + loop.n - 1) + 1 <= CheckLoopMaxRounds + MaxFixRounds
    BY <2>1, LimitsAre
  <2> QED BY <1>3, <2>1, <2>2
<1> QED BY <1>1, <1>4, <1>5, <1>6

(* However many models, check passes and fix rounds are configured, the build agent     *)
(* runs at most once per model in each of them: the loops of buildWithChecks and        *)
(* runReview end, and moving to another model takes no round from the next pass.        *)
THEOREM BuildRoundsAreBounded == Spec => []RoundsAreBounded
<1>1. Init => RoundsCounted
  BY DEF Init, RoundsCounted, AgentIs, Fixing, Checking
<1> QED BY <1>1, InvHolds, NextCounted, CountedIsBounded, PTL DEF Spec
-----------------------------------------------------------------------------
(* The endings *)

HasBuilt   == hasStep("build")
HasPlanned == hasStep("plan")

(* The points past the build's first agent. *)
Worked == \/ pc \in {"built", "checks", "format", "judge", "commit"} \cup ReviewSteps
          \/ AgentIs({"rebuild", "review", "fix", "recheck"})

KeptEndings == {<<"stopped", "run-budget">>, <<"agent-failed", "agent-timeout">>,
                <<"agent-failed", "agent-no-progress">>}

(* The summary names its phase before the phase can end the job, and nothing is built  *)
(* or kept without a build agent's step.                                               *)
EndingFits ==
  /\ pc \notin {"keep", "ended"} => sum.outcome = "none" /\ sum.reason = "none"
  /\ pc \notin {"start", "ended"} => sum.phase # "none"
  /\ pc # "ended" => (sum.phase = "commit" <=> pc = "commit")
  /\ AgentIs({"plan", "correct"}) \/ pc = "planned" => sum.phase = "plan"
  /\ AgentIs({"build", "rebuild"}) \/ pc \in {"built", "judge", "keep"} => sum.phase = "build"
  /\ pc \in {"checks", "format"} => sum.phase \in {"build", "review"}
  /\ Worked => HasBuilt
  /\ pc # "ended" /\ Pending => HasBuilt
  /\ pc = "keep" =>
       /\ <<sum.outcome, sum.reason>> \in KeptEndings
       /\ sum.reason # "run-budget" => HasBuilt
  /\ EndingIsAccepted

(* The reasons a running agent can end with. *)
AgentReasons == {"agent-timeout", "agent-exit", "agent-container", "agent-no-progress",
                 "model-unavailable", "allowance-exhausted", "completions-upload"}

(* A record stays. *)
LEMMA StepsStay ==
  ASSUME steps \subseteq steps' PROVE (HasBuilt => HasBuilt') /\ (HasPlanned => HasPlanned')
  BY DEF HasBuilt, HasPlanned, hasStep

(* A recorded run is a step of its phase. *)
LEMMA RecordedStep ==
  ASSUME Recorded
  PROVE  /\ steps \subseteq steps'
         /\ call.phase = "build" => HasBuilt'
         /\ call.phase = "plan" => HasPlanned'
<1>1. steps' = steps \cup {<<call.phase, call.round>>}
  BY DEF Recorded, completionsObject
<1>2. <<call.phase, call.round>> \in steps' /\ <<call.phase, call.round>>[1] = call.phase
  BY <1>1
<1> QED BY <1>1, <1>2 DEF HasBuilt, HasPlanned, hasStep

(* A stop is accepted when its phase lists its ending and has the step it must have. *)
LEMMA StopFits ==
  ASSUME sum \in Sums, NEW phase, NEW r, Stop(phase, r),
         job'.stage = "build" =>
           /\ <<OutcomeOf(r), r>> \in buildEndings(phase)
           /\ phase = "commit" => HasBuilt'
           /\ phase # "commit" /\ OutcomeOf(r) \in {"agent-failed", "budget-stop"} =>
                (phase = "build" /\ HasBuilt') \/ (phase = "plan" /\ HasPlanned')
  PROVE  EndingFits'
<1>1. pc' = "ended" /\ sum'.phase = phase /\ sum'.outcome = OutcomeOf(r) /\ sum'.reason = r
  BY DEF Stop, Sums
<1>2. job'.stage = "build" => ValidSummary'
  BY <1>1 DEF ValidSummary, HasBuilt, HasPlanned
<1> QED BY <1>1, <1>2 DEF EndingFits, EndingIsAccepted, Worked, AgentIs, ReviewSteps

(* A failure of an agent, of the checks or of a formatter. *)
LEMMA FailFits ==
  ASSUME sum \in Sums, NEW r, Fail(r), sum.phase \in {"plan", "build", "review"},
         sum.outcome = "none", sum.reason = "none",
         r \in AgentReasons \cup {"checks-run", "formatter-outside-diff", "review-invalid"},
         sum.phase = "plan" => r \in AgentReasons \ {"agent-no-progress"},
         r = "review-invalid" => sum.phase = "review",
         sum.phase = "review" => HasBuilt',
         sum.phase = "build" /\ r \in AgentReasons \ {"completions-upload"} => HasBuilt',
         sum.phase = "plan" /\ r # "completions-upload" => HasPlanned'
  PROVE  EndingFits'
<1>1. ASSUME sum.phase = "review", r # "formatter-outside-diff" PROVE EndingFits'
  <2>1. /\ sum' = [sum EXCEPT !.phase = "commit", !.ready = FALSE, !.detail = "review"]
        /\ pc' = "commit"
    BY <1>1 DEF Fail
  <2>2. sum'.phase = "commit" /\ sum'.outcome = "none" /\ sum'.reason = "none"
    BY <2>1 DEF Sums
  <2> QED BY <1>1, <2>1, <2>2 DEF EndingFits, EndingIsAccepted, Worked, AgentIs
<1>2. ASSUME sum.phase = "build", keepsWork(r) PROVE EndingFits'
  <2>1. sum' = [sum EXCEPT !.outcome = OutcomeOf(r), !.reason = r] /\ pc' = "keep"
    BY <1>2 DEF Fail
  <2>2. sum'.phase = "build" /\ sum'.outcome = OutcomeOf(r) /\ sum'.reason = r
    BY <1>2, <2>1 DEF Sums
  <2>3. r \in {"agent-timeout", "agent-no-progress"}
    BY <1>2 DEF keepsWork, AgentReasons
  <2>4. <<OutcomeOf(r), r>> \in KeptEndings /\ HasBuilt'
    BY <1>2, <2>3 DEF OutcomeOf, KeptEndings, AgentReasons
  <2> QED BY <2>1, <2>2, <2>4 DEF EndingFits, EndingIsAccepted, Worked, AgentIs, ReviewSteps
<1>3. ASSUME ~(sum.phase = "review" /\ r # "formatter-outside-diff"), ~(sum.phase = "build" /\ keepsWork(r))
      PROVE  EndingFits'
  <2>1. Stop(sum.phase, r)
    BY <1>3 DEF Fail
  <2>2. <<OutcomeOf(r), r>> \in buildEndings(sum.phase)
    <3>1. ASSUME sum.phase = "plan" PROVE <<OutcomeOf(r), r>> \in buildEndings("plan")
      BY <3>1 DEF OutcomeOf, buildEndings, AgentReasons, AgentEndings
    <3>2. ASSUME sum.phase = "build" PROVE <<OutcomeOf(r), r>> \in buildEndings("build")
      BY <1>3, <3>2 DEF OutcomeOf, buildEndings, AgentReasons, AgentEndings, keepsWork
    <3>3. ASSUME sum.phase = "review" PROVE <<OutcomeOf(r), r>> \in buildEndings("review")
      BY <1>3, <3>3 DEF OutcomeOf, buildEndings
    <3> QED BY <3>1, <3>2, <3>3
  <2>3. OutcomeOf(r) \in {"agent-failed", "budget-stop"} =>
          r \in AgentReasons \ {"completions-upload"}
    BY DEF OutcomeOf, AgentReasons
  <2>4. sum.phase = "review" => OutcomeOf(r) \notin {"agent-failed", "budget-stop"}
    BY <1>3 DEF OutcomeOf
  <2>5. /\ sum.phase # "commit"
        /\ OutcomeOf(r) \in {"agent-failed", "budget-stop"} =>
             (sum.phase = "build" /\ HasBuilt') \/ (sum.phase = "plan" /\ HasPlanned')
    BY <2>3, <2>4
  <2> QED BY <2>1, <2>2, <2>5, StopFits
<1> QED BY <1>1, <1>2, <1>3

(* The preflight and the plan's beginning. *)
LEMMA PreflightFits ==
  ASSUME IInv, EndingFits, Preflight \/ Projection \/ AddWorktree \/ AgentStart
  PROVE  EndingFits'
<1>1. sum \in Sums /\ job' = job /\ steps' = steps /\ tree' = tree /\ pc \in Before
  BY DEF IInv, Types, Preflight, Projection, AddWorktree, AgentStart, Before
<1>2. sum.outcome = "none" /\ sum.reason = "none" /\ (Pending' => HasBuilt')
  BY <1>1, StepsStay DEF EndingFits, Pending, Before
<1>3. ASSUME NEW phase \in {"projection", "worktree", "agent-start"},
             NEW point \in {"projection", "worktree", "agent-start", "plan", "build"}, Enter(phase, point)
      PROVE  EndingFits'
  <2>1. pc' = point /\ sum'.phase = phase /\ sum'.outcome = "none" /\ sum'.reason = "none"
    BY <1>1, <1>2, <1>3 DEF Enter, Sums
  <2> QED BY <1>2, <1>3, <2>1 DEF EndingFits, EndingIsAccepted, Worked, AgentIs, ReviewSteps
<1>4. ASSUME NEW phase, NEW r, Stop(phase, r), phase # "commit",
             job.stage = "build" => <<OutcomeOf(r), r>> \in buildEndings(phase),
             OutcomeOf(r) \notin {"agent-failed", "budget-stop"}
      PROVE  EndingFits'
  BY <1>1, <1>4, StopFits
<1>5. ASSUME Preflight PROVE EndingFits'
  <2>1. ASSUME NEW r \in {"identity-mismatch", "ticket-missing"}, Stop("none", r) PROVE EndingFits'
    <3>1. OutcomeOf(r) = "stopped" /\ <<OutcomeOf(r), r>> \in buildEndings("none")
      BY DEF OutcomeOf, buildEndings
    <3> QED BY <1>4, <2>1, <3>1
  <2>2. ASSUME job.stage = "plan", Stop("none", "plan-invalid") PROVE EndingFits'
    <3>1. OutcomeOf("plan-invalid") = "stopped"
      BY DEF OutcomeOf
    <3> QED BY <1>4, <2>2, <3>1
  <2> QED BY <1>3, <1>5, <2>1, <2>2 DEF Preflight
<1>6. ASSUME Projection PROVE EndingFits'
  <2>1. ASSUME NEW r \in {"model-invalid", "credential-absent", "projection-missing", "projection-invalid",
                          "projection-read"},
               Stop("projection", r)
        PROVE  EndingFits'
    <3>1. OutcomeOf(r) \in {"stopped", "infra-failure"} /\ <<OutcomeOf(r), r>> \in buildEndings("projection")
      BY DEF OutcomeOf, buildEndings, ProjectionEndings
    <3> QED BY <1>4, <2>1, <3>1
  <2> QED BY <1>3, <1>6, <2>1 DEF Projection
<1>7. ASSUME AddWorktree PROVE EndingFits'
  <2>1. OutcomeOf("worktree") = "infra-failure" /\ <<"infra-failure", "worktree">> \in buildEndings("worktree")
    BY DEF OutcomeOf, buildEndings
  <2> QED BY <1>3, <1>4, <1>7, <2>1 DEF AddWorktree
<1>8. ASSUME AgentStart PROVE EndingFits'
  <2>1. /\ OutcomeOf("agent-container") = "infra-failure"
        /\ <<"infra-failure", "agent-container">> \in buildEndings("agent-start")
    BY DEF OutcomeOf, buildEndings
  <2> QED BY <1>3, <1>4, <1>8, <2>1 DEF AgentStart
<1> QED BY <1>5, <1>6, <1>7, <1>8

(* The plan's steps. *)
LEMMA PlanFitsEnding == ASSUME IInv, EndingFits, BeginPlan \/ PlanAnswered PROVE EndingFits'
<1>1. sum \in Sums /\ job' = job /\ steps' = steps /\ tree' = tree /\ pc \in {"plan", "planned"}
  BY DEF IInv, Types, BeginPlan, PlanAnswered
<1>2. /\ sum.outcome = "none" /\ sum.reason = "none" /\ (Pending' => HasBuilt')
      /\ sum.phase # "none" /\ sum.phase # "commit"
  BY <1>1, StepsStay DEF EndingFits, Pending
<1>3. ASSUME NEW r \in {"projection-missing", "projection-invalid", "projection-read", "run-budget",
                        "plan-invalid", "workflow-change"},
             Stop("plan", r)
      PROVE  EndingFits'
  <2>1. OutcomeOf(r) \in {"stopped", "infra-failure"} /\ <<OutcomeOf(r), r>> \in buildEndings("plan")
    BY DEF OutcomeOf, buildEndings, ProjectionEndings, AgentEndings
  <2>2. OutcomeOf(r) \notin {"agent-failed", "budget-stop"}
    BY <2>1
  <2> QED BY <1>1, <1>3, <2>1, <2>2, StopFits
<1>4. ASSUME NEW result, Plans(result) PROVE EndingFits'
  <2>1. ASSUME job.stage = "plan", pc' = "ended" PROVE EndingFits'
    BY <1>1, <2>1 DEF EndingFits, EndingIsAccepted, Worked, AgentIs, ReviewSteps
  <2>2. ASSUME Enter("plan", "build") PROVE EndingFits'
    <3>1. pc' = "build" /\ sum'.phase = "plan" /\ sum'.outcome = "none" /\ sum'.reason = "none"
      BY <1>1, <1>2, <2>2 DEF Enter, Sums
    <3> QED BY <1>2, <3>1 DEF EndingFits, EndingIsAccepted, Worked, AgentIs, ReviewSteps
  <2> QED BY <1>4, <2>1, <2>2 DEF Plans
<1>5. ASSUME pc' = "agent", call'.kind \in {"plan", "correct"}, sum'.phase = "plan",
             sum'.outcome = "none", sum'.reason = "none"
      PROVE  EndingFits'
  BY <1>2, <1>5 DEF EndingFits, EndingIsAccepted, Worked, AgentIs, ReviewSteps
<1>6. ASSUME BeginPlan PROVE EndingFits'
  <2>1. ASSUME StartAgent("plan", "plan", 1, 1, PlanModels, roundTimeout(spent, BuildBudget), 0),
               sum' = [sum EXCEPT !.phase = "plan"]
        PROVE  EndingFits'
    <3>1. pc' = "agent" /\ call'.kind = "plan"
      BY <2>1 DEF StartAgent
    <3>2. sum'.phase = "plan" /\ sum'.outcome = "none" /\ sum'.reason = "none"
      BY <1>1, <1>2, <2>1 DEF Sums
    <3> QED BY <1>5, <3>1, <3>2
  <2> QED BY <1>3, <1>6, <2>1 DEF BeginPlan
<1>7. ASSUME PlanAnswered PROVE EndingFits'
  <2>1. pc = "planned" /\ sum.phase = "plan"
    BY <1>7 DEF PlanAnswered, EndingFits
  <2>2. ASSUME StartAgent("plan", "correct", loop.round + 1, CorrectionModel(loop.round), PlanModels,
                          roundTimeout(spent, BuildBudget), loop.session),
               UNCHANGED sum
        PROVE  EndingFits'
    <3>1. pc' = "agent" /\ call'.kind = "correct"
      BY <2>2 DEF StartAgent
    <3> QED BY <1>2, <1>5, <2>1, <2>2, <3>1
  <2> QED BY <1>3, <1>4, <1>7, <2>2 DEF PlanAnswered
<1> QED BY <1>6, <1>7

(* What an agent's step leaves of the record and of the worktree. *)
LEMMA AgentLeaves ==
  ASSUME IInv, EndingFits, pc = "agent", AfterAgent, Recorded
  PROVE  /\ sum \in Sums /\ sum.outcome = "none" /\ sum.reason = "none"
         /\ sum.phase \in {"plan", "build", "review"}
         /\ call.kind \in Kinds
         /\ sum.phase = "plan" <=> call.phase = "plan"
         /\ call.kind \in {"review", "fix", "recheck"} <=> sum.phase = "review"
         /\ call.phase = "plan" <=> call.kind \in {"plan", "correct"}
         /\ Pending' => HasBuilt'
         /\ call.phase # "plan" => HasBuilt'
<1>1. sum \in Sums /\ sum.outcome = "none" /\ sum.reason = "none"
  BY DEF IInv, Types, EndingFits
<1>2. /\ call.kind \in Kinds
      /\ call.kind \in {"review", "recheck"} <=> call.phase = "review"
      /\ call.kind \in {"plan", "correct"} <=> call.phase = "plan"
      /\ call.phase # "none" /\ call.phase \in {"none", "plan", "build", "review"}
      /\ call.kind \in {"review", "fix", "recheck"} <=> sum.phase = "review"
  BY DEF IInv, PhaseFits, Types, Calls
<1>3. sum.phase \in {"plan", "build", "review"} /\ (sum.phase = "plan" <=> call.phase = "plan")
  BY <1>2 DEF EndingFits, AgentIs, Kinds
<1>4. /\ HasBuilt => HasBuilt'
      /\ call.phase = "build" /\ sum.phase # "review" => HasBuilt'
  BY StepsStay, RecordedStep
<1>5. call.phase # "plan" => HasBuilt'
  BY <1>2, <1>4 DEF EndingFits, Worked, AgentIs, Kinds
<1>6. Pending' => HasBuilt'
  <2>1. ASSUME tree' = tree PROVE Pending' => HasBuilt'
    BY <1>4, <2>1 DEF EndingFits, Pending
  <2> QED BY <1>5, <2>1 DEF AfterAgent
<1> QED BY <1>1, <1>2, <1>3, <1>5, <1>6

(* The agent's steps. *)
LEMMA AgentFitsEnding ==
  ASSUME IInv, EndingFits, AgentAnswers \/ AgentMoves \/ AgentFails \/ UploadFails
  PROVE  EndingFits'
<1>1. pc = "agent" /\ AfterAgent
  BY DEF AgentAnswers, AgentMoves, AgentFails, UploadFails
<1>2. ASSUME AgentAnswers PROVE EndingFits'
  <2>1. Recorded /\ pc' = After[call.kind] /\ sum' = sum
    BY <1>2 DEF AgentAnswers
  <2>2. \/ pc' = "planned" /\ call.phase = "plan"
        \/ pc' = "built" /\ call.kind = "build"
        \/ pc' = "checks" /\ call.kind \in {"rebuild", "fix"}
        \/ pc' \in {"reviewed", "rechecked"} /\ call.kind \in {"review", "recheck"}
    BY <1>1, <2>1, AgentLeaves DEF After, Kinds
  <2> QED BY <1>1, <2>1, <2>2, AgentLeaves DEF EndingFits, EndingIsAccepted, Worked, AgentIs, ReviewSteps
<1>3. ASSUME Recorded, NEW r \in AgentReasons, Fail(r), r = "agent-no-progress" => call.phase = "build"
      PROVE  EndingFits'
  <2>1. call.phase = "plan" => HasPlanned'
    BY <1>3, RecordedStep
  <2>2. /\ sum \in Sums /\ sum.outcome = "none" /\ sum.reason = "none"
        /\ sum.phase \in {"plan", "build", "review"}
        /\ sum.phase = "plan" => r \in AgentReasons \ {"agent-no-progress"} /\ HasPlanned'
        /\ sum.phase # "plan" => HasBuilt'
        /\ r # "review-invalid"
    BY <1>1, <1>3, <2>1, AgentLeaves DEF AgentReasons
  <2> QED BY <1>3, <2>2, FailFits
<1>4. ASSUME AgentMoves PROVE EndingFits'
  <2>1. ASSUME StartAgent(call.phase, call.kind, call.round + 1, call.model + 1, call.last,
                          NextTimeout(spent', Budget), call.session),
               UNCHANGED sum
        PROVE  EndingFits'
    <3>1. pc' = "agent" /\ call'.kind = call.kind /\ Recorded
      BY <1>4, <2>1 DEF StartAgent, AgentMoves
    <3> QED BY <1>1, <2>1, <3>1, AgentLeaves DEF EndingFits, EndingIsAccepted, Worked, AgentIs, ReviewSteps
  <2> QED BY <1>3, <1>4, <2>1 DEF AgentMoves, movesToNextModel, AgentReasons
<1>5. ASSUME AgentFails PROVE EndingFits'
  BY <1>3, <1>5 DEF AgentFails, movesToNextModel, AgentReasons
<1>6. ASSUME UploadFails PROVE EndingFits'
  <2>1. steps' = steps /\ Fail("completions-upload")
    BY <1>6 DEF UploadFails
  <2>2. /\ sum \in Sums /\ sum.outcome = "none" /\ sum.reason = "none"
        /\ call.kind \in Kinds
        /\ call.kind \in {"review", "fix", "recheck"} <=> sum.phase = "review"
    BY <1>1 DEF IInv, Types, EndingFits, PhaseFits
  <2>3. sum.phase \in {"plan", "build", "review"}
    BY <1>1, <2>2 DEF EndingFits, AgentIs, Kinds
  <2>4. sum.phase = "review" => HasBuilt'
    BY <1>1, <2>1, <2>2, StepsStay DEF EndingFits, Worked, AgentIs
  <2> QED BY <2>1, <2>2, <2>3, <2>4, FailFits DEF AgentReasons
<1> QED BY <1>2, <1>4, <1>5, <1>6

(* What holds at the points of the check loop and the review. *)
LEMMA AtWork ==
  ASSUME IInv, EndingFits, pc \in {"built", "checks", "format", "judge"} \cup ReviewSteps, UNCHANGED steps
  PROVE  /\ HasBuilt' /\ sum \in Sums /\ sum.outcome = "none" /\ sum.reason = "none"
         /\ sum.phase \in {"build", "review"}
         /\ pc \in ReviewSteps => sum.phase = "review"
         /\ pc \in {"built", "judge"} => sum.phase = "build"
<1>1. HasBuilt'
  BY StepsStay DEF EndingFits, Worked
<1>2. sum \in Sums /\ sum.outcome = "none" /\ sum.reason = "none"
  BY DEF IInv, Types, EndingFits, ReviewSteps
<1> QED BY <1>1, <1>2 DEF IInv, PhaseFits, EndingFits, ReviewSteps

(* A step that goes on from there. *)
LEMMA MoveFits ==
  ASSUME HasBuilt', sum'.outcome = "none", sum'.reason = "none",
         \/ pc' \in ReviewSteps /\ sum'.phase = "review"
         \/ pc' = "judge" /\ sum'.phase = "build"
         \/ pc' \in {"checks", "format"} /\ sum'.phase \in {"build", "review"}
         \/ pc' = "commit" /\ sum'.phase = "commit"
         \/ pc' = "agent" /\ call'.kind \in {"review", "fix", "recheck"} /\ sum'.phase = "review"
         \/ pc' = "agent" /\ call'.kind = "rebuild" /\ sum'.phase = "build"
  PROVE  EndingFits'
  BY DEF EndingFits, EndingIsAccepted, Worked, AgentIs, ReviewSteps

(* A failure of the checks, of the formatter or of the review. *)
LEMMA WorkFails ==
  ASSUME IInv, EndingFits, pc \in {"built", "checks", "format", "judge"} \cup ReviewSteps, UNCHANGED steps,
         NEW r \in {"checks-run", "formatter-outside-diff", "review-invalid"}, Fail(r),
         r = "review-invalid" => pc \in ReviewSteps
  PROVE  EndingFits'
<1>1. /\ HasBuilt' /\ sum \in Sums /\ sum.outcome = "none" /\ sum.reason = "none"
      /\ sum.phase \in {"build", "review"}
      /\ pc \in ReviewSteps => sum.phase = "review"
  BY AtWork
<1> QED BY <1>1, FailFits DEF AgentReasons

(* The check loop. *)
LEMMA LoopFitsEnding ==
  ASSUME IInv, EndingFits, BeginBuild \/ Built \/ RunChecks \/ FormatInPlace \/ Judge
  PROVE  EndingFits'
<1>1. ASSUME BeginBuild PROVE EndingFits'
  <2>1. pc = "build" /\ sum \in Sums /\ steps' = steps /\ tree' = tree
    BY <1>1 DEF BeginBuild, IInv, Types
  <2>2. sum.outcome = "none" /\ sum.reason = "none" /\ (Pending' => HasBuilt')
    BY <2>1, StepsStay DEF EndingFits, Pending
  <2>3. ASSUME pc' = "keep", sum' = [sum EXCEPT !.phase = "build", !.outcome = OutcomeOf("run-budget"),
                                                !.reason = "run-budget"]
        PROVE  EndingFits'
    <3>1. OutcomeOf("run-budget") = "stopped"
      BY DEF OutcomeOf
    <3>2. sum'.phase = "build" /\ sum'.outcome = "stopped" /\ sum'.reason = "run-budget"
      BY <2>1, <2>3, <3>1 DEF Sums
    <3>3. <<"stopped", "run-budget">> \in KeptEndings
      BY DEF KeptEndings
    <3> QED BY <2>2, <2>3, <3>2, <3>3 DEF EndingFits, EndingIsAccepted, Worked, AgentIs, ReviewSteps
  <2>4. ASSUME StartAgent("build", "build", 1, 1, BuildModels, roundTimeout(spent, BuildBudget), 0),
               sum' = [sum EXCEPT !.phase = "build"]
        PROVE  EndingFits'
    <3>1. pc' = "agent" /\ call'.kind = "build"
      BY <2>4 DEF StartAgent
    <3>2. sum'.phase = "build" /\ sum'.outcome = "none" /\ sum'.reason = "none"
      BY <2>1, <2>2, <2>4 DEF Sums
    <3> QED BY <2>2, <3>1, <3>2 DEF EndingFits, EndingIsAccepted, Worked, AgentIs, ReviewSteps
  <2> QED BY <1>1, <2>3, <2>4 DEF BeginBuild
<1>2. ASSUME Built PROVE EndingFits'
  <2>1. pc = "built" /\ UNCHANGED steps
    BY <1>2 DEF Built
  <2>2. ASSUME Enter("commit", "commit") PROVE EndingFits'
    <3>1. pc' = "commit" /\ sum'.phase = "commit" /\ sum'.outcome = "none" /\ sum'.reason = "none"
      BY <2>1, <2>2, AtWork DEF Enter, Sums
    <3> QED BY <2>1, <3>1, AtWork, MoveFits
  <2>3. ASSUME pc' = "checks", UNCHANGED sum PROVE EndingFits'
    BY <2>1, <2>3, AtWork, MoveFits
  <2> QED BY <1>2, <2>1, <2>2, <2>3, WorkFails DEF Built
<1>3. ASSUME RunChecks PROVE EndingFits'
  <2>1. pc = "checks" /\ UNCHANGED steps
    BY <1>3 DEF RunChecks
  <2>2. ASSUME pc' \in {"format", "rescan", "judge"}, UNCHANGED sum, pc' = "rescan" => sum.phase = "review",
               pc' = "judge" => sum.phase # "review"
        PROVE  EndingFits'
    <3>1. /\ HasBuilt' /\ sum.outcome = "none" /\ sum.reason = "none" /\ sum.phase \in {"build", "review"}
      BY <2>1, AtWork
    <3> QED BY <2>2, <3>1, MoveFits DEF ReviewSteps
  <2> QED BY <1>3, <2>1, <2>2, WorkFails DEF RunChecks
<1>4. ASSUME FormatInPlace PROVE EndingFits'
  <2>1. pc = "format" /\ UNCHANGED steps
    BY <1>4 DEF FormatInPlace
  <2>2. ASSUME pc' = "checks", UNCHANGED sum PROVE EndingFits'
    BY <2>1, <2>2, AtWork, MoveFits
  <2> QED BY <1>4, <2>1, <2>2, WorkFails DEF FormatInPlace
<1>5. ASSUME Judge PROVE EndingFits'
  <2>1. pc = "judge" /\ UNCHANGED steps
    BY <1>5 DEF Judge
  <2>2. HasBuilt' /\ sum \in Sums /\ sum.outcome = "none" /\ sum.reason = "none" /\ sum.phase = "build"
    BY <2>1, AtWork
  <2>3. ASSUME Enter("review", "scan") PROVE EndingFits'
    <3>1. pc' = "scan" /\ sum'.phase = "review" /\ sum'.outcome = "none" /\ sum'.reason = "none"
      BY <2>2, <2>3 DEF Enter, Sums
    <3> QED BY <2>2, <3>1, MoveFits DEF ReviewSteps
  <2>4. ASSUME sum' = [sum EXCEPT !.phase = "commit", !.detail = "checks"], pc' = "commit" PROVE EndingFits'
    <3>1. sum'.phase = "commit" /\ sum'.outcome = "none" /\ sum'.reason = "none"
      BY <2>2, <2>4 DEF Sums
    <3> QED BY <2>2, <2>4, <3>1, MoveFits
  <2>5. ASSUME StartAgent("build", "rebuild", loop.round + 1, 1, BuildModels,
                          roundTimeout(spent, BuildBudget), loop.session),
               UNCHANGED sum
        PROVE  EndingFits'
    <3>1. pc' = "agent" /\ call'.kind = "rebuild"
      BY <2>5 DEF StartAgent
    <3> QED BY <2>2, <2>5, <3>1, MoveFits
  <2> QED BY <1>5, <2>3, <2>4, <2>5 DEF Judge
<1> QED BY <1>1, <1>2, <1>3, <1>4, <1>5

(* The review. *)
LEMMA ReviewFitsEnding ==
  ASSUME IInv, EndingFits,
         ScanDiff \/ BeginReview \/ Reviewed \/ BeginFix \/ RescanGuards \/ Recheck \/ Rechecked
  PROVE  EndingFits'
<1>1. pc \in ReviewSteps /\ UNCHANGED steps
  BY DEF ScanDiff, BeginReview, Reviewed, BeginFix, RescanGuards, Recheck, Rechecked, ReviewSteps
<1>2. HasBuilt' /\ sum \in Sums /\ sum.outcome = "none" /\ sum.reason = "none" /\ sum.phase = "review"
  BY <1>1, AtWork
<1>3. ASSUME NEW r \in {"checks-run", "review-invalid"}, Fail(r) PROVE EndingFits'
  BY <1>1, <1>3, WorkFails
<1>4. ASSUME pc' \in ReviewSteps, UNCHANGED sum PROVE EndingFits'
  BY <1>2, <1>4, MoveFits
<1>5. ASSUME pc' = "agent", call'.kind \in {"review", "fix", "recheck"}, UNCHANGED sum PROVE EndingFits'
  BY <1>2, <1>5, MoveFits
<1>6. ASSUME pc' = "commit",
             \/ \E ready : sum' = [sum EXCEPT !.phase = "commit", !.ready = ready]
             \/ \E detail, rows : sum' = [sum EXCEPT !.phase = "commit", !.detail = detail, !.rows = rows]
             \/ \E detail, rows, ready : sum' = [sum EXCEPT !.phase = "commit", !.rows = rows, !.ready = ready,
                                                            !.detail = detail]
      PROVE  EndingFits'
  <2>1. sum'.phase = "commit" /\ sum'.outcome = "none" /\ sum'.reason = "none"
    BY <1>2, <1>6 DEF Sums
  <2> QED BY <1>2, <1>6, <2>1, MoveFits
<1>7. ASSUME NEW rounds, NEW detail, Draft(rounds, detail) PROVE EndingFits'
  BY <1>6, <1>7 DEF Draft
<1>8. ASSUME ScanDiff \/ RescanGuards PROVE EndingFits'
  BY <1>3, <1>4, <1>8 DEF ScanDiff, RescanGuards, ScanGuards, ReviewSteps
<1>9. ASSUME BeginReview PROVE EndingFits'
  BY <1>3, <1>5, <1>9 DEF BeginReview, StartAgent
<1>10. ASSUME Reviewed PROVE EndingFits'
  BY <1>3, <1>4, <1>6, <1>10 DEF Reviewed, ReviewSteps
<1>11. ASSUME BeginFix \/ Recheck PROVE EndingFits'
  BY <1>3, <1>5, <1>7, <1>11 DEF BeginFix, Recheck, StartAgent
<1>12. ASSUME Rechecked PROVE EndingFits'
  BY <1>3, <1>4, <1>6, <1>7, <1>12 DEF Rechecked, ReviewSteps
<1> QED BY <1>8, <1>9, <1>10, <1>11, <1>12

(* The commit, the kept work and a panic. *)
LEMMA CommitFitsEnding ==
  ASSUME IInv, EndingFits, CommitFails \/ CommitWork \/ KeepWork \/ Panic
  PROVE  EndingFits'
<1>1. sum \in Sums /\ pc # "ended" /\ (HasBuilt => HasBuilt')
  BY StepsStay DEF IInv, Types, CommitFails, CommitWork, KeepWork, Panic
<1>2. pc = "commit" => sum.phase = "commit" /\ sum.outcome = "none" /\ sum.reason = "none" /\ HasBuilt
  BY DEF EndingFits, Worked
<1>3. Pending => HasBuilt
  BY <1>1 DEF EndingFits
<1>4. ASSUME pc' = "ended", ValidSummary' PROVE EndingFits'
  BY <1>4 DEF EndingFits, EndingIsAccepted, Worked, AgentIs, ReviewSteps
<1>5. ASSUME pc' = "ended", HasBuilt', sum'.phase = "commit",
             <<sum'.outcome, sum'.reason>> \in {<<"no-changes", "none">>, <<"built", "none">>,
                                                <<"stopped", "workflow-change">>}
      PROVE  EndingFits'
  <2>1. <<sum'.outcome, sum'.reason>> \in buildEndings(sum'.phase)
    BY <1>5 DEF buildEndings
  <2> QED BY <1>4, <1>5, <2>1 DEF ValidSummary, HasBuilt
<1>6. ASSUME CommitFails PROVE EndingFits'
  <2>1. HasBuilt'
    BY <1>1, <1>2, <1>3, <1>6 DEF CommitFails
  <2>2. PICK r \in CommitStops \cup {"secret-in-branch"} : Stop("commit", r)
    BY <1>6 DEF CommitFails
  <2>3. <<OutcomeOf(r), r>> \in buildEndings("commit")
    BY DEF OutcomeOf, buildEndings, CommitStops
  <2> QED BY <1>1, <2>1, <2>2, <2>3, StopFits
<1>7. ASSUME CommitWork PROVE EndingFits'
  <2>1. pc = "commit" /\ pc' = "ended" /\ HasBuilt'
    BY <1>1, <1>2, <1>7 DEF CommitWork
  <2>2. ASSUME sum' = [sum EXCEPT !.outcome = "no-changes"] PROVE EndingFits'
    <3>1. sum'.phase = "commit" /\ sum'.outcome = "no-changes" /\ sum'.reason = "none"
      BY <1>1, <1>2, <2>1, <2>2 DEF Sums
    <3> QED BY <1>5, <2>1, <3>1
  <2>3. ASSUME NEW extra \in BOOLEAN, NEW workflow \in BOOLEAN,
               sum' = [sum EXCEPT !.outcome = IF workflow THEN "stopped" ELSE "built",
                                  !.reason  = IF workflow THEN "workflow-change" ELSE "none",
                                  !.ready   = sum.ready /\ ~extra /\ ~workflow,
                                  !.extra   = extra, !.bundle = TRUE]
        PROVE  EndingFits'
    <3>1. PICK ready : sum' = [sum EXCEPT !.outcome = IF workflow THEN "stopped" ELSE "built",
                                          !.reason  = IF workflow THEN "workflow-change" ELSE "none",
                                          !.ready = ready, !.extra = extra, !.bundle = TRUE]
      BY <2>3
    <3>2. /\ sum'.phase = "commit" /\ sum'.outcome = (IF workflow THEN "stopped" ELSE "built")
          /\ sum'.reason = (IF workflow THEN "workflow-change" ELSE "none")
      BY <1>1, <1>2, <2>1, <3>1 DEF Sums
    <3> QED BY <1>5, <2>1, <3>2
  <2> QED BY <1>7, <2>2, <2>3 DEF CommitWork
<1>8. ASSUME KeepWork PROVE EndingFits'
  <2>1. /\ pc = "keep" /\ pc' = "ended" /\ steps' = steps /\ sum.phase = "build"
        /\ <<sum.outcome, sum.reason>> \in KeptEndings
        /\ sum.reason # "run-budget" => HasBuilt'
    BY <1>1, <1>8 DEF KeepWork, EndingFits
  <2>2. ASSUME sum'.phase = "build", sum'.outcome = sum.outcome, sum'.reason = sum.reason PROVE EndingFits'
    <3>1. <<sum'.outcome, sum'.reason>> \in buildEndings(sum'.phase)
      BY <2>1, <2>2 DEF buildEndings, KeptEndings, AgentEndings
    <3>2. sum'.outcome \in {"agent-failed", "budget-stop"} => HasBuilt'
      BY <2>1, <2>2 DEF KeptEndings
    <3> QED BY <1>4, <2>1, <2>2, <3>1, <3>2 DEF ValidSummary, HasBuilt
  <2>3. ASSUME NEW extra, sum' = [sum EXCEPT !.detail = "kept", !.extra = extra, !.bundle = TRUE] PROVE EndingFits'
    <3>1. sum'.phase = "build" /\ sum'.outcome = sum.outcome /\ sum'.reason = sum.reason
      BY <1>1, <2>1, <2>3 DEF Sums
    <3> QED BY <2>2, <3>1
  <2>4. ASSUME Pending, sum' = [sum EXCEPT !.phase = "commit", !.outcome = "stopped",
                                           !.reason = "workflow-change", !.bundle = TRUE]
        PROVE  EndingFits'
    <3>1. sum'.phase = "commit" /\ sum'.outcome = "stopped" /\ sum'.reason = "workflow-change" /\ HasBuilt'
      BY <1>1, <1>3, <2>4 DEF Sums
    <3> QED BY <1>5, <2>1, <3>1
  <2> QED BY <1>8, <2>1, <2>2, <2>3, <2>4 DEF KeepWork
<1>9. ASSUME Panic PROVE EndingFits'
  <2>1. Stop(sum.phase, "panic") /\ sum.phase # "none" /\ sum.phase \in Phases /\ (sum.phase = "commit" <=> pc = "commit")
    BY <1>1, <1>9 DEF Panic, EndingFits, Sums
  <2>2. OutcomeOf("panic") = "infra-failure"
    BY DEF OutcomeOf
  <2>3. <<"infra-failure", "panic">> \in buildEndings(sum.phase)
    BY <2>1 DEF buildEndings, Phases
  <2>4. sum.phase = "commit" => HasBuilt'
    BY <1>1, <1>2, <2>1
  <2> QED BY <1>1, <2>1, <2>2, <2>3, <2>4, StopFits
<1> QED BY <1>6, <1>7, <1>8, <1>9

(* Every step of a model job keeps its endings acceptable. *)
LEMMA NextFitsEnding == IInv /\ EndingFits /\ [Next]_vars => EndingFits'
<1> SUFFICES ASSUME IInv, EndingFits, [Next]_vars PROVE EndingFits'
  OBVIOUS
<1>1. CASE UNCHANGED vars
  BY <1>1 DEF vars, EndingFits, EndingIsAccepted, ValidSummary, Worked, AgentIs, Pending, HasBuilt, hasStep
<1> QED BY <1>1, PreflightFits, PlanFitsEnding, AgentFitsEnding, LoopFitsEnding, ReviewFitsEnding,
           CommitFitsEnding DEF Next

(* Whatever the agents, the checks, git and the bucket answer, and wherever it panics,  *)
(* a build ends in a phase, an outcome and a reason that Summary.validate accepts, and   *)
(* with the agent's step that its phase must have: the record job refuses no ending.    *)
THEOREM EndingsAreAccepted == Spec => []EndingIsAccepted
<1>1. Init => EndingFits
  BY DEF Init, EndingFits, EndingIsAccepted, Worked, AgentIs, ReviewSteps, Pending, NoChange, NoSummary
<1>2. EndingFits => EndingIsAccepted
  BY DEF EndingFits
<1> QED BY <1>1, <1>2, InvHolds, NextFitsEnding, PTL DEF Spec
-----------------------------------------------------------------------------
(* The published rows *)

(* What a fix round left open is what the next one was given. *)
Chained(rounds) ==
  \A i \in DOMAIN rounds : i + 1 \in DOMAIN rounds => rounds[i].open \subseteq rounds[i + 1].issued

LeftOpen(rounds) == rounds[Len(rounds)].open
OpenRows == {"still open", "still open after"}
NoneOpen(rows) == \A f \in DOMAIN rows : rows[f] \notin OpenRows

(* A fix round is about to run, is running or has run. *)
InFix == Fixing \/ pc = "fix" \/ AgentIs({"fix"})

(* What the fix rounds have found so far, while the review goes on. *)
RoundsChain ==
  /\ Chained(loop.rounds)
  /\ loop.rounds # <<>> => LeftOpen(loop.rounds) \subseteq loop.findings
  /\ ~InFix => loop.rounds = <<>>

(* Rows are published once, at the end of the review. *)
RowsFit ==
  /\ pc \notin Resting => RoundsChain
  /\ pc \notin {"commit", "ended"} => sum.rows = NoRows
  /\ sum.rows # NoRows =>
       /\ loop.rounds # <<>> => LeftOpen(loop.rounds) \subseteq DOMAIN sum.rows
       /\ sum.ready => NoneOpen(sum.rows)

(* Some number of a set of them below a bound is the greatest. *)
LEMMA HasGreatest ==
  ASSUME NEW n \in Nat, NEW S \in SUBSET (1..n), S # {}
  PROVE  \E i \in S : \A j \in S : j <= i
<1> DEFINE Back == {n - i : i \in S}
<1>1. Back \subseteq Nat /\ Back # {}
  <2>1. ASSUME NEW i \in S PROVE n - i \in Nat
    <3>1. i \in 1..n
      OBVIOUS
    <3> QED BY <3>1
  <2> QED BY <2>1
<1>2. PICK b \in Back : \A c \in Back : b <= c
  <2> HIDE DEF Back
  <2>1. PICK b \in Back : \A c \in Back : ~(<<c, b>> \in OpToRel(<, Nat))
    BY <1>1, NatLessThanWellFounded, WFMin, Zenon
  <2>2. \A c \in Back : ~(c < b)
    BY <1>1, <2>1 DEF OpToRel
  <2> QED BY <1>1, <2>2
<1>3. PICK i \in S : b = n - i
  BY <1>2
<1>4. ASSUME NEW j \in S PROVE j <= i
  <2>1. n - i <= n - j
    BY <1>2, <1>3
  <2> QED BY <2>1
<1> QED BY <1>4

(* The table lists what a round was given and what one left open. *)
LEMMA RowsList ==
  ASSUME NEW rounds
  PROVE  /\ DOMAIN IssuedRows(rounds) = UNION {rounds[i].issued : i \in DOMAIN rounds}
         /\ DOMAIN reviewRows(rounds) = (UNION {rounds[i].issued : i \in DOMAIN rounds}) \cup
                                        (UNION {rounds[i].open : i \in DOMAIN rounds})
<1>1. DOMAIN IssuedRows(rounds) = UNION {rounds[i].issued : i \in DOMAIN rounds}
  BY DEF IssuedRows
<1>2. DOMAIN reviewRows(rounds) =
        DOMAIN IssuedRows(rounds) \cup ((UNION {rounds[i].open : i \in DOMAIN rounds}) \ DOMAIN IssuedRows(rounds))
  BY DEF reviewRows
<1> QED BY <1>1, <1>2

(* Nothing the last round left open is missing from the table. *)
LEMMA LeftIsListed ==
  ASSUME NEW rounds \in Seq(FixRound), rounds # <<>>
  PROVE  LeftOpen(rounds) \subseteq DOMAIN reviewRows(rounds)
<1>1. Len(rounds) \in DOMAIN rounds
  OBVIOUS
<1>2. LeftOpen(rounds) \in {rounds[i].open : i \in DOMAIN rounds}
  BY <1>1 DEF LeftOpen
<1> QED BY <1>2, RowsList

(* When the last round left nothing open and each was given what the one before it *)
(* left open, the table calls nothing open.                                        *)
LEMMA CleanRows ==
  ASSUME NEW rounds \in Seq(FixRound), Chained(rounds), rounds # <<>>, LeftOpen(rounds) = {}
  PROVE  NoneOpen(reviewRows(rounds))
<1> DEFINE given == UNION {rounds[i].issued : i \in DOMAIN rounds}
<1>1. DOMAIN rounds = 1..Len(rounds) /\ Len(rounds) \in Nat
  OBVIOUS
<1>2. ASSUME NEW i \in DOMAIN rounds, NEW f \in rounds[i].open
      PROVE  i + 1 \in DOMAIN rounds /\ f \in rounds[i + 1].issued
  <2>1. i # Len(rounds)
    BY <1>2 DEF LeftOpen
  <2>2. i + 1 \in DOMAIN rounds
    BY <1>1, <1>2, <2>1
  <2> QED BY <1>2, <2>2 DEF Chained
<1>3. ASSUME NEW f \in given PROVE IssuedRows(rounds)[f] \notin OpenRows
  <2> DEFINE Held == {i \in DOMAIN rounds : f \in rounds[i].issued}
             Last(i) == f \in rounds[i].issued /\ \A j \in DOMAIN rounds : f \in rounds[j].issued => j <= i
  <2>1. Held # {} /\ Held \in SUBSET (1..Len(rounds))
    BY <1>1, <1>3
  <2>2. \E i \in Held : \A j \in Held : j <= i
    <3> HIDE DEF Held
    <3> QED BY <1>1, <2>1, HasGreatest
  <2>3. \E i \in DOMAIN rounds : Last(i)
    BY <2>2
  <2>4. PICK k : k = CHOOSE i \in DOMAIN rounds : Last(i)
    OBVIOUS
  <2>5. k \in DOMAIN rounds /\ Last(k)
    <3> HIDE DEF Last
    <3> QED BY <2>3, <2>4
  <2>6. f \notin rounds[k].open
    <3>1. ASSUME f \in rounds[k].open PROVE FALSE
      <4>1. k + 1 \in DOMAIN rounds /\ f \in rounds[k + 1].issued
        BY <1>2, <2>5, <3>1
      <4>2. k + 1 <= k /\ k \in Nat
        BY <1>1, <2>5, <4>1
      <4> QED BY <4>2
    <3> QED BY <3>1
  <2>7. IssuedRows(rounds)[f] = findingResolution(f, rounds[k], rounds, k = Len(rounds))
    BY <1>3, <2>4 DEF IssuedRows
  <2> QED BY <2>6, <2>7 DEF findingResolution, OpenRows
<1>4. (UNION {rounds[i].open : i \in DOMAIN rounds}) \subseteq given
  BY <1>2
<1>5. ASSUME NEW f \in DOMAIN reviewRows(rounds) PROVE reviewRows(rounds)[f] \notin OpenRows
  <2>1. f \in given
    BY <1>4, <1>5, RowsList
  <2>2. f \in DOMAIN IssuedRows(rounds)
    BY <2>1, RowsList
  <2>3. reviewRows(rounds)[f] = IssuedRows(rounds)[f]
    BY <2>2 DEF reviewRows
  <2> QED BY <1>3, <2>1, <2>3
<1> QED BY <1>5 DEF NoneOpen

(* One more round, given what the last one left open. *)
LEMMA RoundAppended ==
  ASSUME NEW rounds \in Seq(FixRound), NEW r \in FixRound, Chained(rounds),
         rounds # <<>> => LeftOpen(rounds) \subseteq r.issued
  PROVE  /\ Append(rounds, r) \in Seq(FixRound) /\ Append(rounds, r) # <<>>
         /\ Chained(Append(rounds, r))
         /\ LeftOpen(Append(rounds, r)) = r.open
<1> DEFINE more == Append(rounds, r)
<1>1. /\ more \in Seq(FixRound) /\ Len(more) = Len(rounds) + 1 /\ Len(rounds) \in Nat
      /\ DOMAIN rounds = 1..Len(rounds) /\ DOMAIN more = 1..Len(more)
      /\ more[Len(rounds) + 1] = r
      /\ \A i \in 1..Len(rounds) : more[i] = rounds[i]
  OBVIOUS
<1> HIDE DEF more
<1>2. more # <<>> /\ LeftOpen(more) = r.open
  BY <1>1 DEF LeftOpen
<1>3. ASSUME NEW i \in DOMAIN more, i + 1 \in DOMAIN more PROVE more[i].open \subseteq more[i + 1].issued
  <2>1. i \in 1..Len(rounds)
    BY <1>1, <1>3
  <2>2. ASSUME i = Len(rounds) PROVE more[i].open \subseteq more[i + 1].issued
    <3>1. rounds # <<>>
      BY <2>1, <2>2
    <3>2. more[i] = rounds[Len(rounds)] /\ more[i + 1] = r
      BY <1>1, <2>1, <2>2
    <3> QED BY <3>1, <3>2 DEF LeftOpen
  <2>3. ASSUME i # Len(rounds) PROVE more[i].open \subseteq more[i + 1].issued
    <3>1. i \in DOMAIN rounds /\ i + 1 \in DOMAIN rounds
      BY <1>1, <2>1, <2>3
    <3>2. more[i] = rounds[i] /\ more[i + 1] = rounds[i + 1]
      BY <1>1, <3>1
    <3> QED BY <3>1, <3>2 DEF Chained
  <2> QED BY <2>2, <2>3
<1> QED BY <1>1, <1>2, <1>3 DEF Chained, more

(* A step of a job that publishes nothing. *)
LEMMA NothingPublished ==
  ASSUME RowsFit, pc \notin Resting, sum'.rows = sum.rows,
         pc' \in Resting \/
           /\ loop'.rounds = loop.rounds
           /\ loop'.findings = loop.findings \/ ~InFix
           /\ InFix => InFix'
  PROVE  RowsFit'
<1>1. RoundsChain /\ sum'.rows = NoRows
  BY DEF RowsFit, Resting
<1>2. ASSUME pc' \notin Resting PROVE RoundsChain'
  <2>1. /\ loop'.rounds = loop.rounds
        /\ loop'.findings = loop.findings \/ loop.rounds = <<>>
        /\ ~InFix' => loop.rounds = <<>>
    BY <1>1, <1>2 DEF RoundsChain
  <2> QED BY <1>1, <2>1 DEF RoundsChain
<1> QED BY <1>1, <1>2 DEF RowsFit

(* A step past the review. *)
LEMMA RestedRows ==
  ASSUME RowsFit, pc' \in Resting, pc' = "keep" => sum'.rows = NoRows,
         sum'.rows = sum.rows, sum'.ready => sum.ready, loop' = loop \/ loop' = NoLoop
  PROVE  RowsFit'
<1>1. loop'.rounds # <<>> => loop'.rounds = loop.rounds
  BY DEF NoLoop
<1> QED BY <1>1 DEF RowsFit, Resting

(* Where a failure, a stop or the next phase leads, the rows stay as they are. *)
LEMMA RowsUntouched ==
  ASSUME sum \in Sums
  PROVE  /\ \A phase, r : Stop(phase, r) => pc' = "ended" /\ sum'.rows = sum.rows /\ sum'.ready = sum.ready
         /\ \A r : Fail(r) => pc' \in Resting /\ sum'.rows = sum.rows
         /\ \A phase, point : Enter(phase, point) => pc' = point /\ sum'.rows = sum.rows
<1>1. ASSUME NEW phase, NEW r, Stop(phase, r) PROVE pc' = "ended" /\ sum'.rows = sum.rows /\ sum'.ready = sum.ready
  BY <1>1 DEF Stop, Sums
<1>2. ASSUME NEW r, Fail(r) PROVE pc' \in Resting /\ sum'.rows = sum.rows
  <2>1. ASSUME sum' = [sum EXCEPT !.phase = "commit", !.ready = FALSE, !.detail = "review"] PROVE sum'.rows = sum.rows
    BY <2>1 DEF Sums
  <2>2. ASSUME NEW o, sum' = [sum EXCEPT !.outcome = o, !.reason = r] PROVE sum'.rows = sum.rows
    BY <2>2 DEF Sums
  <2> QED BY <1>1, <1>2, <2>1, <2>2, FailRests DEF Fail
<1>3. ASSUME NEW phase, NEW point, Enter(phase, point) PROVE pc' = point /\ sum'.rows = sum.rows
  BY <1>3 DEF Enter, Sums
<1> QED BY <1>1, <1>2, <1>3

(* The steps outside the review. *)
LEMMA OutsideRows ==
  ASSUME IInv, RowsFit,
         Preflight \/ Projection \/ AddWorktree \/ AgentStart \/ BeginPlan \/ PlanAnswered \/ BeginBuild
         \/ Built \/ Judge \/ ScanDiff \/ BeginReview
  PROVE  RowsFit'
<1>1. pc \in Before \cup {"planned", "build", "built", "judge", "scan", "review"} /\ sum \in Sums /\ loop \in Loops
  BY DEF IInv, Types, Before, Preflight, Projection, AddWorktree, AgentStart, BeginPlan, PlanAnswered,
         BeginBuild, Built, Judge, ScanDiff, BeginReview
<1>2. ~InFix /\ pc \notin Resting
  BY <1>1 DEF InFix, Fixing, AgentIs, Before, Resting
<1>3. ASSUME sum'.rows = sum.rows, pc' \in Resting \/ loop'.rounds = loop.rounds PROVE RowsFit'
  BY <1>2, <1>3, NothingPublished
<1>4. ASSUME NEW phase, NEW r, Stop(phase, r) PROVE RowsFit'
  BY <1>1, <1>3, <1>4, RowsUntouched DEF Resting
<1>5. ASSUME NEW r, Fail(r) PROVE RowsFit'
  BY <1>1, <1>3, <1>5, RowsUntouched
<1>6. ASSUME NEW phase, NEW point, Enter(phase, point), UNCHANGED loop PROVE RowsFit'
  BY <1>1, <1>3, <1>6, RowsUntouched
<1>7. ASSUME NEW phase, sum' = [sum EXCEPT !.phase = phase], UNCHANGED loop PROVE RowsFit'
  BY <1>1, <1>3, <1>7 DEF Sums
<1>8. ASSUME UNCHANGED <<sum, loop>> PROVE RowsFit'
  BY <1>3, <1>8
<1>9. ASSUME NEW n, UNCHANGED sum, loop' = [loop EXCEPT !.n = n] PROVE RowsFit'
  BY <1>1, <1>3, <1>9 DEF Loops
<1>10. ASSUME Preflight \/ Projection \/ AddWorktree \/ AgentStart PROVE RowsFit'
  BY <1>4, <1>6, <1>10 DEF Preflight, Projection, AddWorktree, AgentStart
<1>11. ASSUME BeginPlan PROVE RowsFit'
  BY <1>4, <1>7, <1>11 DEF BeginPlan
<1>12. ASSUME PlanAnswered PROVE RowsFit'
  <2>1. ASSUME NEW result, Plans(result), UNCHANGED loop PROVE RowsFit'
    <3>1. ASSUME sum' = [sum EXCEPT !.outcome = "planned", !.detail = result] PROVE RowsFit'
      BY <1>1, <1>3, <2>1, <3>1 DEF Sums
    <3> QED BY <1>6, <2>1, <3>1 DEF Plans
  <2> QED BY <1>4, <1>9, <1>12, <2>1 DEF PlanAnswered
<1>13. ASSUME BeginBuild PROVE RowsFit'
  <2>1. ASSUME NEW o, sum' = [sum EXCEPT !.phase = "build", !.outcome = o, !.reason = "run-budget"], pc' = "keep"
        PROVE  RowsFit'
    BY <1>1, <1>3, <2>1 DEF Sums, Resting
  <2> QED BY <1>7, <1>13, <2>1 DEF BeginBuild
<1>14. ASSUME Built PROVE RowsFit'
  BY <1>5, <1>6, <1>9, <1>14 DEF Built
<1>15. ASSUME Judge PROVE RowsFit'
  <2>1. ASSUME sum' = [sum EXCEPT !.phase = "commit", !.detail = "checks"], pc' = "commit" PROVE RowsFit'
    BY <1>1, <1>3, <2>1 DEF Sums, Resting
  <2>2. ASSUME UNCHANGED sum, loop' = [loop EXCEPT !.n = @ + 1] PROVE RowsFit'
    BY <1>9, <2>2
  <2> QED BY <1>6, <1>15, <2>1, <2>2 DEF Judge
<1>16. ASSUME ScanDiff PROVE RowsFit'
  <2>1. ASSUME NEW g, UNCHANGED sum, loop' = [loop EXCEPT !.surviving = g] PROVE RowsFit'
    BY <1>1, <1>3, <2>1 DEF Loops
  <2> QED BY <1>5, <1>16, <2>1 DEF ScanDiff, ScanGuards
<1>17. ASSUME BeginReview PROVE RowsFit'
  BY <1>5, <1>8, <1>17 DEF BeginReview
<1> QED BY <1>10, <1>11, <1>12, <1>13, <1>14, <1>15, <1>16, <1>17

(* The agent's steps keep what the fix rounds found. *)
LEMMA AgentRows ==
  ASSUME IInv, RowsFit, AgentAnswers \/ AgentMoves \/ AgentFails \/ UploadFails
  PROVE  RowsFit'
<1>1. /\ pc = "agent" /\ sum \in Sums /\ loop \in Loops /\ call.kind \in Kinds
      /\ call.kind \in {"review", "fix", "recheck"} <=> sum.phase = "review"
  BY DEF IInv, Types, PhaseFits, AgentAnswers, AgentMoves, AgentFails, UploadFails
<1>2. InFix <=> call.kind \in {"fix", "recheck"}
  BY <1>1 DEF InFix, Fixing, AgentIs
<1>3. ASSUME NEW r, Fail(r) PROVE RowsFit'
  BY <1>1, <1>3, RowsUntouched, NothingPublished DEF Resting
<1>4. ASSUME AgentAnswers PROVE RowsFit'
  <2>1. /\ pc' = After[call.kind] /\ sum' = sum
        /\ loop' = loop \/ loop' = [loop EXCEPT !.round = AnsweredRound(call), !.session = call.model]
    BY <1>4 DEF AgentAnswers
  <2>2. loop'.rounds = loop.rounds /\ loop'.findings = loop.findings
    BY <1>1, <2>1 DEF Loops
  <2>3. call.kind = "fix" => pc' = "checks"
    BY <2>1 DEF After
  <2>4. call.kind = "recheck" => pc' = "rechecked"
    BY <2>1 DEF After
  <2>5. InFix => InFix'
    BY <1>1, <1>2, <2>1, <2>3, <2>4 DEF InFix, Fixing
  <2> QED BY <1>1, <2>1, <2>2, <2>5, NothingPublished DEF Resting
<1>5. ASSUME AgentMoves PROVE RowsFit'
  <2>1. ASSUME StartAgent(call.phase, call.kind, call.round + 1, call.model + 1, call.last,
                          NextTimeout(spent', Budget), call.session),
               UNCHANGED <<sum, loop>>
        PROVE  RowsFit'
    <3>1. pc' = "agent" /\ call'.kind = call.kind
      BY <2>1 DEF StartAgent
    <3>2. InFix => InFix'
      BY <1>2, <3>1 DEF InFix, Fixing, AgentIs
    <3> QED BY <1>1, <2>1, <3>2, NothingPublished DEF Resting
  <2> QED BY <1>3, <1>5, <2>1 DEF AgentMoves
<1>6. ASSUME AgentFails \/ UploadFails PROVE RowsFit'
  BY <1>3, <1>6 DEF AgentFails, UploadFails
<1> QED BY <1>4, <1>5, <1>6

(* The checks between a fix round and its re-check. *)
LEMMA CheckRows ==
  ASSUME IInv, RowsFit, RunChecks \/ FormatInPlace \/ BeginFix \/ RescanGuards
  PROVE  RowsFit'
<1>1. pc \in {"checks", "format", "fix", "rescan"} /\ pc \notin Resting /\ sum \in Sums /\ loop \in Loops
  BY DEF IInv, Types, RunChecks, FormatInPlace, BeginFix, RescanGuards, Resting
<1>2. ASSUME NEW r, Fail(r) PROVE RowsFit'
  BY <1>1, <1>2, RowsUntouched, NothingPublished
<1>3. ASSUME sum' = sum, loop'.rounds = loop.rounds, loop'.findings = loop.findings, InFix => InFix' PROVE RowsFit'
  BY <1>1, <1>3, NothingPublished
<1>4. ASSUME RunChecks PROVE RowsFit'
  <2>1. ASSUME NEW gate, loop' = [loop EXCEPT !.gate = gate, !.formatted = IF gate \in FormatGates \ @ THEN @ ELSE {}],
               pc' = IF gate \in FormatGates \ loop.formatted THEN "format"
                     ELSE IF sum.phase = "review" THEN "rescan" ELSE "judge",
               UNCHANGED sum
        PROVE  RowsFit'
    <3>1. loop'.rounds = loop.rounds /\ loop'.findings = loop.findings
      BY <1>1, <2>1 DEF Loops
    <3>2. pc = "checks"
      BY <1>4 DEF RunChecks
    <3>3. InFix => InFix'
      BY <2>1, <3>2 DEF InFix, Fixing, AgentIs
    <3> QED BY <1>3, <2>1, <3>1, <3>3
  <2> QED BY <1>2, <1>4, <2>1 DEF RunChecks
<1>5. ASSUME FormatInPlace PROVE RowsFit'
  <2>1. ASSUME pc' = "checks", loop' = [loop EXCEPT !.formatted = @ \cup {loop.gate}], UNCHANGED sum
        PROVE  RowsFit'
    <3>1. loop'.rounds = loop.rounds /\ loop'.findings = loop.findings
      BY <1>1, <2>1 DEF Loops
    <3>2. pc = "format"
      BY <1>5 DEF FormatInPlace
    <3>3. InFix => InFix'
      BY <2>1, <3>2 DEF InFix, Fixing, AgentIs
    <3> QED BY <1>3, <2>1, <3>1, <3>3
  <2> QED BY <1>2, <1>5, <2>1 DEF FormatInPlace
<1>6. ASSUME BeginFix PROVE RowsFit'
  <2>1. ASSUME StartAgent("build", "fix", loop.round + 1, 1, BuildModels,
                          roundTimeout(spent, ReviewBudget), loop.session),
               UNCHANGED sum
        PROVE  RowsFit'
    <3>1. InFix' /\ loop' = loop
      BY <1>6, <2>1 DEF StartAgent, InFix, AgentIs, BeginFix
    <3> QED BY <1>3, <2>1, <3>1
  <2>2. ASSUME Draft(loop.rounds, "findings"), UNCHANGED loop PROVE RowsFit'
    <3>1. sum'.rows = Published(loop.rounds) /\ pc' = "commit" /\ ~sum'.ready
      <4>1. ~sum.ready
        BY <1>1 DEF IInv, ReadyFits
      <4>2. PICK rows : rows = Published(loop.rounds)
        OBVIOUS
      <4>3. sum' = [sum EXCEPT !.phase = "commit", !.detail = "findings", !.rows = rows] /\ pc' = "commit"
        BY <2>2, <4>2 DEF Draft
      <4> QED BY <1>1, <4>1, <4>2, <4>3 DEF Sums
    <3>2. loop.rounds # <<>> => LeftOpen(loop.rounds) \subseteq DOMAIN sum'.rows
      <4>1. loop.rounds \in Seq(FixRound)
        BY <1>1 DEF Loops
      <4> QED BY <3>1, <4>1, LeftIsListed DEF Published
    <3> QED BY <2>2, <3>1, <3>2 DEF RowsFit, Resting
  <2> QED BY <1>6, <2>1, <2>2 DEF BeginFix
<1>7. ASSUME RescanGuards PROVE RowsFit'
  <2>1. ASSUME NEW g, UNCHANGED sum, loop' = [loop EXCEPT !.surviving = g], pc' = "recheck" PROVE RowsFit'
    <3>1. loop'.rounds = loop.rounds /\ loop'.findings = loop.findings
      BY <1>1, <2>1 DEF Loops
    <3>2. InFix'
      BY <2>1 DEF InFix, Fixing
    <3> QED BY <1>3, <2>1, <3>1, <3>2
  <2> QED BY <1>2, <1>7, <2>1 DEF RescanGuards, ScanGuards
<1> QED BY <1>4, <1>5, <1>6, <1>7

(* The first review pass publishes nothing. *)
LEMMA ReviewedRows == ASSUME IInv, RowsFit, Reviewed PROVE RowsFit'
<1>1. pc = "reviewed" /\ ~InFix /\ pc \notin Resting /\ sum \in Sums /\ loop \in Loops
  BY DEF Reviewed, IInv, Types, InFix, Fixing, AgentIs, Resting
<1>2. ASSUME NEW r, Fail(r) PROVE RowsFit'
  BY <1>1, <1>2, RowsUntouched, NothingPublished
<1>3. ASSUME sum' = [sum EXCEPT !.phase = "commit", !.ready = TRUE], pc' = "commit" PROVE RowsFit'
  <2>1. sum'.rows = sum.rows
    BY <1>1, <1>3 DEF Sums
  <2> QED BY <1>1, <1>3, <2>1, NothingPublished DEF Resting
<1>4. ASSUME NEW pending, loop' = [loop EXCEPT !.findings = pending, !.n = 1], UNCHANGED sum PROVE RowsFit'
  <2>1. loop'.rounds = loop.rounds
    BY <1>1, <1>4 DEF Loops
  <2> QED BY <1>1, <1>4, <2>1, NothingPublished
<1> QED BY <1>2, <1>3, <1>4 DEF Reviewed

(* Where a fix round is re-checked, the rounds so far are chained. *)
LEMMA AtRecheck ==
  ASSUME IInv, RowsFit, pc \in {"recheck", "rechecked"}
  PROVE  /\ sum \in Sums /\ loop \in Loops /\ loop.rounds \in Seq(FixRound) /\ loop.findings \in SUBSET Findings
         /\ InFix /\ pc \notin Resting /\ ~sum.ready
         /\ Chained(loop.rounds) /\ (loop.rounds # <<>> => LeftOpen(loop.rounds) \subseteq loop.findings)
<1>1. sum \in Sums /\ loop \in Loops
  BY DEF IInv, Types
<1>2. loop.rounds \in Seq(FixRound) /\ loop.findings \in SUBSET Findings
  BY <1>1 DEF Loops
<1>3. InFix /\ pc \notin Resting /\ ~sum.ready
  BY DEF InFix, Fixing, Resting, IInv, ReadyFits
<1> QED BY <1>1, <1>2, <1>3 DEF RowsFit, RoundsChain

(* A draft lists what its last round left open. *)
LEMMA DraftRows ==
  ASSUME sum \in Sums, ~sum.ready, NEW rounds \in Seq(FixRound), rounds # <<>>, NEW detail,
         Draft(rounds, detail), loop'.rounds = rounds
  PROVE  RowsFit'
<1>1. PICK rows : rows = reviewRows(rounds)
  OBVIOUS
<1>2. sum' = [sum EXCEPT !.phase = "commit", !.detail = detail, !.rows = rows] /\ pc' = "commit"
  BY <1>1 DEF Draft, Published
<1>3. sum'.rows = rows /\ ~sum'.ready
  BY <1>2 DEF Sums
<1>4. LeftOpen(loop'.rounds) \subseteq DOMAIN sum'.rows
  BY <1>1, <1>3, LeftIsListed
<1> QED BY <1>2, <1>3, <1>4 DEF RowsFit, Resting

(* A re-check begins, or there is no time for it. *)
LEMMA RecheckRows == ASSUME IInv, RowsFit, Recheck PROVE RowsFit'
<1>1. pc = "recheck"
  BY DEF Recheck
<1>2. PICK r : r = [issued |-> loop.findings, open |-> {}, rechecked |-> FALSE]
  OBVIOUS
<1>3. ASSUME Draft(Append(loop.rounds, r), "findings"), loop' = [loop EXCEPT !.rounds = Append(@, r)] PROVE RowsFit'
  <2>1. r \in FixRound /\ r.issued = loop.findings
    BY <1>1, <1>2, AtRecheck DEF FixRound
  <2>2. Append(loop.rounds, r) \in Seq(FixRound) /\ Append(loop.rounds, r) # <<>>
    BY <1>1, <2>1, AtRecheck, RoundAppended
  <2>3. loop'.rounds = Append(loop.rounds, r)
    BY <1>1, <1>3, AtRecheck DEF Loops
  <2> QED BY <1>1, <1>3, <2>2, <2>3, AtRecheck, DraftRows
<1>4. ASSUME Fail("checks-run") PROVE RowsFit'
  BY <1>1, <1>4, AtRecheck, RowsUntouched, NothingPublished
<1>5. ASSUME pc' = "agent", call'.kind = "recheck", UNCHANGED <<sum, loop>> PROVE RowsFit'
  <2>1. InFix'
    BY <1>5 DEF InFix, Fixing, AgentIs
  <2> QED BY <1>1, <1>5, <2>1, AtRecheck, NothingPublished
<1>6. \/ Draft(Append(loop.rounds, r), "findings") /\ loop' = [loop EXCEPT !.rounds = Append(@, r)]
      \/ Fail("checks-run")
      \/ pc' = "agent" /\ call'.kind = "recheck" /\ UNCHANGED <<sum, loop>>
  BY <1>2 DEF Recheck, StartAgent
<1> QED BY <1>3, <1>4, <1>5, <1>6

(* A re-check publishes, or hands what it left open to the next fix round. *)
LEMMA RecheckedRows == ASSUME IInv, RowsFit, Rechecked PROVE RowsFit'
<1>1. pc = "rechecked"
  BY DEF Rechecked
<1>2. ASSUME NEW r, Fail(r) PROVE RowsFit'
  BY <1>1, <1>2, AtRecheck, RowsUntouched, NothingPublished
<1>3. ASSUME NEW remarks \in SUBSET Remarks, NEW open, open = loop.surviving \cup remarks,
             NEW rounds,
             rounds = Append(loop.rounds, [issued |-> loop.findings, open |-> open, rechecked |-> TRUE]),
             \/ /\ open = {}
                /\ sum' = [sum EXCEPT !.phase = "commit", !.rows = reviewRows(rounds),
                                      !.ready = ReadyAfterFix(loop.gate),
                                      !.detail = checksDetail(loop.gate)]
                /\ pc' = "commit"
                /\ loop' = [loop EXCEPT !.rounds = rounds]
             \/ /\ loop' = [loop EXCEPT !.rounds = rounds, !.findings = open, !.n = @ + 1]
                /\ pc' = "fix"
                /\ UNCHANGED sum
             \/ /\ Draft(rounds, "findings")
                /\ loop' = [loop EXCEPT !.rounds = rounds]
      PROVE  RowsFit'
  <2>1. PICK r : r = [issued |-> loop.findings, open |-> open, rechecked |-> TRUE]
    OBVIOUS
  <2>2. r \in FixRound /\ r.issued = loop.findings /\ r.open = open
    <3>1. open \in SUBSET Findings
      BY <1>1, <1>3, AtRecheck DEF Loops, Findings
    <3> QED BY <1>1, <2>1, <3>1, AtRecheck DEF FixRound
  <2>3. rounds = Append(loop.rounds, r)
    BY <1>3, <2>1
  <2>4. /\ rounds \in Seq(FixRound) /\ rounds # <<>> /\ Chained(rounds) /\ LeftOpen(rounds) = open
    BY <1>1, <2>2, <2>3, AtRecheck, RoundAppended
  <2>5. ASSUME open = {}, pc' = "commit", loop' = [loop EXCEPT !.rounds = rounds],
               sum' = [sum EXCEPT !.phase = "commit", !.rows = reviewRows(rounds),
                                  !.ready = ReadyAfterFix(loop.gate), !.detail = checksDetail(loop.gate)]
        PROVE  RowsFit'
    <3>1. PICK rows, ready, detail :
            rows = reviewRows(rounds) /\ ready = ReadyAfterFix(loop.gate) /\ detail = checksDetail(loop.gate)
      OBVIOUS
    <3>2. sum' = [sum EXCEPT !.phase = "commit", !.rows = rows, !.ready = ready, !.detail = detail]
      BY <2>5, <3>1
    <3>3. sum'.rows = rows
      BY <1>1, <3>2, AtRecheck DEF Sums
    <3>4. loop'.rounds = rounds
      BY <1>1, <2>5, AtRecheck DEF Loops
    <3>5. NoneOpen(rows) /\ LeftOpen(rounds) \subseteq DOMAIN rows
      BY <2>4, <2>5, <3>1, CleanRows, LeftIsListed
    <3> QED BY <2>5, <3>3, <3>4, <3>5 DEF RowsFit, Resting
  <2>6. ASSUME loop' = [loop EXCEPT !.rounds = rounds, !.findings = open, !.n = @ + 1], pc' = "fix", UNCHANGED sum
        PROVE  RowsFit'
    <3>1. loop'.rounds = rounds /\ loop'.findings = open
      <4>1. PICK m : m = loop.n + 1
        OBVIOUS
      <4>2. loop' = [loop EXCEPT !.rounds = rounds, !.findings = open, !.n = m]
        BY <2>6, <4>1
      <4> QED BY <1>1, <4>2, AtRecheck DEF Loops
    <3>2. RoundsChain'
      <4>1. InFix'
        BY <2>6 DEF InFix
      <4> QED BY <2>4, <3>1, <4>1 DEF RoundsChain
    <3>3. sum'.rows = NoRows
      BY <1>1, <2>6 DEF RowsFit
    <3> QED BY <2>6, <3>2, <3>3 DEF RowsFit
  <2>7. ASSUME Draft(rounds, "findings"), loop' = [loop EXCEPT !.rounds = rounds] PROVE RowsFit'
    <3>1. loop'.rounds = rounds
      BY <1>1, <2>7, AtRecheck DEF Loops
    <3> QED BY <1>1, <2>4, <2>7, <3>1, AtRecheck, DraftRows
  <2> QED BY <1>3, <2>5, <2>6, <2>7
<1> QED BY <1>2, <1>3 DEF Rechecked

(* The commit, the kept work and a panic publish nothing more. *)
LEMMA CommitRows ==
  ASSUME IInv, RowsFit, CommitFails \/ CommitWork \/ KeepWork \/ Panic
  PROVE  RowsFit'
<1>1. sum \in Sums
  BY DEF IInv, Types
<1>2. ASSUME pc' = "ended", sum'.rows = sum.rows, sum'.ready => sum.ready, loop' = loop \/ loop' = NoLoop PROVE RowsFit'
  BY <1>2, RestedRows DEF Resting
<1>3. ASSUME CommitFails \/ Panic PROVE RowsFit'
  <2>1. \E phase, r : Stop(phase, r)
    BY <1>3 DEF CommitFails, Panic
  <2>2. pc' = "ended" /\ sum'.rows = sum.rows /\ sum'.ready = sum.ready
    BY <1>1, <2>1, RowsUntouched
  <2>3. loop' = loop \/ loop' = NoLoop
    BY <1>3 DEF CommitFails, Panic
  <2> QED BY <1>2, <2>2, <2>3
<1>4. ASSUME CommitWork PROVE RowsFit'
  <2>1. pc' = "ended" /\ loop' = loop
    BY <1>4 DEF CommitWork
  <2>2. ASSUME sum' = [sum EXCEPT !.outcome = "no-changes"] PROVE RowsFit'
    <3>1. sum'.rows = sum.rows /\ sum'.ready = sum.ready
      BY <1>1, <2>2 DEF Sums
    <3> QED BY <1>2, <2>1, <3>1
  <2>3. ASSUME NEW extra, NEW workflow,
               sum' = [sum EXCEPT !.outcome = IF workflow THEN "stopped" ELSE "built",
                                  !.reason  = IF workflow THEN "workflow-change" ELSE "none",
                                  !.ready   = sum.ready /\ ~extra /\ ~workflow,
                                  !.extra   = extra, !.bundle = TRUE]
        PROVE  RowsFit'
    <3>1. PICK outcome, reason, ready :
            /\ ready = (sum.ready /\ ~extra /\ ~workflow)
            /\ sum' = [sum EXCEPT !.outcome = outcome, !.reason = reason, !.ready = ready,
                                  !.extra = extra, !.bundle = TRUE]
      BY <2>3
    <3>2. sum'.rows = sum.rows /\ sum'.ready = ready
      BY <1>1, <3>1 DEF Sums
    <3> QED BY <1>2, <2>1, <3>1, <3>2
  <2> QED BY <1>4, <2>2, <2>3 DEF CommitWork
<1>5. ASSUME KeepWork PROVE RowsFit'
  <2>1. pc' = "ended" /\ loop' = loop
    BY <1>5 DEF KeepWork
  <2>2. ASSUME NEW extra, sum' = [sum EXCEPT !.detail = "kept", !.extra = extra, !.bundle = TRUE]
        PROVE  sum'.rows = sum.rows /\ sum'.ready = sum.ready
    BY <1>1, <2>2 DEF Sums
  <2>3. ASSUME sum' = [sum EXCEPT !.phase = "commit", !.outcome = "stopped", !.reason = "workflow-change",
                                  !.bundle = TRUE]
        PROVE  sum'.rows = sum.rows /\ sum'.ready = sum.ready
    BY <1>1, <2>3 DEF Sums
  <2> QED BY <1>2, <1>5, <2>1, <2>2, <2>3 DEF KeepWork
<1> QED BY <1>3, <1>4, <1>5

(* Every step of a model job keeps its rows accounted for. *)
LEMMA NextRows == IInv /\ RowsFit /\ [Next]_vars => RowsFit'
<1> SUFFICES ASSUME IInv, RowsFit, [Next]_vars PROVE RowsFit'
  OBVIOUS
<1>1. CASE UNCHANGED vars
  BY <1>1 DEF vars, RowsFit, RoundsChain, InFix, Fixing, AgentIs
<1> QED BY <1>1, OutsideRows, AgentRows, CheckRows, ReviewedRows, RecheckRows, RecheckedRows, CommitRows DEF Next

(* For any findings and any number of fix rounds, the rows a PR publishes name          *)
(* everything the last re-check reported, and a ready PR calls none of them open:       *)
(* reviewRows looks only at the last round a finding was given to, which is enough      *)
(* because runReview gives each round exactly what the one before it left open.         *)
THEOREM RowsAccount == Spec => []RowsAccountForFindings
<1>1. Init => RowsFit
  BY DEF Init, RowsFit, RoundsChain, Chained, NoLoop, NoSummary
<1>2. RowsFit => RowsAccountForFindings
  BY DEF RowsFit, RowsAccountForFindings, LeftOpen, NoneOpen, OpenRows
<1> QED BY <1>1, <1>2, InvHolds, NextRows, PTL DEF Spec
=============================================================================
