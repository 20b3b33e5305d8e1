--------------------------- MODULE RunQueueProofs ---------------------------
(***************************************************************************)
(* Proofs about RunQueue, for every set of runs, of overlapping polls and  *)
(* every bound.                                                            *)
(***************************************************************************)
EXTENDS RunQueue, FiniteSetTheorems, TLAPS

(***************************************************************************)
(* Type correctness                                                        *)
(***************************************************************************)

(* The null records belong to their types. *)
LEMMA NullRecords ==
  /\ NoRow \in Row /\ NoEntry \in Entry /\ NoJob \in Job /\ ManualJob \in Job /\ Idle \in Task
BY ConstantsAssumption DEF NoRow, Row, NoEntry, Entry, NoJob, ManualJob, Job, Idle, Task,
   States, Results, Attempts, Stages, Phases, TaskKinds

(* Dropping keys from the ledger leaves a ledger. *)
LEMMA WithoutType ==
  ASSUME ledger \in [Keys -> Entry], NEW S
  PROVE  Without(S) \in [Keys -> Entry]
BY NullRecords DEF Without

(* A requeue within the attempt bound writes a row. *)
LEMMA RequeuedType ==
  ASSUME NEW row \in Row, row.attempt < MaxAttempt, NEW state \in States, NEW keep \in BOOLEAN
  PROVE  /\ Requeued(row, state, keep) \in Row
         /\ Replanned(row, keep) \in Row
         /\ Requeued(row, state, keep).attempt = row.attempt + 1
         /\ Requeued(row, state, keep).requeues = row.requeues
<1>1. row.attempt + 1 \in Attempts
  BY ConstantsAssumption DEF Row, Attempts
<1>2. Requeued(row, state, keep) \in Row
  BY <1>1 DEF Requeued, Row, Results
<1>3. Requeued(row, "queued", keep) \in Row
  BY <1>1 DEF Requeued, Row, Results, States
<1>4. Replanned(row, keep) \in Row
  BY <1>1, <1>3 DEF Replanned, Row
<1>5. /\ Requeued(row, state, keep).attempt = row.attempt + 1
      /\ Requeued(row, state, keep).requeues = row.requeues
  BY DEF Requeued, Row
<1> QED
  BY <1>2, <1>4, <1>5

(* The end of a workflow run keeps the types of its concurrency group. *)
LEMMA JobEndsType ==
  ASSUME TypeOK, NEW r \in Runs, JobEnds(r)
  PROVE  running' \in [Runs -> Job] /\ pending' \in [Runs -> Job] /\ last' \in [Runs -> Job]
<1>1. running[r] \in Job /\ pending[r] \in Job
  BY DEF TypeOK
<1>2. [running[r] EXCEPT !.phase = "run"] \in Job
  BY <1>1 DEF Job, Phases
<1> QED
  BY <1>1, <1>2, NullRecords DEF TypeOK, JobEnds

(* So does a step of its record job. *)
LEMMA JobMovesType ==
  ASSUME TypeOK, NEW r \in Runs, NEW phase \in Phases, JobMoves(r, phase)
  PROVE  running' \in [Runs -> Job] /\ pending' \in [Runs -> Job] /\ last' \in [Runs -> Job]
BY DEF TypeOK, JobMoves, Job

(* So does a dispatch. *)
LEMMA StartJobType ==
  ASSUME TypeOK, NEW r \in Runs, NEW task \in Task, StartJob(r, JobOf(task))
  PROVE  running' \in [Runs -> Job] /\ pending' \in [Runs -> Job] /\ last' \in [Runs -> Job]
<1>1. JobOf(task) \in Job
  BY DEF JobOf, Task, Job, Phases
<1> QED
  BY <1>1 DEF TypeOK, StartJob

(* Every step keeps the types. *)
LEMMA TypeInductive ==
  ASSUME TypeOK, [Next]_vars
  PROVE  TypeOK'
<1>1. ASSUME NEW p \in Pollers, NEW todo \in [Runs -> Task], PollListed(p, todo),
             UNCHANGED <<rows, ledger, github, byHand>>
      PROVE  TypeOK'
  BY <1>1 DEF TypeOK, PollListed, github
<1>2. ASSUME NEW p \in Pollers, PollLists(p) \/ PollEnds(p)
      PROVE  TypeOK'
  <2>1. CASE ListCandidates(p)
    <3> DEFINE listed == {r \in Runs : rows[r].state \in CandidateStates}
    <3>1. PICK stage \in [listed -> Stages] :
            PollListed(p, [r \in Runs |->
               IF r \in listed
               THEN [kind |-> "candidate", attempt |-> rows[r].attempt, stage |-> stage[r]]
               ELSE Idle])
      BY <2>1 DEF ListCandidates
    <3> HIDE DEF listed
    <3>2. [r \in Runs |->
               IF r \in listed
               THEN [kind |-> "candidate", attempt |-> rows[r].attempt, stage |-> stage[r]]
               ELSE Idle] \in [Runs -> Task]
      BY NullRecords DEF TypeOK, Row, Task, TaskKinds
    <3> QED
      BY <1>1, <2>1, <3>1, <3>2 DEF ListCandidates
  <2>2. CASE ListTransientStops(p)
    <3> DEFINE todo == [r \in Runs |-> IF r \in {s \in Runs : requeueDue(rows[s]) /\ ~rows[s].cancelled}
                                       THEN [Idle EXCEPT !.kind = "requeue"] ELSE Idle]
    <3>1. [Idle EXCEPT !.kind = "requeue"] \in Task
      BY NullRecords DEF Task, TaskKinds
    <3>2. todo \in [Runs -> Task]
      BY NullRecords, <3>1
    <3> QED
      BY <1>1, <2>2, <3>2 DEF ListTransientStops
  <2>3. CASE ListWaiting(p)
    <3>1. PICK due : PollListed(p, [r \in Runs |->
               IF r \in due
               THEN [Idle EXCEPT !.kind = IF rows[r].replied THEN "answer" ELSE "stop"]
               ELSE Idle])
      BY <2>3 DEF ListWaiting
    <3>2. [Idle EXCEPT !.kind = "answer"] \in Task /\ [Idle EXCEPT !.kind = "stop"] \in Task
      BY NullRecords DEF Task, TaskKinds
    <3>3. [r \in Runs |-> IF r \in due
               THEN [Idle EXCEPT !.kind = IF rows[r].replied THEN "answer" ELSE "stop"]
               ELSE Idle] \in [Runs -> Task]
      BY NullRecords, <3>2
    <3> QED
      BY <1>1, <2>3, <3>1, <3>3 DEF ListWaiting
  <2>4. CASE PollEnds(p)
    BY <1>1, <2>4, NullRecords DEF PollEnds
  <2> QED
    BY <1>2, <2>1, <2>2, <2>3, <2>4 DEF PollLists
<1>3. ASSUME NEW p \in Pollers, NEW r \in Runs, PollActs(p, r)
      PROVE  TypeOK'
  <2> DEFINE row == rows[r]
             task == tasks[p][r]
  <2>0. row \in Row /\ task \in Task
    BY DEF TypeOK
  <2>1. CASE ClaimWithheld(p, r)
    BY <2>1, NullRecords DEF TypeOK, ClaimWithheld, github
  <2>2. CASE ClaimEnded(p, r)
    <3>1. [row EXCEPT !.state = "claimed"] \in Row
      BY <2>0 DEF Row, States
    <3> QED
      BY <2>2, <3>1, NullRecords DEF TypeOK, ClaimEnded, github
  <2>3. CASE ClaimBooked(p, r)
    <3>1. [task EXCEPT !.kind = "dispatch"] \in Task
      BY <2>0 DEF Task, TaskKinds
    <3>2. [stage |-> task.stage, stale |-> FALSE] \in Entry
      BY <2>0 DEF Task, Entry
    <3>3. [row EXCEPT !.state = "claimed", !.claimedAt = TRUE, !.stale = FALSE] \in Row
      BY <2>0 DEF Row, States
    <3>4. ledger' \in [Keys -> Entry]
      BY <2>3, <3>2 DEF ClaimBooked, TypeOK
    <3>5. tasks' \in [Pollers -> [Runs -> Task]]
      BY <2>3, <3>1 DEF ClaimBooked, TypeOK
    <3>6. rows' \in [Runs -> Row]
      BY <2>3, <3>3 DEF ClaimBooked, TypeOK
    <3> QED
      BY <2>3, <3>4, <3>5, <3>6 DEF ClaimBooked, TypeOK, github
  <2>4. CASE Dispatched(p, r)
    BY <2>0, <2>4, StartJobType, NullRecords DEF Dispatched, TypeOK
  <2>5. CASE DispatchFailed(p, r)
    <3>1. [task EXCEPT !.kind = "release"] \in Task
      BY <2>0 DEF Task, TaskKinds
    <3>2. running' \in [Runs -> Job] /\ pending' \in [Runs -> Job] /\ last' \in [Runs -> Job]
      BY <2>0, <2>5, StartJobType DEF DispatchFailed, TypeOK, github
    <3> QED
      BY <2>5, <3>1, <3>2 DEF DispatchFailed, TypeOK
  <2>6. CASE Release(p, r)
    <3>1. ledger' \in [Keys -> Entry]
      BY <2>6, WithoutType DEF Release, TypeOK
    <3>2. ASSUME NEW state \in States
          PROVE  [row EXCEPT !.state = state, !.claimedAt = FALSE, !.stale = FALSE] \in Row
      BY <2>0 DEF Row
    <3>3. rows' \in [Runs -> Row]
      BY <2>6, <3>2 DEF Release, TypeOK, States
    <3> QED
      BY <2>6, <3>1, <3>3, NullRecords DEF Release, TypeOK, github
  <2>7. CASE RequeueTransient(p, r)
    <3>1. CASE requeueAllowed(row) /\ transientLeft(row) /\ row.attempt < MaxAttempt
      <4>1. requeueState(row) \in States
        BY DEF requeueState, States
      <4>2. Requeued(row, requeueState(row), TRUE) \in Row
        BY <2>0, <3>1, <4>1, RequeuedType
      <4>3. Requeued(row, requeueState(row), TRUE).requeues + 1 \in 0..MaxTransient
        <5>1. Requeued(row, requeueState(row), TRUE).requeues = row.requeues
          BY <2>0, <3>1, <4>1, RequeuedType
        <5>2. row.requeues \in 0..MaxTransient
          BY <2>0 DEF Row
        <5>3. row.requeues < MaxTransient
          BY <3>1 DEF transientLeft
        <5>4. row.requeues + 1 \in 0..MaxTransient
          BY <5>2, <5>3, ConstantsAssumption
        <5> QED
          BY <5>1, <5>4
      <4>4. [Requeued(row, requeueState(row), TRUE) EXCEPT !.requeues = @ + 1] \in Row
        BY <4>2, <4>3 DEF Row
      <4>5. rows' \in [Runs -> Row] /\ ledger' \in [Keys -> Entry]
        BY <2>7, <3>1, <4>4, WithoutType DEF RequeueTransient, requeue, TypeOK
      <4> QED
        BY <2>7, <4>5, NullRecords DEF RequeueTransient, TypeOK, github
    <3>2. CASE ~(requeueAllowed(row) /\ transientLeft(row))
      BY <2>7, <3>2, NullRecords DEF RequeueTransient, TypeOK, github
    <3> QED
      BY <2>7, <3>1, <3>2 DEF RequeueTransient, requeue
  <2>8. CASE Answer(p, r)
    <3>1. [row EXCEPT !.state = "queued", !.replied = FALSE,
                      !.claimedAt = FALSE, !.stale = FALSE] \in Row
      BY <2>0 DEF Row, States
    <3> QED
      BY <2>8, <3>1, NullRecords DEF Answer, TypeOK, github
  <2>9. CASE StopWaiting(p, r)
    <3>1. [row EXCEPT !.state = "stopped", !.result = "stopped", !.replied = FALSE] \in Row
      BY <2>0 DEF Row, States, Results
    <3> QED
      BY <2>9, <3>1, NullRecords DEF StopWaiting, TypeOK, github
  <2> QED
    BY <1>3, <2>1, <2>2, <2>3, <2>4, <2>5, <2>6, <2>7, <2>8, <2>9 DEF PollActs, TryClaim
<1>4. ASSUME NEW r \in Runs, JobActs(r)
      PROVE  TypeOK'
  <2> DEFINE row == rows[r]
             job == running[r]
  <2>0. row \in Row /\ job \in Job
    BY DEF TypeOK
  <2>1. CASE WritePlan(r)
    <3>1. [row EXCEPT !.plan = job.attempt, !.stamped = TRUE] \in Row
      BY <2>0 DEF Row, Job
    <3> QED
      BY <2>1, <3>1, JobMovesType DEF WritePlan, TypeOK, Phases
  <2>2. CASE SettlePlan(r)
    <3>1. [row EXCEPT !.state = "planned"] \in Row
      BY <2>0 DEF Row, States
    <3>2. rows' \in [Runs -> Row] /\ ledger' \in [Keys -> Entry]
      BY <2>2, <3>1, WithoutType DEF SettlePlan, TypeOK
    <3> QED
      BY <2>2, <3>2, JobEndsType DEF SettlePlan, TypeOK
  <2>3. SettledStamp(r) \in BOOLEAN
    BY <2>0 DEF SettledStamp, Row
  <2>4. CASE Stop(r)
    <3>1. [row EXCEPT !.state = "stopped", !.result = "stopped",
                      !.replied = FALSE, !.stamped = SettledStamp(r)] \in Row
      BY <2>0, <2>3 DEF Row, States, Results
    <3>2. rows' \in [Runs -> Row] /\ ledger' \in [Keys -> Entry]
      BY <2>4, <3>1, WithoutType DEF Stop, TypeOK
    <3> QED
      BY <2>4, <3>2, JobEndsType DEF Stop, TypeOK
  <2>5. ASSUME NEW state \in States, NEW provisional \in BOOLEAN,
               settleDecision(r, state, provisional)
        PROVE  TypeOK'
    <3>1. (row.provisional \/ provisional) \in BOOLEAN
      BY <2>0 DEF Row
    <3>2. [row EXCEPT !.state = state, !.provisional = row.provisional \/ provisional,
                      !.replied = FALSE, !.claimedAt = FALSE, !.stale = FALSE,
                      !.stamped = SettledStamp(r)] \in Row
      BY <2>0, <2>3, <3>1 DEF Row
    <3>3. rows' \in [Runs -> Row]
      BY <2>5, <3>2 DEF settleDecision, TypeOK
    <3>4. ledger' \in [Keys -> Entry]
      BY <2>5, WithoutType DEF settleDecision, TypeOK
    <3> QED
      BY <2>5, <3>3, <3>4, JobEndsType DEF settleDecision, TypeOK
  <2>6. CASE Suspend(r) \/ TakeRecommendation(r)
    BY <2>5, <2>6 DEF Suspend, TakeRecommendation, States
  <2>7. CASE PutRecord(r)
    <3>1. PICK result \in Results, transient \in BOOLEAN, phase \in {"put", "putConflict"} :
            /\ rows' = [rows EXCEPT ![r] = [@ EXCEPT !.result = result, !.transient = transient]]
            /\ JobMoves(r, phase)
      BY <2>7 DEF PutRecord
    <3>2. [row EXCEPT !.result = result, !.transient = transient] \in Row
      BY <2>0 DEF Row
    <3> QED
      BY <2>7, <3>1, <3>2, JobMovesType DEF PutRecord, TypeOK, Phases
  <2>8. CASE Settle(r)
    <3>1. ledger' \in [Keys -> Entry]
      BY <2>8, WithoutType DEF Settle, TypeOK
    <3>2. running' \in [Runs -> Job] /\ pending' \in [Runs -> Job] /\ last' \in [Runs -> Job]
      BY <2>8, JobEndsType, JobMovesType DEF Settle, Phases
    <3> QED
      BY <2>8, <3>1, <3>2 DEF Settle, TypeOK
  <2>9. CASE RequeueAfterConflict(r)
    <3>1. row.attempt < MaxAttempt => Replanned(row, TRUE) \in Row
      BY <2>0, RequeuedType DEF States
    <3>2. rows' \in [Runs -> Row] /\ ledger' \in [Keys -> Entry]
      BY <2>9, <3>1, WithoutType DEF RequeueAfterConflict, requeue, TypeOK
    <3> QED
      BY <2>9, <3>2, JobEndsType DEF RequeueAfterConflict, TypeOK
  <2>10. CASE JobLost(r)
    BY <2>10, JobEndsType DEF JobLost, TypeOK
  <2> QED
    BY <1>4, <2>1, <2>2, <2>4, <2>6, <2>7, <2>8, <2>9, <2>10 DEF JobActs
<1>5. ASSUME NEW r \in Runs, OwnerActs(r)
      PROVE  TypeOK'
  <2> DEFINE row == rows[r]
  <2>0. row \in Row
    BY DEF TypeOK
  <2>1. ByHand => byHand' \in 0..MaxByHand
    BY ConstantsAssumption DEF TypeOK, ByHand
  <2>2. CASE RunByHand(r)
    <3>1. running' \in [Runs -> Job] /\ pending' \in [Runs -> Job] /\ last' \in [Runs -> Job]
      BY <2>2, NullRecords DEF RunByHand, TypeOK
    <3> QED
      BY <2>1, <2>2, <3>1 DEF RunByHand, TypeOK
  <2>3. CASE Requeue(r)
    <3>1. Requeued(row, requeueState(row), FALSE) \in Row
      BY <2>0, <2>3, RequeuedType DEF Requeue, requeue, requeueState, States
    <3>2. rows' \in [Runs -> Row] /\ ledger' \in [Keys -> Entry]
      BY <2>3, <3>1, WithoutType DEF Requeue, requeue, TypeOK
    <3> QED
      BY <2>3, <3>2 DEF Requeue, TypeOK, github
  <2>4. CASE Supersede(r)
    <3>1. Replanned(row, FALSE) \in Row
      BY <2>0, <2>4, RequeuedType DEF Supersede, requeue, States
    <3>2. [Replanned(row, FALSE) EXCEPT !.provisional = FALSE] \in Row
      BY <3>1 DEF Row
    <3>3. rows' \in [Runs -> Row] /\ ledger' \in [Keys -> Entry]
      BY <2>4, <3>2, WithoutType DEF Supersede, requeue, TypeOK
    <3> QED
      BY <2>1, <2>4, <3>3 DEF Supersede, TypeOK, github
  <2>5. CASE RetryWithNote(r)
    <3>1. Replanned(row, TRUE) \in Row
      BY <2>0, <2>5, RequeuedType DEF RetryWithNote, requeue, States
    <3>2. [Replanned(row, TRUE) EXCEPT !.noted = TRUE] \in Row
      BY <3>1 DEF Row
    <3>3. rows' \in [Runs -> Row] /\ ledger' \in [Keys -> Entry]
      BY <2>5, <3>2, WithoutType DEF RetryWithNote, requeue, TypeOK
    <3> QED
      BY <2>1, <2>5, <3>3 DEF RetryWithNote, TypeOK, github
  <2>6. CASE Reply(r)
    <3>1. [row EXCEPT !.replied = TRUE] \in Row
      BY <2>0 DEF Row
    <3> QED
      BY <2>6, <3>1 DEF Reply, TypeOK, github
  <2>7. CASE ConfirmProvisional(r)
    <3>1. [row EXCEPT !.provisional = FALSE] \in Row
      BY <2>0 DEF Row
    <3> QED
      BY <2>1, <2>7, <3>1 DEF ConfirmProvisional, TypeOK, github
  <2>8. CASE RecordCancel(r)
    <3>1. [row EXCEPT !.cancelled = TRUE] \in Row
      BY <2>0 DEF Row
    <3> QED
      BY <2>1, <2>8, <3>1 DEF RecordCancel, TypeOK, github
  <2>9. CASE RecordMerge(r)
    <3>1. [row EXCEPT !.merged = TRUE] \in Row
      BY <2>0 DEF Row
    <3> QED
      BY <2>1, <2>9, <3>1 DEF RecordMerge, TypeOK, github
  <2> QED
    BY <1>5, <2>2, <2>3, <2>4, <2>5, <2>6, <2>7, <2>8, <2>9 DEF OwnerActs
<1>6. ASSUME NEW r \in Runs, Enqueue(r) \/ StopRetried(r) \/ WindowPasses(r) \/ Sweep(r)
      PROVE  TypeOK'
  <2> DEFINE row == rows[r]
  <2>0. row \in Row
    BY DEF TypeOK
  <2>1. CASE Enqueue(r)
    <3>1. [row EXCEPT !.state = "queued"] \in Row
      BY <2>0 DEF Row, States
    <3> QED
      BY <2>1, <3>1 DEF Enqueue, TypeOK, github
  <2>2. CASE StopRetried(r)
    <3>1. [row EXCEPT !.state = "stopped", !.result = "stopped"] \in Row
      BY <2>0 DEF Row, States, Results
    <3> QED
      BY <2>2, <3>1 DEF StopRetried, TypeOK, github
  <2>3. CASE WindowPasses(r)
    <3>1. [row EXCEPT !.stale = row.claimedAt] \in Row
      BY <2>0 DEF Row
    <3>2. ASSUME NEW k \in Keys
          PROVE  [ledger[k] EXCEPT !.stale = TRUE] \in Entry
      BY DEF TypeOK, Entry
    <3>3. ledger' \in [Keys -> Entry]
      BY <2>3, <3>2 DEF WindowPasses, TypeOK
    <3> QED
      BY <2>3, <3>1, <3>3 DEF WindowPasses, TypeOK, github
  <2>4. CASE abandon(r)
    <3>1. [row EXCEPT !.state = "abandoned"] \in Row
      BY <2>0 DEF Row, States
    <3>2. ledger' \in [Keys -> Entry]
      BY <2>4, WithoutType DEF abandon, TypeOK
    <3> QED
      BY <2>4, <3>1, <3>2 DEF abandon, TypeOK, github
  <2>5. ASSUME NEW k \in Keys, releaseIfSettled(k)
        PROVE  TypeOK'
    BY <2>5, WithoutType DEF releaseIfSettled, TypeOK, github
  <2> QED
    BY <1>6, <2>1, <2>2, <2>3, <2>4, <2>5 DEF Sweep
<1>7. CASE UNCHANGED vars
  BY <1>7 DEF vars, TypeOK
<1> QED
  BY <1>2, <1>3, <1>4, <1>5, <1>6, <1>7 DEF Next

(* What the code promises of its own types holds of every behaviour: the   *)
(* attempt, the automatic requeues and the stages stay in their ranges     *)
(* whatever order the transactions of polls, jobs and people take.         *)
THEOREM TypeCorrect == Spec => []TypeOK
<1>1. Init => TypeOK
  BY NullRecords, ConstantsAssumption DEF Init, TypeOK
<1>2. TypeOK /\ [Next]_vars => TypeOK'
  BY TypeInductive
<1> QED
  BY <1>1, <1>2, PTL DEF Spec
(***************************************************************************)
(* The reservations and the plans: the inductive invariant                 *)
(***************************************************************************)

(* Run r's workflow runs carry no attempt past the row's; only the one     *)
(* that runs has begun its record; and a plan stage carries an attempt.    *)
JobsInv(r) ==
  /\ running[r].attempt <= rows[r].attempt
  /\ pending[r].attempt <= rows[r].attempt
  /\ last[r].attempt <= rows[r].attempt
  /\ pending[r].phase \in {"none", "run"} /\ last[r].phase \in {"none", "run"}
  /\ running[r].phase = "written" => PlanStage(r)
  /\ running[r].stage = "plan" => running[r].attempt # -1
  /\ pending[r].stage = "plan" => pending[r].attempt # -1
  /\ last[r].stage = "plan" => last[r].attempt # -1

(* A task on run r carries no attempt past the row's, builds only what is  *)
(* planned, and claims with a stage.                                       *)
TaskInv(task, r) ==
  /\ task.attempt <= rows[r].attempt
  /\ task.stage = "build" => HasPlan(r)
  /\ task.kind = "candidate" => task.stage # "none"

(* IInv says nothing across runs: this is what it says of one. *)
RunInv(r) ==
  /\ \A a \in Attempts, kind \in Kinds : Held(<<r, a, kind>>) => a = rows[r].attempt
  /\ rows[r].state \notin {"claimed", "stopped"} => ~HoldsAny(r)
  /\ \A a \in Attempts : ~(Held(<<r, a, "build">>) /\ Held(<<r, a, "plan">>))
  /\ rows[r].state = "claimed" /\ ~hasEnded(rows[r]) => HoldsAny(r) /\ rows[r].claimedAt
  /\ rows[r].state = "planned" => HasPlan(r)
  /\ \A q \in Pollers : TaskInv(tasks[q][r], r)
  /\ \A a \in Attempts, kind \in Kinds : ledger[<<r, a, kind>>].stage = "build" => HasPlan(r)
  /\ running[r].phase \in {"put", "putConflict"} /\ running[r].attempt = rows[r].attempt
       => hasEnded(rows[r])
  /\ running[r].phase = "written" => HasPlan(r)
  /\ JobsInv(r)

(* The invariant, as what it says of each run. *)
LEMMA IInvByRun ==
  ASSUME IInv
  PROVE  TypeOK /\ \A r \in Runs : RunInv(r)
BY DEF IInv, LedgerIsCurrent, IdleHoldsNothing, LiveClaimIsCounted, PlannedHasPlan,
   NothingIsAhead, RecordEndsItsRow, BuildsHavePlans, CandidatesHaveStages,
   RunInv, JobsInv, PlanStage, TaskInv, Kinds

(* And back: the invariant holds after a step when it holds of each run. *)
LEMMA IInvOfRuns ==
  ASSUME TypeOK', \A r \in Runs : RunInv(r)'
  PROVE  IInv'
<1>1. IdleHoldsNothing'
  BY DEF RunInv, IdleHoldsNothing, Kinds
<1> QED
  BY <1>1 DEF IInv, LedgerIsCurrent, LiveClaimIsCounted, PlannedHasPlan, NothingIsAhead,
     RecordEndsItsRow, BuildsHavePlans, CandidatesHaveStages, RunInv, JobsInv, PlanStage, TaskInv

(* A step that leaves run r alone: what it holds keeps its stage, and a    *)
(* poll may forget what it listed of it.                                   *)
Quiet(r) ==
  /\ rows'[r] = rows[r]
  /\ running'[r] = running[r] /\ pending'[r] = pending[r] /\ last'[r] = last[r]
  /\ \A a \in Attempts, kind \in Kinds :
       ledger'[<<r, a, kind>>].stage = ledger[<<r, a, kind>>].stage
  /\ \A q \in Pollers : tasks'[q][r] = tasks[q][r] \/ tasks'[q][r] = Idle

(* A step that leaves a run alone keeps what the invariant says of it. *)
LEMMA QuietKeepsRunInv ==
  ASSUME TypeOK, NEW r \in Runs, RunInv(r), Quiet(r)
  PROVE  RunInv(r)'
<1>1. rows[r].attempt \in Nat
  BY ConstantsAssumption DEF TypeOK, Row, Attempts
<1>2. /\ HoldsAny(r)' <=> HoldsAny(r)
      /\ HasPlan(r)' <=> HasPlan(r)
      /\ \A a \in Attempts, kind \in Kinds : Held(<<r, a, kind>>)' <=> Held(<<r, a, kind>>)
  BY DEF Quiet, HoldsAny, HasPlan, Held
<1>3. \A q \in Pollers : TaskInv(tasks[q][r], r)'
  BY <1>1, <1>2 DEF Quiet, RunInv, TaskInv, Idle
<1> QED
  BY <1>2, <1>3 DEF RunInv, JobsInv, PlanStage, Quiet, Kinds

(* What dropping the keys S leaves at one key. *)
LEMMA WithoutAt ==
  ASSUME NEW S, NEW r \in Runs, NEW a \in Attempts, NEW kind \in Kinds
  PROVE  Without(S)[<<r, a, kind>>] = IF <<r, a, kind>> \in S THEN NoEntry ELSE ledger[<<r, a, kind>>]
BY DEF Without, Keys

(* Dropping keys of run r leaves the other runs what they hold. *)
LEMMA DropOthers ==
  ASSUME NEW r \in Runs, NEW S, \A k \in S : k[1] = r, ledger' = Without(S),
         NEW s \in Runs, s # r
  PROVE  \A a \in Attempts, kind \in Kinds : ledger'[<<s, a, kind>>] = ledger[<<s, a, kind>>]
BY WithoutAt

(* A run holds one reservation at most, of its row's attempt: dropping the *)
(* one its row names, or all of that attempt, leaves it none.              *)
LEMMA DropAll ==
  ASSUME TypeOK, NEW r \in Runs, RunInv(r), NEW S,
         S = reservedKeys(r, rows[r].attempt) \/ S = {reservation(r, rows[r].attempt)},
         ledger' = Without(S)
  PROVE  /\ \A k \in S : k[1] = r
         /\ \A a \in Attempts, kind \in Kinds : ledger'[<<r, a, kind>>].stage = "none"
<1>1. \A k \in S : k[1] = r
  BY DEF reservedKeys, reservation
<1>2. ASSUME NEW a \in Attempts, NEW kind \in Kinds
      PROVE  ledger'[<<r, a, kind>>].stage = "none"
  <2>1. CASE ~Held(<<r, a, kind>>)
    BY <2>1, WithoutAt DEF Held, NoEntry
  <2>2. CASE Held(<<r, a, kind>>)
    <3>1. a = rows[r].attempt /\ kind \in {"build", "plan"}
      BY <2>2 DEF RunInv, Kinds
    <3>2. <<r, a, kind>> \in S
      BY <2>2, <3>1 DEF RunInv, reservedKeys, reservation
    <3> QED
      BY <3>2, WithoutAt DEF NoEntry
  <2> QED
    BY <2>1, <2>2
<1> QED
  BY <1>1, <1>2

(* The end of a workflow run starts the pending one, which has recorded    *)
(* nothing.                                                                *)
LEMMA JobEndsInv ==
  ASSUME TypeOK, TypeOK', NEW r \in Runs, JobsInv(r), JobEnds(r),
         rows'[r].attempt >= rows[r].attempt
  PROVE  JobsInv(r)' /\ running'[r].phase \in {"none", "run"}
<1>1. running[r] \in Job /\ pending[r] \in Job
  BY DEF TypeOK
<1>2. /\ running'[r] = pending[r] /\ pending'[r] = NoJob
      /\ last'[r] = [running[r] EXCEPT !.phase = "run"] \/ last'[r] = NoJob
  BY DEF JobEnds, TypeOK
<1>3. /\ [running[r] EXCEPT !.phase = "run"].attempt = running[r].attempt
      /\ [running[r] EXCEPT !.phase = "run"].stage = running[r].stage
      /\ [running[r] EXCEPT !.phase = "run"].phase = "run"
  BY <1>1 DEF Job
<1>4. NoJob.attempt = -1 /\ NoJob.stage = "none" /\ NoJob.phase = "none"
  BY DEF NoJob
<1>5. /\ rows[r].attempt \in Nat /\ rows'[r].attempt \in Nat
      /\ running[r].attempt \in Int /\ pending[r].attempt \in Int
  BY <1>1, ConstantsAssumption DEF TypeOK, Row, Job, Attempts
<1>6. running'[r].attempt <= rows'[r].attempt
  BY <1>2, <1>5 DEF JobsInv, PlanStage
<1>7. pending'[r].attempt <= rows'[r].attempt
  BY <1>2, <1>4, <1>5
<1>8. last'[r].attempt <= rows'[r].attempt
  <2>1. running[r].attempt <= rows'[r].attempt
    BY <1>5 DEF JobsInv, PlanStage
  <2>2. CASE last'[r] = NoJob
    BY <1>4, <1>5, <2>2
  <2>3. CASE last'[r] = [running[r] EXCEPT !.phase = "run"]
    <3>1. last'[r].attempt = running[r].attempt
      BY <1>3, <2>3
    <3> QED
      BY <2>1, <3>1
  <2> QED
    BY <1>2, <2>2, <2>3
<1> QED
  BY <1>2, <1>3, <1>4, <1>6, <1>7, <1>8 DEF JobsInv, PlanStage

(* A record job that goes on keeps its attempt and its stage. *)
LEMMA JobMovesInv ==
  ASSUME TypeOK, NEW r \in Runs, JobsInv(r), NEW phase, JobMoves(r, phase),
         rows'[r].attempt = rows[r].attempt, phase = "written" => PlanStage(r)
  PROVE  /\ JobsInv(r)' /\ running'[r].phase = phase
         /\ running'[r].attempt = running[r].attempt
<1>1. running[r] \in Job
  BY DEF TypeOK
<1>2. running'[r] = [running[r] EXCEPT !.phase = phase] /\ UNCHANGED <<pending, last>>
  BY DEF JobMoves, TypeOK
<1>3. /\ [running[r] EXCEPT !.phase = phase].attempt = running[r].attempt
      /\ [running[r] EXCEPT !.phase = phase].stage = running[r].stage
      /\ [running[r] EXCEPT !.phase = phase].phase = phase
  BY <1>1 DEF Job
<1> QED
  BY <1>2, <1>3 DEF JobsInv, PlanStage

(* A dispatch starts a job of the task's attempt and stage, or makes it    *)
(* the pending one.                                                        *)
LEMMA StartJobInv ==
  ASSUME TypeOK, NEW r \in Runs, JobsInv(r), NEW task \in Task,
         task.attempt <= rows[r].attempt, StartJob(r, JobOf(task)), UNCHANGED rows
  PROVE  JobsInv(r)' /\ (running'[r] = running[r] \/ running'[r].phase = "run")
<1>1. /\ JobOf(task).attempt = task.attempt /\ JobOf(task).stage = task.stage
      /\ JobOf(task).phase = "run"
  BY DEF JobOf
<1>2. task.attempt \in Nat
  BY ConstantsAssumption DEF Task, Attempts
<1>3. /\ running'[r] \in {running[r], JobOf(task)}
      /\ pending'[r] \in {pending[r], JobOf(task)}
      /\ last'[r] = last[r]
  BY DEF StartJob, TypeOK
<1> QED
  BY <1>1, <1>2, <1>3 DEF JobsInv, PlanStage

(* A poll that lists or ends leaves every row, reservation and job alone.  *)
(* What it listed carries the row's attempt, and the build stage only from *)
(* a planned row.                                                          *)
LEMMA PollListsInv ==
  ASSUME TypeOK, TypeOK', NEW p \in Pollers, PollLists(p) \/ PollEnds(p),
         NEW r \in Runs, RunInv(r)
  PROVE  RunInv(r)'
<1>1. rows[r].attempt \in Nat
  BY ConstantsAssumption DEF TypeOK, Row, Attempts
<1>2. UNCHANGED <<rows, ledger, running, pending, last>>
  BY DEF PollLists, PollEnds, ListCandidates, ListTransientStops, ListWaiting, github
<1>3. ASSUME NEW todo, PollListed(p, todo), TaskInv(todo[r], r)
      PROVE  \A q \in Pollers : TaskInv(tasks'[q][r], r)
  BY <1>3 DEF PollListed, RunInv, TypeOK
<1>4. ASSUME NEW kind, kind # "candidate"
      PROVE  TaskInv(Idle, r) /\ TaskInv([Idle EXCEPT !.kind = kind], r)
  BY <1>1, <1>4 DEF Idle, TaskInv
<1>5. \A q \in Pollers : TaskInv(tasks'[q][r], r)
  <2>1. CASE ListCandidates(p)
    <3> DEFINE listed == {s \in Runs : rows[s].state \in CandidateStates}
    <3>1. PICK stage \in [listed -> Stages] :
            /\ \A s \in listed : stage[s] \in claimStage(rows[s])
            /\ PollListed(p, [s \in Runs |->
                 IF s \in listed
                 THEN [kind |-> "candidate", attempt |-> rows[s].attempt, stage |-> stage[s]]
                 ELSE Idle])
      BY <2>1 DEF ListCandidates
    <3>2. r \in listed => stage[r] # "none" /\ (stage[r] = "build" => HasPlan(r))
      BY <3>1 DEF claimStage, RunInv, Stages
    <3> HIDE DEF listed
    <3> DEFINE todo == [s \in Runs |->
                 IF s \in listed
                 THEN [kind |-> "candidate", attempt |-> rows[s].attempt, stage |-> stage[s]]
                 ELSE Idle]
    <3>3. TaskInv(todo[r], r)
      BY <1>1, <1>4, <3>2 DEF TaskInv
    <3>4. PollListed(p, todo)
      BY <3>1
    <3> HIDE DEF todo
    <3> QED
      BY <1>3, <3>3, <3>4
  <2>2. CASE ListTransientStops(p)
    <3>1. PICK S : PollListed(p, [s \in Runs |->
            IF s \in S THEN [Idle EXCEPT !.kind = "requeue"] ELSE Idle])
      BY <2>2 DEF ListTransientStops
    <3> DEFINE todo == [s \in Runs |->
                 IF s \in S THEN [Idle EXCEPT !.kind = "requeue"] ELSE Idle]
    <3>2. TaskInv(todo[r], r)
      BY <1>4
    <3>3. PollListed(p, todo)
      BY <3>1
    <3> HIDE DEF todo
    <3> QED
      BY <1>3, <3>2, <3>3
  <2>3. CASE ListWaiting(p)
    <3>1. PICK due : PollListed(p, [s \in Runs |->
               IF s \in due
               THEN [Idle EXCEPT !.kind = IF rows[s].replied THEN "answer" ELSE "stop"]
               ELSE Idle])
      BY <2>3 DEF ListWaiting
    <3> DEFINE todo == [s \in Runs |->
                 IF s \in due
                 THEN [Idle EXCEPT !.kind = IF rows[s].replied THEN "answer" ELSE "stop"]
                 ELSE Idle]
    <3>2. TaskInv(todo[r], r)
      BY <1>4
    <3>3. PollListed(p, todo)
      BY <3>1
    <3> HIDE DEF todo
    <3> QED
      BY <1>3, <3>2, <3>3
  <2>4. CASE PollEnds(p)
    <3> DEFINE todo == [s \in Runs |-> Idle]
    <3>1. TaskInv(todo[r], r)
      BY <1>1 DEF TaskInv, Idle
    <3>2. PollListed(p, todo)
      BY <2>4 DEF PollEnds
    <3> HIDE DEF todo
    <3> QED
      BY <1>3, <3>1, <3>2
  <2> QED
    BY <2>1, <2>2, <2>3, <2>4 DEF PollLists
<1>6. \A q \in Pollers : TaskInv(tasks[q][r], r)'
  BY <1>2, <1>5 DEF TaskInv, HasPlan
<1>7. /\ HoldsAny(r)' <=> HoldsAny(r)
      /\ HasPlan(r)' <=> HasPlan(r)
      /\ \A a \in Attempts, kind \in Kinds : Held(<<r, a, kind>>)' <=> Held(<<r, a, kind>>)
      /\ JobsInv(r)'
  BY <1>2 DEF HoldsAny, HasPlan, Held, JobsInv, PlanStage, RunInv
<1>8. /\ rows'[r] = rows[r] /\ running'[r] = running[r]
      /\ \A a \in Attempts, kind \in Kinds : ledger'[<<r, a, kind>>] = ledger[<<r, a, kind>>]
  BY <1>2
<1> QED
  BY <1>6, <1>7, <1>8 DEF RunInv, Kinds

(* A step on run r leaves every other run alone. *)
LEMMA OthersQuiet ==
  ASSUME TypeOK, NEW r \in Runs, RunInv(r), NEW s \in Runs, s # r,
         \/ \E p \in Pollers : PollActs(p, r)
         \/ JobActs(r) \/ OwnerActs(r)
         \/ Enqueue(r) \/ StopRetried(r) \/ WindowPasses(r) \/ Sweep(r)
  PROVE  Quiet(s)
<1>1. rows'[s] = rows[s]
  BY DEF TypeOK, PollActs, TryClaim, ClaimWithheld, ClaimEnded, ClaimBooked, Dispatched,
     DispatchFailed, Release, RequeueTransient, Answer, StopWaiting, JobActs, WritePlan,
     SettlePlan, Stop, Suspend, TakeRecommendation, settleDecision, PutRecord, Settle,
     RequeueAfterConflict, JobLost, OwnerActs, RunByHand, Requeue, Supersede, RetryWithNote,
     Reply, ConfirmProvisional, RecordCancel, RecordMerge, requeue, Enqueue, StopRetried,
     WindowPasses, Sweep, abandon, releaseIfSettled
<1>2. running'[s] = running[s] /\ pending'[s] = pending[s] /\ last'[s] = last[s]
  BY DEF TypeOK, PollActs, TryClaim, ClaimWithheld, ClaimEnded, ClaimBooked, Dispatched,
     DispatchFailed, Release, RequeueTransient, Answer, StopWaiting, JobActs, WritePlan,
     SettlePlan, Stop, Suspend, TakeRecommendation, settleDecision, PutRecord, Settle,
     RequeueAfterConflict, JobLost, OwnerActs, RunByHand, Requeue, Supersede, RetryWithNote,
     Reply, ConfirmProvisional, RecordCancel, RecordMerge, Enqueue, StopRetried,
     WindowPasses, Sweep, abandon, releaseIfSettled, github, JobEnds, JobMoves, StartJob
<1>3. \A q \in Pollers : tasks'[q][s] = tasks[q][s]
  <2>1. ASSUME NEW p \in Pollers, PollActs(p, r)
        PROVE  \A q \in Pollers : tasks'[q][s] = tasks[q][s]
    BY <2>1 DEF TypeOK, PollActs, TryClaim, ClaimWithheld, ClaimEnded, ClaimBooked, Dispatched,
       DispatchFailed, Release, RequeueTransient, Answer, StopWaiting
  <2>2. CASE ~\E p \in Pollers : PollActs(p, r)
    BY <2>2 DEF JobActs, WritePlan, SettlePlan, Stop, Suspend, TakeRecommendation,
       settleDecision, PutRecord, Settle, RequeueAfterConflict, JobLost, OwnerActs, RunByHand,
       Requeue, Supersede, RetryWithNote, Reply, ConfirmProvisional, RecordCancel, RecordMerge,
       Enqueue, StopRetried, WindowPasses, Sweep, abandon, releaseIfSettled
  <2> QED
    BY <2>1, <2>2
<1>4. ASSUME NEW S, \A k \in S : k[1] = r, ledger' = Without(S)
      PROVE  \A a \in Attempts, kind \in Kinds :
               ledger'[<<s, a, kind>>].stage = ledger[<<s, a, kind>>].stage
  BY <1>4, DropOthers
<1>5. \A a \in Attempts, kind \in Kinds :
        ledger'[<<s, a, kind>>].stage = ledger[<<s, a, kind>>].stage
  <2>1. CASE ledger' = Without(reservedKeys(r, rows[r].attempt))
    <3> DEFINE S == reservedKeys(r, rows[r].attempt)
    <3>1. (\A k \in S : k[1] = r) /\ ledger' = Without(S)
      BY <2>1 DEF reservedKeys
    <3> HIDE DEF S
    <3> QED
      BY <3>1, <1>4
  <2>2. CASE ledger' = Without({reservation(r, rows[r].attempt)})
    <3> DEFINE S == {reservation(r, rows[r].attempt)}
    <3>1. (\A k \in S : k[1] = r) /\ ledger' = Without(S)
      BY <2>2 DEF reservation
    <3> HIDE DEF S
    <3> QED
      BY <3>1, <1>4
  <2>3. ASSUME NEW a, NEW stage, ledger' = Without({reservationKey(r, a, stage)})
        PROVE  \A b \in Attempts, kind \in Kinds :
                 ledger'[<<s, b, kind>>].stage = ledger[<<s, b, kind>>].stage
    BY <2>3, <1>4 DEF reservationKey
  <2>4. ASSUME NEW k \in Keys, k[1] = r, releaseIfSettled(k)
        PROVE  \A b \in Attempts, kind \in Kinds :
                 ledger'[<<s, b, kind>>].stage = ledger[<<s, b, kind>>].stage
    BY <2>4, <1>4 DEF releaseIfSettled
  <2>5. ASSUME NEW p \in Pollers, ClaimBooked(p, r)
        PROVE  \A b \in Attempts, kind \in Kinds :
                 ledger'[<<s, b, kind>>].stage = ledger[<<s, b, kind>>].stage
    BY <2>5 DEF ClaimBooked, reservationKey, TypeOK, Keys
  <2>6. CASE WindowPasses(r)
    BY <2>6 DEF WindowPasses, TypeOK, Keys
  <2>7. CASE UNCHANGED ledger
    BY <2>7
  <2>8. CASE \E p \in Pollers : PollActs(p, r)
    BY <2>1, <2>2, <2>5, <2>7, <2>8 DEF PollActs, TryClaim, ClaimWithheld, ClaimEnded, Dispatched,
       DispatchFailed, Release, RequeueTransient, requeue, Answer, StopWaiting
  <2>9. CASE JobActs(r)
    BY <2>1, <2>2, <2>3, <2>7, <2>9 DEF JobActs, WritePlan, SettlePlan, Stop, Suspend,
       TakeRecommendation, settleDecision, PutRecord, Settle, RequeueAfterConflict, requeue, JobLost
  <2>10. CASE OwnerActs(r)
    BY <2>1, <2>7, <2>10 DEF OwnerActs, RunByHand, Requeue, Supersede, RetryWithNote, requeue,
       Reply, ConfirmProvisional, RecordCancel, RecordMerge
  <2>11. CASE Enqueue(r) \/ StopRetried(r) \/ abandon(r)
    BY <2>1, <2>7, <2>11 DEF Enqueue, StopRetried, abandon
  <2> QED
    BY <2>4, <2>6, <2>8, <2>9, <2>10, <2>11 DEF Sweep
<1> QED
  BY <1>1, <1>2, <1>3, <1>5 DEF Quiet

(* A run that holds nothing, in a state that may hold nothing. *)
LEMMA NoneHeldInv ==
  ASSUME NEW r \in Runs,
         \A a \in Attempts, kind \in Kinds : ledger'[<<r, a, kind>>].stage = "none",
         rows'[r].state = "claimed" => hasEnded(rows'[r]),
         rows'[r].state = "planned" => HasPlan(r)',
         \A q \in Pollers : TaskInv(tasks[q][r], r)',
         running'[r].phase \in {"put", "putConflict"} /\ running'[r].attempt = rows'[r].attempt
           => hasEnded(rows'[r]),
         running'[r].phase = "written" => HasPlan(r)',
         JobsInv(r)'
  PROVE  RunInv(r)'
<1>1. ~HoldsAny(r)' /\ \A a \in Attempts, kind \in Kinds : ~Held(<<r, a, kind>>)'
  BY DEF Held, HoldsAny
<1> QED
  BY <1>1 DEF RunInv, Kinds

(* A run that keeps what it holds and keeps its state, or stops. *)
LEMMA KeptInv ==
  ASSUME NEW r \in Runs, RunInv(r),
         \A a \in Attempts, kind \in Kinds :
           ledger'[<<r, a, kind>>].stage = ledger[<<r, a, kind>>].stage,
         rows'[r].attempt = rows[r].attempt,
         \/ rows'[r].state = rows[r].state /\ rows'[r].claimedAt = rows[r].claimedAt
         \/ rows'[r].state = "stopped",
         hasEnded(rows[r]) => hasEnded(rows'[r]),
         HasPlan(r) => HasPlan(r)',
         \A q \in Pollers : TaskInv(tasks[q][r], r)',
         running'[r].phase \in {"put", "putConflict"} /\ running'[r].attempt = rows'[r].attempt
           => hasEnded(rows'[r]),
         running'[r].phase = "written" => HasPlan(r)',
         JobsInv(r)'
  PROVE  RunInv(r)'
<1>1. /\ HoldsAny(r)' <=> HoldsAny(r)
      /\ \A a \in Attempts, kind \in Kinds : Held(<<r, a, kind>>)' <=> Held(<<r, a, kind>>)
  BY DEF HoldsAny, Held
<1> QED
  BY <1>1 DEF RunInv, Kinds

(* What a requeue writes of the fields the invariant reads. *)
LEMMA RequeuedFields ==
  ASSUME NEW row \in Row, NEW state, NEW keep \in BOOLEAN
  PROVE  /\ Requeued(row, state, keep).state = state
         /\ Requeued(row, state, keep).attempt = row.attempt + 1
         /\ Requeued(row, state, keep).plan = row.plan
         /\ Requeued(row, state, keep).stamped = row.stamped
         /\ Replanned(row, keep).state = "queued"
         /\ Replanned(row, keep).attempt = row.attempt + 1
         /\ Replanned(row, keep).plan = row.plan
         /\ Replanned(row, keep).stamped = row.stamped
BY DEF Requeued, Replanned, Row

(* A requeue drops what the attempt that ended held and leaves behind the  *)
(* jobs and the tasks that still carry it.                                 *)
LEMMA RequeueInv ==
  ASSUME TypeOK, TypeOK', NEW r \in Runs, RunInv(r),
         ledger' = Without(reservedKeys(r, rows[r].attempt)),
         rows'[r].attempt = rows[r].attempt + 1,
         \/ rows'[r].state = "queued"
         \/ rows'[r].state = requeueState(rows[r]),
         rows'[r].plan = rows[r].plan, rows'[r].stamped = rows[r].stamped,
         \A q \in Pollers : tasks'[q][r] = tasks[q][r] \/ tasks'[q][r] = Idle,
         \/ UNCHANGED <<running, pending, last>>
         \/ JobEnds(r)
  PROVE  RunInv(r)'
<1>1. /\ rows[r].attempt \in Nat /\ rows'[r].attempt \in Nat
      /\ running[r].attempt \in Int /\ pending[r].attempt \in Int /\ last[r].attempt \in Int
      /\ \A q \in Pollers : tasks[q][r].attempt \in Int
  BY ConstantsAssumption DEF TypeOK, Row, Job, Task, Attempts
<1>2. rows'[r].attempt >= rows[r].attempt
  BY <1>1
<1>3. HasPlan(r)' <=> HasPlan(r)
  BY DEF HasPlan
<1>4. /\ JobsInv(r)'
      /\ running'[r].phase \in {"put", "putConflict"} => running'[r].attempt # rows'[r].attempt
      /\ running'[r].phase = "written" => HasPlan(r)
  <2>1. CASE UNCHANGED <<running, pending, last>>
    BY <1>1, <2>1 DEF JobsInv, PlanStage, RunInv
  <2>2. CASE JobEnds(r)
    BY <1>2, <2>2, JobEndsInv DEF RunInv
  <2> QED
    BY <2>1, <2>2
<1>5. \A q \in Pollers : TaskInv(tasks[q][r], r)'
  BY <1>1, <1>3 DEF RunInv, TaskInv, Idle
<1>6. \A a \in Attempts, kind \in Kinds : ledger'[<<r, a, kind>>].stage = "none"
  <2> DEFINE S == reservedKeys(r, rows[r].attempt)
  <2>1. ledger' = Without(S) /\ S = reservedKeys(r, rows[r].attempt)
    OBVIOUS
  <2> HIDE DEF S
  <2> QED
    BY <2>1, DropAll
<1>7. rows'[r].state # "claimed" /\ (rows'[r].state = "planned" => HasPlan(r))
  BY DEF requeueState, HasPlan
<1> QED
  BY <1>3, <1>4, <1>5, <1>6, <1>7, NoneHeldInv

(* A step of a poll on run r. *)
LEMMA PollActsInv ==
  ASSUME TypeOK, TypeOK', NEW p \in Pollers, NEW r \in Runs, PollActs(p, r), RunInv(r)
  PROVE  RunInv(r)'
<1> DEFINE row == rows[r]
           task == tasks[p][r]
<1>0. row \in Row /\ task \in Task /\ row.attempt \in Nat
  BY ConstantsAssumption DEF TypeOK, Row, Attempts
<1>1. ASSUME tasks' = [tasks EXCEPT ![p][r] = Idle],
             rows'[r].attempt >= row.attempt, HasPlan(r) => HasPlan(r)'
      PROVE  \A q \in Pollers : TaskInv(tasks[q][r], r)'
  <2>1. \A q \in Pollers : tasks'[q][r] = Idle \/ tasks'[q][r] = tasks[q][r]
    BY <1>1 DEF TypeOK
  <2>2. \A q \in Pollers : tasks[q][r].attempt \in Int /\ rows'[r].attempt \in Nat
    BY ConstantsAssumption DEF TypeOK, Task, Row, Attempts
  <2> QED
    BY <1>0, <1>1, <2>1, <2>2 DEF RunInv, TaskInv, Idle
<1>2. CASE ClaimWithheld(p, r)
  <2>1. Quiet(r)
    BY <1>2 DEF ClaimWithheld, Quiet, TypeOK, github
  <2> QED
    BY <2>1, QuietKeepsRunInv
<1>3. CASE ClaimEnded(p, r)
  <2>1. /\ rows'[r].state = "claimed" /\ rows'[r].attempt = row.attempt
        /\ rows'[r].result = row.result /\ rows'[r].plan = row.plan
        /\ rows'[r].stamped = row.stamped
    BY <1>0, <1>3 DEF ClaimEnded, TypeOK, Row
  <2>2. hasEnded(rows'[r]) /\ (HasPlan(r)' <=> HasPlan(r))
    BY <1>3, <2>1 DEF ClaimEnded, hasEnded, HasPlan
  <2>3. \A a \in Attempts, kind \in Kinds : ledger'[<<r, a, kind>>].stage = "none"
    BY <1>3 DEF ClaimEnded, RunInv, HoldsAny, Held, CandidateStates
  <2>4. JobsInv(r)' /\ running'[r] = running[r]
    BY <1>3, <2>1 DEF ClaimEnded, RunInv, JobsInv, PlanStage, github
  <2>5. rows'[r].attempt >= row.attempt
    BY <1>0, <2>1
  <2>6. \A q \in Pollers : TaskInv(tasks[q][r], r)'
    BY <1>1, <1>3, <2>2, <2>5 DEF ClaimEnded
  <2> QED
    BY <2>1, <2>2, <2>3, <2>4, <2>6, NoneHeldInv DEF RunInv
<1>4. CASE ClaimBooked(p, r)
  <2>1. /\ rows'[r].state = "claimed" /\ rows'[r].claimedAt = TRUE
        /\ rows'[r].attempt = row.attempt /\ rows'[r].result = row.result
        /\ rows'[r].plan = row.plan /\ rows'[r].stamped = row.stamped
    BY <1>0, <1>4 DEF ClaimBooked, TypeOK, Row
  <2>2. HasPlan(r)' <=> HasPlan(r)
    BY <2>1 DEF HasPlan
  <2>3. hasEnded(rows'[r]) <=> hasEnded(row)
    BY <2>1 DEF hasEnded
  <2>4. \A a \in Attempts, kind \in Kinds : ledger[<<r, a, kind>>].stage = "none"
    BY <1>4 DEF ClaimBooked, RunInv, HoldsAny, Held, CandidateStates
  <2>5. stageKey(task.stage) \in Kinds /\ row.attempt \in Attempts
    BY <1>0 DEF stageKey, Kinds, Row
  <2>6. task.stage # "none"
    BY <1>4 DEF ClaimBooked, RunInv, TaskInv
  <2>7. /\ ledger'[<<r, row.attempt, stageKey(task.stage)>>].stage = task.stage
        /\ \A a \in Attempts, kind \in Kinds :
             <<a, kind>> # <<row.attempt, stageKey(task.stage)>>
               => ledger'[<<r, a, kind>>].stage = "none"
    BY <1>4, <2>4, <2>5 DEF ClaimBooked, reservationKey, TypeOK, Keys
  <2>8. HoldsAny(r)'
    BY <2>5, <2>6, <2>7 DEF HoldsAny, Held
  <2>9. JobsInv(r)' /\ running'[r] = running[r]
    BY <1>4, <2>1 DEF ClaimBooked, RunInv, JobsInv, PlanStage, github
  <2>10. \A q \in Pollers : TaskInv(tasks[q][r], r)'
    <3>1. TaskInv([task EXCEPT !.kind = "dispatch"], r)
      BY <1>0 DEF RunInv, TaskInv, Task
    <3>2. \A q \in Pollers : tasks'[q][r] = [task EXCEPT !.kind = "dispatch"]
                              \/ tasks'[q][r] = tasks[q][r]
      BY <1>4 DEF ClaimBooked, TypeOK
    <3> QED
      BY <2>1, <2>2, <3>1, <3>2 DEF RunInv, TaskInv
  <2>11. task.stage = "build" => HasPlan(r)
    BY DEF RunInv, TaskInv
  <2>12. \A a \in Attempts, kind \in Kinds : Held(<<r, a, kind>>)'
            => a = row.attempt /\ kind = stageKey(task.stage)
    BY <2>7 DEF Held
  <2>13. \A a \in Attempts : ~(Held(<<r, a, "build">>)' /\ Held(<<r, a, "plan">>)')
    BY <2>12 DEF Kinds
  <2>14. \A a \in Attempts, kind \in Kinds : ledger'[<<r, a, kind>>].stage = "build" => HasPlan(r)
    BY <2>7, <2>11
  <2> QED
    BY <2>1, <2>2, <2>3, <2>8, <2>9, <2>10, <2>12, <2>13, <2>14 DEF RunInv
<1>5. CASE Dispatched(p, r)
  <2>1. task.attempt <= row.attempt
    BY DEF RunInv, TaskInv
  <2>2. JobsInv(r)' /\ (running'[r] = running[r] \/ running'[r].phase = "run")
    <3>1. StartJob(r, JobOf(task)) /\ UNCHANGED rows /\ JobsInv(r)
      BY <1>5 DEF Dispatched, RunInv
    <3> HIDE DEF task
    <3> QED
      BY <1>0, <2>1, <3>1, StartJobInv
  <2>3. /\ rows'[r] = row /\ ledger' = ledger
        /\ HasPlan(r) => HasPlan(r)'
        /\ \A q \in Pollers : TaskInv(tasks[q][r], r)'
    BY <1>0, <1>1, <1>5 DEF Dispatched, HasPlan
  <2> QED
    BY <2>2, <2>3, KeptInv DEF RunInv
<1>6. CASE DispatchFailed(p, r)
  <2>1. task.attempt <= row.attempt
    BY DEF RunInv, TaskInv
  <2>2. JobsInv(r)' /\ (running'[r] = running[r] \/ running'[r].phase = "run")
    <3>1. CASE UNCHANGED github
      BY <1>6, <3>1 DEF DispatchFailed, RunInv, JobsInv, PlanStage, github
    <3>2. CASE StartJob(r, JobOf(task))
      <4>1. StartJob(r, JobOf(task)) /\ UNCHANGED rows /\ JobsInv(r)
        BY <1>6, <3>2 DEF DispatchFailed, RunInv
      <4> HIDE DEF task
      <4> QED
        BY <1>0, <2>1, <4>1, StartJobInv
    <3> QED
      BY <1>6, <3>1, <3>2 DEF DispatchFailed
  <2>3. rows'[r] = row /\ ledger' = ledger /\ (HasPlan(r)' <=> HasPlan(r))
    BY <1>6 DEF DispatchFailed, HasPlan
  <2>4. \A q \in Pollers : TaskInv(tasks[q][r], r)'
    <3>1. TaskInv([task EXCEPT !.kind = "release"], r)
      BY <1>0 DEF RunInv, TaskInv, Task
    <3>2. \A q \in Pollers : tasks'[q][r] = [task EXCEPT !.kind = "release"]
                              \/ tasks'[q][r] = tasks[q][r]
      BY <1>6 DEF DispatchFailed, TypeOK
    <3> QED
      BY <2>3, <3>1, <3>2 DEF RunInv, TaskInv
  <2> QED
    BY <2>2, <2>3, <2>4, KeptInv DEF RunInv
<1>7. CASE Release(p, r)
  <2> DEFINE key == reservation(r, row.attempt)
  <2>1. /\ rows'[r].state = IF ledger[key].stage = "build" THEN "planned" ELSE "queued"
        /\ rows'[r].attempt = row.attempt /\ rows'[r].result = row.result
        /\ rows'[r].plan = row.plan /\ rows'[r].stamped = row.stamped
    BY <1>0, <1>7 DEF Release, TypeOK, Row
  <2>2. (HasPlan(r)' <=> HasPlan(r)) /\ (hasEnded(rows'[r]) <=> hasEnded(row))
    BY <2>1 DEF HasPlan, hasEnded
  <2>3. \A a \in Attempts, kind \in Kinds : ledger'[<<r, a, kind>>].stage = "none"
    <3> DEFINE S == {key}
    <3>1. ledger' = Without(S) /\ S = {reservation(r, rows[r].attempt)}
      BY <1>7 DEF Release
    <3> HIDE DEF S
    <3> QED
      BY <3>1, DropAll
  <2>4. ledger[key].stage = "build" => HasPlan(r)
    BY <1>0 DEF RunInv, reservation, Kinds, Row
  <2>5. JobsInv(r)' /\ running'[r] = running[r]
    BY <1>7, <2>1 DEF Release, RunInv, JobsInv, PlanStage, github
  <2>6. \A q \in Pollers : TaskInv(tasks[q][r], r)'
    BY <1>0, <1>1, <1>7, <2>1, <2>2 DEF Release
  <2> HIDE DEF key
  <2> QED
    BY <2>1, <2>2, <2>3, <2>4, <2>5, <2>6, NoneHeldInv DEF RunInv
<1>8. CASE StopWaiting(p, r)
  <2>1. /\ rows'[r].state = "stopped" /\ rows'[r].attempt = row.attempt
        /\ rows'[r].result = "stopped"
        /\ rows'[r].plan = row.plan /\ rows'[r].stamped = row.stamped
    BY <1>0, <1>8 DEF StopWaiting, TypeOK, Row
  <2>2. (HasPlan(r)' <=> HasPlan(r)) /\ hasEnded(rows'[r])
    BY <2>1 DEF HasPlan, hasEnded
  <2>3. JobsInv(r)' /\ running'[r] = running[r] /\ ledger' = ledger
    BY <1>8, <2>1 DEF StopWaiting, RunInv, JobsInv, PlanStage, github
  <2>4. \A q \in Pollers : TaskInv(tasks[q][r], r)'
    BY <1>0, <1>1, <1>8, <2>1, <2>2 DEF StopWaiting
  <2> QED
    BY <2>1, <2>2, <2>3, <2>4, KeptInv DEF RunInv
<1>9. CASE Answer(p, r)
  <2>1. CASE row.state = "waiting" /\ ~hasEnded(row)
    <3>1. /\ rows'[r].state = "queued" /\ rows'[r].attempt = row.attempt
          /\ rows'[r].result = row.result
          /\ rows'[r].plan = row.plan /\ rows'[r].stamped = row.stamped
      <4>1. rows'[r] = [row EXCEPT !.state = "queued", !.replied = FALSE,
                                   !.claimedAt = FALSE, !.stale = FALSE]
        BY <1>9, <2>1 DEF Answer, TypeOK
      <4> QED
        BY <1>0, <4>1 DEF Row
    <3>2. (HasPlan(r)' <=> HasPlan(r)) /\ (hasEnded(rows'[r]) <=> hasEnded(row))
      BY <3>1 DEF HasPlan, hasEnded
    <3>3. JobsInv(r)' /\ running'[r] = running[r]
      BY <1>9, <3>1 DEF Answer, RunInv, JobsInv, PlanStage, github
    <3>4. \A a \in Attempts, kind \in Kinds : ledger'[<<r, a, kind>>].stage = "none"
      BY <1>9, <2>1 DEF Answer, RunInv, HoldsAny, Held
    <3>5. \A q \in Pollers : TaskInv(tasks[q][r], r)'
      BY <1>0, <1>1, <1>9, <3>1, <3>2 DEF Answer
    <3> QED
      BY <3>1, <3>2, <3>3, <3>4, <3>5, NoneHeldInv DEF RunInv
  <2>2. CASE ~(row.state = "waiting" /\ ~hasEnded(row))
    <3>1. Quiet(r)
      BY <1>9, <2>2 DEF Answer, Quiet, TypeOK, github
    <3> QED
      BY <3>1, QuietKeepsRunInv
  <2> QED
    BY <2>1, <2>2
<1>10. CASE RequeueTransient(p, r)
  <2>1. CASE requeueAllowed(row) /\ transientLeft(row)
    <3>1. /\ rows'[r] = [Requeued(row, requeueState(row), TRUE) EXCEPT !.requeues = @ + 1]
          /\ row.attempt < MaxAttempt /\ requeueState(row) \in States
      BY <1>10, <2>1 DEF RequeueTransient, requeue, TypeOK, requeueState, States
    <3>2. Requeued(row, requeueState(row), TRUE) \in Row
      BY <1>0, <3>1, RequeuedType
    <3>3. /\ rows'[r].state = requeueState(row) /\ rows'[r].attempt = row.attempt + 1
          /\ rows'[r].plan = row.plan /\ rows'[r].stamped = row.stamped
      <4> DEFINE new == Requeued(row, requeueState(row), TRUE)
      <4>1. /\ new \in Row /\ new.state = requeueState(row) /\ new.attempt = row.attempt + 1
            /\ new.plan = row.plan /\ new.stamped = row.stamped
        BY <1>0, <3>2, RequeuedFields
      <4>2. rows'[r] = [new EXCEPT !.requeues = @ + 1]
        BY <3>1
      <4> HIDE DEF new
      <4> QED
        BY <4>1, <4>2 DEF Row
    <3>4. /\ ledger' = Without(reservedKeys(r, row.attempt))
          /\ \A q \in Pollers : tasks'[q][r] = tasks[q][r] \/ tasks'[q][r] = Idle
          /\ UNCHANGED <<running, pending, last>>
      BY <1>10, <2>1 DEF RequeueTransient, requeue, TypeOK, github
    <3> QED
      BY <3>3, <3>4, RequeueInv
  <2>2. CASE ~(requeueAllowed(row) /\ transientLeft(row))
    <3>1. Quiet(r)
      BY <1>10, <2>2 DEF RequeueTransient, Quiet, TypeOK, github
    <3> QED
      BY <3>1, QuietKeepsRunInv
  <2> QED
    BY <2>1, <2>2
<1> QED
  BY <1>2, <1>3, <1>4, <1>5, <1>6, <1>7, <1>8, <1>9, <1>10 DEF PollActs, TryClaim

(* A step of run r's record job. *)
LEMMA JobActsInv ==
  ASSUME TypeOK, TypeOK', NEW r \in Runs, JobActs(r), RunInv(r)
  PROVE  RunInv(r)'
<1> DEFINE row == rows[r]
           job == running[r]
<1>0. row \in Row /\ job \in Job /\ row.attempt \in Nat
  BY ConstantsAssumption DEF TypeOK, Row, Attempts
<1>1. ASSUME UNCHANGED tasks, rows'[r].attempt = row.attempt, HasPlan(r) => HasPlan(r)'
      PROVE  \A q \in Pollers : TaskInv(tasks[q][r], r)'
  BY <1>1 DEF RunInv, TaskInv
<1>2. rows'[r].attempt = row.attempt /\ JobEnds(r)
        => JobsInv(r)' /\ running'[r].phase \in {"none", "run"}
  BY <1>0, JobEndsInv DEF RunInv
<1>3. CASE WritePlan(r)
  <2>1. rows'[r] = [row EXCEPT !.plan = job.attempt, !.stamped = TRUE]
    BY <1>3 DEF WritePlan, TypeOK
  <2>2. /\ rows'[r].state = row.state /\ rows'[r].claimedAt = row.claimedAt
        /\ rows'[r].attempt = row.attempt /\ rows'[r].result = row.result
        /\ rows'[r].plan = job.attempt /\ rows'[r].stamped = TRUE
    BY <1>0, <2>1 DEF Row
  <2>3. HasPlan(r)' /\ (hasEnded(rows'[r]) <=> hasEnded(row))
    BY <1>3, <2>2 DEF HasPlan, hasEnded, WritePlan, PlanStage, RunInv, JobsInv
  <2>4. JobsInv(r)' /\ running'[r].phase = "written"
    BY <1>3, <2>2, JobMovesInv DEF WritePlan, RunInv
  <2>5. ledger' = ledger /\ \A q \in Pollers : TaskInv(tasks[q][r], r)'
    BY <1>1, <1>3, <2>2, <2>3 DEF WritePlan
  <2> QED
    BY <2>2, <2>3, <2>4, <2>5, KeptInv
<1>4. CASE SettlePlan(r)
  <2> DEFINE key == reservationKey(r, job.attempt, "plan")
  <2>1. CASE Held(key)
    <3>1. /\ rows'[r] = [row EXCEPT !.state = "planned"]
          /\ ledger' = Without({key}) /\ UNCHANGED tasks /\ JobEnds(r)
      BY <1>4, <2>1 DEF SettlePlan, TypeOK
    <3>2. /\ rows'[r].state = "planned" /\ rows'[r].attempt = row.attempt
          /\ rows'[r].result = row.result
          /\ rows'[r].plan = row.plan /\ rows'[r].stamped = row.stamped
      BY <1>0, <3>1 DEF Row
    <3>3. HasPlan(r) /\ (HasPlan(r)' <=> HasPlan(r))
      BY <1>4, <3>2 DEF HasPlan, SettlePlan, Running, RunInv
    <3>4. key = <<r, job.attempt, "plan">>
      BY DEF reservationKey, stageKey
    <3>5. job.attempt \in Attempts
      BY <1>0, <1>4 DEF SettlePlan, Running, RunInv, JobsInv, PlanStage, Job
    <3>6. \A a \in Attempts, kind \in Kinds : ledger'[<<r, a, kind>>].stage = "none"
      <4>1. \A a \in Attempts, kind \in Kinds :
              <<r, a, kind>> # <<r, job.attempt, "plan">> => ~Held(<<r, a, kind>>)
        BY <2>1, <3>4, <3>5 DEF RunInv, Kinds
      <4> HIDE DEF job
      <4> QED
        BY <3>1, <3>4, <4>1, WithoutAt DEF Held, NoEntry
    <3>7. JobsInv(r)' /\ running'[r].phase \in {"none", "run"}
      BY <1>2, <3>1, <3>2
    <3>8. \A q \in Pollers : TaskInv(tasks[q][r], r)'
      BY <1>1, <3>1, <3>2, <3>3
    <3> QED
      BY <3>2, <3>3, <3>6, <3>7, <3>8, NoneHeldInv
  <2>2. CASE ~Held(key)
    <3>1. rows' = rows /\ ledger' = ledger /\ UNCHANGED tasks /\ JobEnds(r)
      BY <1>4, <2>2 DEF SettlePlan
    <3>2. (HasPlan(r)' <=> HasPlan(r)) /\ rows'[r].attempt = row.attempt
      BY <3>1 DEF HasPlan
    <3> QED
      BY <1>1, <1>2, <3>1, <3>2, KeptInv
  <2> QED
    BY <2>1, <2>2
<1>5. SettledStamp(r) \in BOOLEAN /\ (row.stamped => SettledStamp(r))
  BY <1>0 DEF SettledStamp, Row
<1>6. ASSUME ledger' = Without({reservation(r, row.attempt)})
      PROVE  \A a \in Attempts, kind \in Kinds : ledger'[<<r, a, kind>>].stage = "none"
  <2> DEFINE S == {reservation(r, row.attempt)}
  <2>1. ledger' = Without(S) /\ S = {reservation(r, rows[r].attempt)}
    BY <1>6
  <2> HIDE DEF S
  <2> QED
    BY <2>1, DropAll
<1>7. CASE Stop(r)
  <2>1. rows'[r] = [row EXCEPT !.state = "stopped", !.result = "stopped",
                               !.replied = FALSE, !.stamped = SettledStamp(r)]
    BY <1>7 DEF Stop, TypeOK
  <2>2. /\ rows'[r].state = "stopped" /\ rows'[r].attempt = row.attempt
        /\ rows'[r].plan = row.plan /\ rows'[r].stamped = SettledStamp(r)
    BY <1>0, <2>1 DEF Row
  <2>3. HasPlan(r) => HasPlan(r)'
    BY <1>5, <2>2 DEF HasPlan
  <2>4. /\ ledger' = Without({reservation(r, row.attempt)}) /\ JobEnds(r)
        /\ UNCHANGED tasks
    BY <1>7 DEF Stop
  <2> QED
    BY <1>1, <1>2, <1>6, <2>2, <2>3, <2>4, NoneHeldInv
<1>8. ASSUME NEW state \in {"waiting", "queued"}, NEW provisional \in BOOLEAN,
             settleDecision(r, state, provisional)
      PROVE  RunInv(r)'
  <2>1. rows'[r] = [row EXCEPT !.state = state,
                      !.provisional = row.provisional \/ provisional,
                      !.replied = FALSE, !.claimedAt = FALSE, !.stale = FALSE,
                      !.stamped = SettledStamp(r)]
    BY <1>8 DEF settleDecision, TypeOK
  <2>2. /\ rows'[r].state = state /\ rows'[r].attempt = row.attempt
        /\ rows'[r].plan = row.plan /\ rows'[r].stamped = SettledStamp(r)
    BY <1>0, <2>1 DEF Row
  <2>3. HasPlan(r) => HasPlan(r)'
    BY <1>5, <2>2 DEF HasPlan
  <2>4. /\ ledger' = Without({reservation(r, row.attempt)}) /\ JobEnds(r)
        /\ UNCHANGED tasks
    BY <1>8 DEF settleDecision
  <2> QED
    BY <1>1, <1>2, <1>6, <2>2, <2>3, <2>4, NoneHeldInv
<1>9. CASE Suspend(r) \/ TakeRecommendation(r)
  BY <1>8, <1>9 DEF Suspend, TakeRecommendation
<1>10. CASE PutRecord(r)
  <2>1. PICK result \in Results \ {"none"}, transient \in BOOLEAN,
             phase \in {"put", "putConflict"} :
          /\ rows' = [rows EXCEPT ![r] = [@ EXCEPT !.result = result, !.transient = transient]]
          /\ JobMoves(r, phase)
    BY <1>10 DEF PutRecord
  <2>2. rows'[r] = [row EXCEPT !.result = result, !.transient = transient]
    BY <2>1 DEF TypeOK
  <2>3. /\ rows'[r].state = row.state /\ rows'[r].claimedAt = row.claimedAt
        /\ rows'[r].attempt = row.attempt /\ rows'[r].result = result
        /\ rows'[r].plan = row.plan /\ rows'[r].stamped = row.stamped
    BY <1>0, <2>2 DEF Row
  <2>4. (HasPlan(r)' <=> HasPlan(r)) /\ hasEnded(rows'[r])
    BY <2>1, <2>3 DEF HasPlan, hasEnded
  <2>5. JobsInv(r)' /\ running'[r].phase = phase
    BY <2>1, <2>3, JobMovesInv DEF RunInv
  <2>6. ledger' = ledger /\ \A q \in Pollers : TaskInv(tasks[q][r], r)'
    BY <1>1, <1>10, <2>3, <2>4 DEF PutRecord
  <2> QED
    BY <2>1, <2>3, <2>4, <2>5, <2>6, KeptInv
<1>11. CASE Settle(r)
  <2> DEFINE key == reservationKey(r, job.attempt, job.stage)
  <2>1. rows' = rows /\ UNCHANGED tasks /\ ledger' = Without({key})
    BY <1>11 DEF Settle
  <2>2. HasPlan(r)' <=> HasPlan(r)
    BY <2>1 DEF HasPlan
  <2>3. JobsInv(r)' /\ running'[r].phase \in {"none", "run", "conflict"}
    BY <1>2, <1>11, <2>1, JobMovesInv DEF Settle, RunInv
  <2>4. \A q \in Pollers : TaskInv(tasks[q][r], r)'
    BY <1>1, <2>1, <2>2
  <2>5. \A a \in Attempts, kind \in Kinds :
          ledger'[<<r, a, kind>>].stage \in {ledger[<<r, a, kind>>].stage, "none"}
    BY <2>1, WithoutAt DEF NoEntry
  <2>6. job.attempt # row.attempt => \A a \in Attempts, kind \in Kinds :
          ledger'[<<r, a, kind>>].stage = ledger[<<r, a, kind>>].stage
    <3>1. ASSUME job.attempt # row.attempt, NEW a \in Attempts, NEW kind \in Kinds
          PROVE  ledger'[<<r, a, kind>>].stage = ledger[<<r, a, kind>>].stage
      <4>1. <<r, a, kind>> = key => ~Held(<<r, a, kind>>)
        BY <3>1 DEF reservationKey, RunInv
      <4> QED
        BY <2>1, <4>1, WithoutAt DEF NoEntry, Held
    <3> QED
      BY <3>1
  <2>7. CASE job.attempt # row.attempt
    BY <2>1, <2>2, <2>3, <2>4, <2>6, <2>7, KeptInv
  <2>8. CASE job.attempt = row.attempt
    <3>1. hasEnded(row)
      BY <1>11, <2>8 DEF Settle, Running, RunInv
    <3>2. /\ HoldsAny(r)' => HoldsAny(r)
          /\ \A a \in Attempts, kind \in Kinds : Held(<<r, a, kind>>)' => Held(<<r, a, kind>>)
      BY <2>5 DEF HoldsAny, Held
    <3> QED
      BY <2>1, <2>2, <2>3, <2>4, <2>5, <3>1, <3>2 DEF RunInv, Kinds
  <2> QED
    BY <2>7, <2>8
<1>12. CASE RequeueAfterConflict(r)
  <2>1. CASE requeue(r, Replanned(row, TRUE))
    <3>1. rows'[r] = Replanned(row, TRUE) /\ ledger' = Without(reservedKeys(r, row.attempt))
      BY <2>1 DEF requeue, TypeOK
    <3> QED
      BY <1>0, <1>12, <3>1, RequeuedFields, RequeueInv DEF RequeueAfterConflict
  <2>2. CASE UNCHANGED <<rows, ledger>>
    <3>1. HasPlan(r)' <=> HasPlan(r)
      BY <2>2 DEF HasPlan
    <3> QED
      BY <1>1, <1>2, <1>12, <2>2, <3>1, KeptInv DEF RequeueAfterConflict
  <2> QED
    BY <1>12, <2>1, <2>2 DEF RequeueAfterConflict
<1>13. CASE JobLost(r)
  <2>1. HasPlan(r)' <=> HasPlan(r)
    BY <1>13 DEF HasPlan, JobLost
  <2> QED
    BY <1>1, <1>2, <1>13, <2>1, KeptInv DEF JobLost
<1> QED
  BY <1>3, <1>4, <1>7, <1>9, <1>10, <1>11, <1>12, <1>13 DEF JobActs

(* What people do to run r, the clock and the sweep. *)
LEMMA OtherActsInv ==
  ASSUME TypeOK, TypeOK', NEW r \in Runs, RunInv(r),
         OwnerActs(r) \/ Enqueue(r) \/ StopRetried(r) \/ WindowPasses(r) \/ Sweep(r)
  PROVE  RunInv(r)'
<1> DEFINE row == rows[r]
<1>0. row \in Row /\ row.attempt \in Nat
  BY ConstantsAssumption DEF TypeOK, Row, Attempts
<1>1. ASSUME UNCHANGED tasks, rows'[r].attempt = row.attempt, HasPlan(r) => HasPlan(r)'
      PROVE  \A q \in Pollers : TaskInv(tasks[q][r], r)'
  BY <1>1 DEF RunInv, TaskInv
<1>2. ASSUME UNCHANGED <<running, pending, last>>, rows'[r].attempt = row.attempt
      PROVE  JobsInv(r)' /\ running'[r] = running[r]
  BY <1>2 DEF RunInv, JobsInv, PlanStage
(* Writes that touch no field the invariant reads. *)
<1>3. ASSUME UNCHANGED <<tasks, running, pending, last>>,
             \A a \in Attempts, kind \in Kinds :
               ledger'[<<r, a, kind>>].stage = ledger[<<r, a, kind>>].stage,
             rows'[r].state = row.state, rows'[r].attempt = row.attempt,
             rows'[r].claimedAt = row.claimedAt, rows'[r].result = row.result,
             rows'[r].plan = row.plan, rows'[r].stamped = row.stamped
      PROVE  RunInv(r)'
  <2>1. (HasPlan(r)' <=> HasPlan(r)) /\ (hasEnded(rows'[r]) <=> hasEnded(row))
    BY <1>3 DEF HasPlan, hasEnded
  <2> QED
    BY <1>1, <1>2, <1>3, <2>1, KeptInv DEF RunInv
<1>4. CASE RunByHand(r)
  <2>1. PICK job \in {last[r], ManualJob} : running' = [running EXCEPT ![r] = job]
    BY <1>4 DEF RunByHand
  <2>2. /\ running'[r] \in {last[r], ManualJob} /\ last'[r] = NoJob /\ pending'[r] = pending[r]
        /\ rows' = rows /\ ledger' = ledger /\ UNCHANGED tasks
    BY <1>4, <2>1 DEF RunByHand, TypeOK
  <2>3. /\ ManualJob.attempt = -1 /\ ManualJob.stage = "single" /\ ManualJob.phase = "run"
        /\ NoJob.attempt = -1 /\ NoJob.stage = "none" /\ NoJob.phase = "none"
    BY DEF ManualJob, NoJob
  <2>4. JobsInv(r)' /\ running'[r].phase \in {"none", "run"}
    BY <1>0, <2>2, <2>3 DEF RunInv, JobsInv, PlanStage
  <2>5. HasPlan(r)' <=> HasPlan(r)
    BY <2>2 DEF HasPlan
  <2> QED
    BY <1>1, <2>2, <2>4, <2>5, KeptInv
<1>5. CASE Requeue(r)
  <2>1. /\ rows'[r] = Requeued(row, requeueState(row), FALSE)
        /\ ledger' = Without(reservedKeys(r, row.attempt)) /\ UNCHANGED <<tasks, github>>
    BY <1>5 DEF Requeue, requeue, TypeOK
  <2>2. /\ rows'[r].state = requeueState(row) /\ rows'[r].attempt = row.attempt + 1
        /\ rows'[r].plan = row.plan /\ rows'[r].stamped = row.stamped
    <3> DEFINE new == Requeued(row, requeueState(row), FALSE)
    <3>1. /\ new.state = requeueState(row) /\ new.attempt = row.attempt + 1
          /\ new.plan = row.plan /\ new.stamped = row.stamped
      BY <1>0, RequeuedFields
    <3>2. rows'[r] = new
      BY <2>1
    <3> HIDE DEF new
    <3> QED
      BY <3>1, <3>2
  <2> QED
    BY <2>1, <2>2, RequeueInv DEF github
<1>6. CASE Supersede(r) \/ RetryWithNote(r)
  <2>1. /\ \/ rows'[r] = [Replanned(row, FALSE) EXCEPT !.provisional = FALSE]
           \/ rows'[r] = [Replanned(row, TRUE) EXCEPT !.noted = TRUE]
        /\ ledger' = Without(reservedKeys(r, row.attempt)) /\ UNCHANGED <<tasks, github>>
        /\ row.attempt < MaxAttempt
    BY <1>6 DEF Supersede, RetryWithNote, requeue, TypeOK
  <2>2. ASSUME NEW keep \in BOOLEAN
        PROVE  Replanned(row, keep) \in Row
    BY <1>0, <2>1, RequeuedType DEF States
  <2>3. ASSUME NEW new \in Row
        PROVE  /\ [new EXCEPT !.provisional = FALSE].state = new.state
               /\ [new EXCEPT !.provisional = FALSE].attempt = new.attempt
               /\ [new EXCEPT !.provisional = FALSE].plan = new.plan
               /\ [new EXCEPT !.provisional = FALSE].stamped = new.stamped
               /\ [new EXCEPT !.noted = TRUE].state = new.state
               /\ [new EXCEPT !.noted = TRUE].attempt = new.attempt
               /\ [new EXCEPT !.noted = TRUE].plan = new.plan
               /\ [new EXCEPT !.noted = TRUE].stamped = new.stamped
    BY DEF Row
  <2>4. /\ rows'[r].state = "queued" /\ rows'[r].attempt = row.attempt + 1
        /\ rows'[r].plan = row.plan /\ rows'[r].stamped = row.stamped
    <3>1. CASE rows'[r] = [Replanned(row, FALSE) EXCEPT !.provisional = FALSE]
      <4> DEFINE new == Replanned(row, FALSE)
      <4>1. /\ new \in Row /\ new.state = "queued" /\ new.attempt = row.attempt + 1
            /\ new.plan = row.plan /\ new.stamped = row.stamped
        BY <1>0, <2>2, RequeuedFields
      <4>2. rows'[r] = [new EXCEPT !.provisional = FALSE]
        BY <3>1
      <4> HIDE DEF new
      <4> QED
        BY <2>3, <4>1, <4>2
    <3>2. CASE rows'[r] = [Replanned(row, TRUE) EXCEPT !.noted = TRUE]
      <4> DEFINE new == Replanned(row, TRUE)
      <4>1. /\ new \in Row /\ new.state = "queued" /\ new.attempt = row.attempt + 1
            /\ new.plan = row.plan /\ new.stamped = row.stamped
        BY <1>0, <2>2, RequeuedFields
      <4>2. rows'[r] = [new EXCEPT !.noted = TRUE]
        BY <3>2
      <4> HIDE DEF new
      <4> QED
        BY <2>3, <4>1, <4>2
    <3> QED
      BY <2>1, <3>1, <3>2
  <2> QED
    BY <2>1, <2>4, RequeueInv DEF github
<1>7. CASE Reply(r)
  BY <1>0, <1>3, <1>7 DEF Reply, TypeOK, Row, github
<1>8. CASE ConfirmProvisional(r)
  BY <1>0, <1>3, <1>8 DEF ConfirmProvisional, TypeOK, Row, github
<1>9. CASE RecordCancel(r)
  BY <1>0, <1>3, <1>9 DEF RecordCancel, TypeOK, Row, github
<1>10. CASE RecordMerge(r)
  BY <1>0, <1>3, <1>10 DEF RecordMerge, TypeOK, Row, github
<1>11. CASE WindowPasses(r)
  <2>1. \A k \in Keys : [ledger[k] EXCEPT !.stale = TRUE].stage = ledger[k].stage
    BY DEF TypeOK, Entry
  <2>2. \A a \in Attempts, kind \in Kinds :
          ledger'[<<r, a, kind>>].stage = ledger[<<r, a, kind>>].stage
    BY <1>11, <2>1 DEF WindowPasses, Keys
  <2>3. rows'[r] = [row EXCEPT !.stale = row.claimedAt]
    BY <1>11 DEF WindowPasses, TypeOK
  <2>4. /\ rows'[r].state = row.state /\ rows'[r].attempt = row.attempt
        /\ rows'[r].claimedAt = row.claimedAt /\ rows'[r].result = row.result
        /\ rows'[r].plan = row.plan /\ rows'[r].stamped = row.stamped
    BY <1>0, <2>3 DEF Row
  <2> QED
    BY <1>3, <1>11, <2>2, <2>4 DEF WindowPasses, github
<1>12. CASE Enqueue(r)
  <2>1. /\ rows'[r].state = "queued" /\ rows'[r].attempt = row.attempt
        /\ rows'[r].result = row.result
        /\ rows'[r].plan = row.plan /\ rows'[r].stamped = row.stamped
    BY <1>0, <1>12 DEF Enqueue, TypeOK, Row
  <2>2. (HasPlan(r)' <=> HasPlan(r)) /\ (hasEnded(rows'[r]) <=> hasEnded(row))
    BY <2>1 DEF HasPlan, hasEnded
  <2>3. \A a \in Attempts, kind \in Kinds : ledger'[<<r, a, kind>>].stage = "none"
    BY <1>12 DEF Enqueue, RunInv, HoldsAny, Held
  <2>4. UNCHANGED <<tasks, running, pending, last>>
    BY <1>12 DEF Enqueue, github
  <2> QED
    BY <1>1, <1>2, <2>1, <2>2, <2>3, <2>4, NoneHeldInv DEF RunInv
<1>13. CASE StopRetried(r)
  <2>1. /\ rows'[r].state = "stopped" /\ rows'[r].attempt = row.attempt
        /\ rows'[r].result = "stopped"
        /\ rows'[r].plan = row.plan /\ rows'[r].stamped = row.stamped
    BY <1>0, <1>13 DEF StopRetried, TypeOK, Row
  <2>2. (HasPlan(r)' <=> HasPlan(r)) /\ hasEnded(rows'[r])
    BY <2>1 DEF HasPlan, hasEnded
  <2>3. UNCHANGED <<ledger, tasks, running, pending, last>>
    BY <1>13 DEF StopRetried, github
  <2> QED
    BY <1>1, <1>2, <2>1, <2>2, <2>3, KeptInv DEF RunInv
<1>14. CASE abandon(r)
  <2>1. /\ rows'[r].state = "abandoned" /\ rows'[r].attempt = row.attempt
        /\ rows'[r].result = row.result
        /\ rows'[r].plan = row.plan /\ rows'[r].stamped = row.stamped
    BY <1>0, <1>14 DEF abandon, TypeOK, Row
  <2>2. (HasPlan(r)' <=> HasPlan(r)) /\ (hasEnded(rows'[r]) <=> hasEnded(row))
    BY <2>1 DEF HasPlan, hasEnded
  <2>3. \A a \in Attempts, kind \in Kinds : ledger'[<<r, a, kind>>].stage = "none"
    <3> DEFINE S == reservedKeys(r, row.attempt)
    <3>1. ledger' = Without(S) /\ S = reservedKeys(r, rows[r].attempt)
      BY <1>14 DEF abandon
    <3> HIDE DEF S
    <3> QED
      BY <3>1, DropAll
  <2>4. UNCHANGED <<tasks, running, pending, last>>
    BY <1>14 DEF abandon, github
  <2> QED
    BY <1>1, <1>2, <2>1, <2>2, <2>3, <2>4, NoneHeldInv DEF RunInv
(* The sweep drops a key only of a run that is not in flight: a key of an  *)
(* earlier attempt would not be held.                                      *)
<1>15. ASSUME NEW k \in Keys, k[1] = r, releaseIfSettled(k)
       PROVE  RunInv(r)'
  <2>1. rows' = rows /\ UNCHANGED <<tasks, running, pending, last>> /\ ledger' = Without({k})
    BY <1>15 DEF releaseIfSettled, github
  <2>2. k = <<r, k[2], k[3]>> /\ k[2] \in Attempts /\ k[3] \in Kinds
    BY <1>15 DEF Keys
  <2>3. row.state # "claimed" \/ hasEnded(row)
    <3>1. k[2] = row.attempt
      BY <1>15, <2>2 DEF releaseIfSettled, RunInv
    <3> QED
      BY <1>0, <1>15, <3>1 DEF releaseIfSettled, Settled
  <2>4. \A a \in Attempts, kind \in Kinds :
          ledger'[<<r, a, kind>>].stage \in {ledger[<<r, a, kind>>].stage, "none"}
    BY <2>1, WithoutAt DEF NoEntry
  <2>5. /\ HoldsAny(r)' => HoldsAny(r)
        /\ \A a \in Attempts, kind \in Kinds : Held(<<r, a, kind>>)' => Held(<<r, a, kind>>)
    BY <2>4 DEF HoldsAny, Held
  <2>6. HasPlan(r)' <=> HasPlan(r)
    BY <2>1 DEF HasPlan
  <2>7. JobsInv(r)' /\ \A q \in Pollers : TaskInv(tasks[q][r], r)'
    BY <1>1, <1>2, <2>1, <2>6
  <2> QED
    BY <2>1, <2>3, <2>4, <2>5, <2>6, <2>7 DEF RunInv, Kinds
<1> QED
  BY <1>4, <1>5, <1>6, <1>7, <1>8, <1>9, <1>10, <1>11, <1>12, <1>13, <1>14, <1>15
     DEF OwnerActs, Sweep

(* Every step keeps the invariant: of the run it is on by one of the       *)
(* lemmas above, of the others because it leaves them alone.               *)
LEMMA IInvInductive ==
  ASSUME IInv, [Next]_vars
  PROVE  IInv'
<1>1. TypeOK /\ \A r \in Runs : RunInv(r)
  BY IInvByRun
<1>2. TypeOK'
  BY <1>1, TypeInductive
<1>3. ASSUME NEW s \in Runs
      PROVE  RunInv(s)'
  <2>1. ASSUME NEW p \in Pollers, PollLists(p) \/ PollEnds(p)
        PROVE  RunInv(s)'
    BY <1>1, <1>2, <2>1, PollListsInv
  <2>2. ASSUME NEW p \in Pollers, NEW r \in Runs, PollActs(p, r)
        PROVE  RunInv(s)'
    <3>1. CASE r = s
      BY <1>1, <1>2, <2>2, <3>1, PollActsInv
    <3>2. CASE r # s
      BY <1>1, <2>2, <3>2, OthersQuiet, QuietKeepsRunInv
    <3> QED
      BY <3>1, <3>2
  <2>3. ASSUME NEW r \in Runs, JobActs(r)
        PROVE  RunInv(s)'
    <3>1. CASE r = s
      BY <1>1, <1>2, <2>3, <3>1, JobActsInv
    <3>2. CASE r # s
      BY <1>1, <2>3, <3>2, OthersQuiet, QuietKeepsRunInv
    <3> QED
      BY <3>1, <3>2
  <2>4. ASSUME NEW r \in Runs,
               OwnerActs(r) \/ Enqueue(r) \/ StopRetried(r) \/ WindowPasses(r) \/ Sweep(r)
        PROVE  RunInv(s)'
    <3>1. CASE r = s
      BY <1>1, <1>2, <2>4, <3>1, OtherActsInv
    <3>2. CASE r # s
      BY <1>1, <2>4, <3>2, OthersQuiet, QuietKeepsRunInv
    <3> QED
      BY <3>1, <3>2
  <2>5. CASE UNCHANGED vars
    <3>1. Quiet(s)
      BY <2>5 DEF vars, Quiet
    <3> QED
      BY <1>1, <3>1, QuietKeepsRunInv
  <2> QED
    BY <2>1, <2>2, <2>3, <2>4, <2>5 DEF Next
<1> QED
  BY <1>2, <1>3, IInvOfRuns

(* The invariant holds in every reachable state. *)
LEMMA IInvHolds == Spec => []IInv
<1>1. Init => IInv
  <2>1. Init => TypeOK
    BY NullRecords, ConstantsAssumption DEF Init, TypeOK
  <2>2. ASSUME Init PROVE IInv
    <3>1. \A r \in Runs, a \in Attempts, kind \in Kinds : ~Held(<<r, a, kind>>)
      BY <2>2 DEF Init, Held, NoEntry, Keys
    <3>2. \A r \in Runs, a \in Attempts, kind \in Kinds : ledger[<<r, a, kind>>].stage = "none"
      BY <2>2 DEF Init, NoEntry, Keys
    <3>3. \A r \in Runs : rows[r].state = "absent" /\ rows[r].attempt = 0
      BY <2>2 DEF Init, NoRow
    <3>4. \A r \in Runs : /\ running[r] = NoJob /\ pending[r] = NoJob /\ last[r] = NoJob
                          /\ \A p \in Pollers : tasks[p][r] = Idle
      BY <2>2 DEF Init
    <3>5. /\ LedgerIsCurrent /\ IdleHoldsNothing /\ LiveClaimIsCounted /\ PlannedHasPlan
      BY <3>1, <3>3 DEF LedgerIsCurrent, IdleHoldsNothing, LiveClaimIsCounted, PlannedHasPlan,
         HoldsAny
    <3>6. NothingIsAhead /\ RecordEndsItsRow /\ BuildsHavePlans /\ CandidatesHaveStages
      BY <3>2, <3>3, <3>4 DEF NothingIsAhead, RecordEndsItsRow, BuildsHavePlans,
         CandidatesHaveStages, NoJob, Idle
    <3> QED
      BY <2>1, <2>2, <3>5, <3>6 DEF IInv
  <2> QED
    BY <2>2
<1>2. IInv /\ [Next]_vars => IInv'
  BY IInvInductive
<1> QED
  BY <1>1, <1>2, PTL DEF Spec

(* No entry of the ledger outlives the attempt it was booked for. *)
THEOREM LedgerStaysCurrent == Spec => []LedgerIsCurrent
BY IInvHolds, PTL DEF IInv

(* What a run does not use never counts against the budget or the limit on *)
(* runs at once, and no run counts twice.                                  *)
THEOREM IdleRunsHoldNothing == Spec => []IdleHoldsNothing
BY IInvHolds, PTL DEF IInv

(* A run in flight is always counted, and the sweep can always find it.    *)
THEOREM LiveClaimsAreCounted == Spec => []LiveClaimIsCounted
BY IInvHolds, PTL DEF IInv

(* A build is never dispatched from a row without its plan. *)
THEOREM PlannedRowsHavePlans == Spec => []PlannedHasPlan
BY IInvHolds, PTL DEF IInv

(***************************************************************************)
(* One attempt's settle never reaches another's entry                      *)
(***************************************************************************)

(* A record job that settles ends or goes on by its own settle, or is lost. *)
LEMMA SettlingJobSteps ==
  ASSUME IInv, Next, NEW r \in Runs, JobSteps(r),
         running[r].phase \in {"written", "put", "putConflict"}
  PROVE  SettlePlan(r) \/ Settle(r) \/ JobLost(r)
<1>0. TypeOK /\ \A s \in Runs : RunInv(s)
  BY IInvByRun
<1>1. ASSUME NEW s \in Runs, s # r,
             \/ \E p \in Pollers : PollActs(p, s)
             \/ JobActs(s) \/ OwnerActs(s)
             \/ Enqueue(s) \/ StopRetried(s) \/ WindowPasses(s) \/ Sweep(s)
      PROVE  FALSE
  <2>1. Quiet(r)
    BY <1>0, <1>1, OthersQuiet
  <2> QED
    BY <2>1 DEF Quiet, JobSteps
<1>2. running[r] # NoJob
  BY DEF NoJob
<1>3. ASSUME running' = running
      PROVE  FALSE
  BY <1>3 DEF JobSteps
<1>4. ASSUME NEW p \in Pollers, PollLists(p) \/ PollEnds(p)
      PROVE  FALSE
  BY <1>3, <1>4 DEF PollLists, PollEnds, ListCandidates, ListTransientStops, ListWaiting, github
<1>5. ASSUME NEW p \in Pollers, PollActs(p, r)
      PROVE  FALSE
  BY <1>2, <1>3, <1>5 DEF PollActs, TryClaim, ClaimWithheld, ClaimEnded, ClaimBooked, Dispatched,
     DispatchFailed, Release, RequeueTransient, Answer, StopWaiting, StartJob, github
<1>6. ASSUME OwnerActs(r) \/ Enqueue(r) \/ StopRetried(r) \/ WindowPasses(r) \/ Sweep(r)
      PROVE  FALSE
  BY <1>2, <1>3, <1>6 DEF OwnerActs, RunByHand, Requeue, Supersede, RetryWithNote, Reply,
     ConfirmProvisional, RecordCancel, RecordMerge, Enqueue, StopRetried, WindowPasses, Sweep,
     abandon, releaseIfSettled, github
<1>7. CASE JobActs(r)
  BY <1>7 DEF JobActs, WritePlan, Stop, Suspend, TakeRecommendation, settleDecision, PutRecord,
     RequeueAfterConflict, Running
<1> QED
  BY <1>1, <1>4, <1>5, <1>6, <1>7 DEF Next

(* "One attempt's settle never reaches another's entry." *)
THEOREM SettlesStayInTheirAttempt == Spec => SettleStaysInItsAttempt
<1> DEFINE Late(r) ==
      /\ running[r].phase \in {"written", "put", "putConflict"} /\ JobSteps(r)
      /\ running[r].attempt # rows[r].attempt
      => InFlight' = InFlight /\ rows'[r].state = rows[r].state
<1>1. IInv /\ [Next]_vars => [\A r \in Runs : Late(r)]_vars
  <2> SUFFICES ASSUME IInv, Next, NEW r \in Runs,
                      running[r].phase \in {"written", "put", "putConflict"}, JobSteps(r),
                      running[r].attempt # rows[r].attempt
               PROVE  InFlight' = InFlight /\ rows'[r].state = rows[r].state
    OBVIOUS
  <2>1. TypeOK /\ RunInv(r)
    BY IInvByRun
  <2>2. ASSUME NEW kind \in Kinds, ledger' = Without({<<r, running[r].attempt, kind>>})
        PROVE  InFlight' = InFlight
    <3>1. ASSUME NEW k \in Keys
          PROVE  Held(k)' <=> Held(k)
      <4>1. CASE k # <<r, running[r].attempt, kind>>
        BY <2>2, <4>1 DEF Without, Held
      <4>2. CASE k = <<r, running[r].attempt, kind>>
        <5>1. running[r].attempt \in Attempts
          BY <4>2 DEF Keys
        <5>2. ~Held(k)
          BY <2>1, <4>2, <5>1 DEF RunInv
        <5> QED
          BY <2>2, <5>2 DEF Without, Held, NoEntry
      <4> QED
        BY <4>1, <4>2
    <3> QED
      BY <3>1 DEF InFlight
  <2>3. CASE SettlePlan(r)
    <3>1. running[r].attempt \in Attempts
      BY <2>1, <2>3 DEF SettlePlan, Running, RunInv, JobsInv, PlanStage, TypeOK, Job
    <3>2. ~Held(reservationKey(r, running[r].attempt, "plan"))
      BY <2>1, <3>1 DEF RunInv, reservationKey, stageKey, Kinds
    <3>3. UNCHANGED <<ledger, rows>>
      BY <2>3, <3>2 DEF SettlePlan
    <3> QED
      BY <3>3 DEF InFlight, Held
  <2>4. CASE Settle(r)
    <3>1. stageKey(running[r].stage) \in Kinds
      BY DEF stageKey, Kinds
    <3>2. InFlight' = InFlight
      BY <2>2, <2>4, <3>1 DEF Settle, reservationKey
    <3> QED
      BY <2>4, <3>2 DEF Settle
  <2>5. CASE JobLost(r)
    BY <2>5 DEF JobLost, InFlight, Held
  <2> QED
    BY <2>3, <2>4, <2>5, SettlingJobSteps
<1>2. Spec => [][\A r \in Runs : Late(r)]_vars
  BY <1>1, IInvHolds, PTL DEF Spec
<1> QED
  BY <1>2 DEF SettleStaysInItsAttempt
(***************************************************************************)
(* No more runs at once than the owner's limit                             *)
(***************************************************************************)

(* Dropping keys, or keeping the ledger, adds no claim that counts. *)
LEMMA DroppedKeysCountNoMore ==
  ASSUME ledger' = ledger \/ \E S : ledger' = Without(S)
  PROVE  InFlight' \subseteq InFlight
BY DEF Without, InFlight, Held, NoEntry

(* Only a booked claim adds to the ledger, one key, below the limit. *)
LEMMA OnlyClaimsCount ==
  ASSUME TypeOK, [Next]_vars
  PROVE  \/ InFlight' \subseteq InFlight
         \/ /\ Cardinality(InFlight) < RunsAtOnce
            /\ \E k : InFlight' \subseteq InFlight \cup {k}
<1>1. ASSUME NEW p \in Pollers, NEW r \in Runs, ClaimBooked(p, r)
      PROVE  /\ Cardinality(InFlight) < RunsAtOnce
             /\ \E k : InFlight' \subseteq InFlight \cup {k}
  <2> DEFINE key == reservationKey(r, rows[r].attempt, tasks[p][r].stage)
  <2>1. \A k \in Keys : k # key => ledger'[k] = ledger[k]
    BY <1>1 DEF ClaimBooked, TypeOK
  <2>2. InFlight' \subseteq InFlight \cup {key}
    BY <2>1 DEF InFlight, Held
  <2> QED
    BY <1>1, <2>2 DEF ClaimBooked
<1>2. ASSUME NEW p \in Pollers, NEW r \in Runs, PollActs(p, r), ~ClaimBooked(p, r)
      PROVE  InFlight' \subseteq InFlight
  <2>1. ledger' = ledger \/ \E S : ledger' = Without(S)
    BY <1>2 DEF PollActs, TryClaim, ClaimWithheld, ClaimEnded, Dispatched, DispatchFailed, Release,
       RequeueTransient, requeue, Answer, StopWaiting
  <2> QED
    BY <2>1, DroppedKeysCountNoMore
<1>3. ASSUME NEW r \in Runs, JobActs(r)
      PROVE  InFlight' \subseteq InFlight
  <2>1. ledger' = ledger \/ \E S : ledger' = Without(S)
    BY <1>3 DEF JobActs, WritePlan, SettlePlan, Stop, Suspend, TakeRecommendation, settleDecision,
       PutRecord, Settle, RequeueAfterConflict, requeue, JobLost
  <2> QED
    BY <2>1, DroppedKeysCountNoMore
<1>4. ASSUME NEW r \in Runs, OwnerActs(r) \/ Enqueue(r) \/ StopRetried(r) \/ Sweep(r)
      PROVE  InFlight' \subseteq InFlight
  <2>1. ledger' = ledger \/ \E S : ledger' = Without(S)
    BY <1>4 DEF OwnerActs, RunByHand, Requeue, Supersede, RetryWithNote, requeue, Reply,
       ConfirmProvisional, RecordCancel, RecordMerge, Enqueue, StopRetried, Sweep, abandon,
       releaseIfSettled
  <2> QED
    BY <2>1, DroppedKeysCountNoMore
<1>5. ASSUME NEW r \in Runs, WindowPasses(r)
      PROVE  InFlight' \subseteq InFlight
  <2>1. \A k \in Keys : ledger'[k].stage = ledger[k].stage
    BY <1>5 DEF WindowPasses, TypeOK, Entry
  <2> QED
    BY <2>1 DEF InFlight, Held
<1>6. ASSUME NEW p \in Pollers, PollLists(p) \/ PollEnds(p)
      PROVE  InFlight' \subseteq InFlight
  BY <1>6, DroppedKeysCountNoMore
     DEF PollLists, PollEnds, ListCandidates, ListTransientStops, ListWaiting
<1>7. CASE UNCHANGED vars
  BY <1>7, DroppedKeysCountNoMore DEF vars
<1> QED
  BY <1>1, <1>2, <1>3, <1>4, <1>5, <1>6, <1>7 DEF Next

LedgerIsBounded == IsFiniteSet(InFlight) /\ Cardinality(InFlight) <= RunsAtOnce

(* The ledger never counts more claims than the limit. *)
LEMMA LedgerStaysBounded == Spec => []LedgerIsBounded
<1>1. Init => LedgerIsBounded
  <2>1. Init => InFlight = {}
    BY DEF Init, InFlight, Held, NoEntry
  <2> QED
    BY <2>1, FS_EmptySet, ConstantsAssumption DEF LedgerIsBounded
<1>2. ASSUME TypeOK, LedgerIsBounded, [Next]_vars
      PROVE  LedgerIsBounded'
  <2>1. IsFiniteSet(InFlight) /\ Cardinality(InFlight) \in Nat
    BY <1>2, FS_CardinalityType DEF LedgerIsBounded
  <2>2. CASE InFlight' \subseteq InFlight
    <3>1. IsFiniteSet(InFlight') /\ Cardinality(InFlight') <= Cardinality(InFlight)
      BY <2>1, <2>2, FS_Subset
    <3>2. Cardinality(InFlight') \in Nat
      BY <3>1, FS_CardinalityType
    <3> QED
      BY <1>2, <2>1, <3>1, <3>2, ConstantsAssumption DEF LedgerIsBounded
  <2>3. CASE Cardinality(InFlight) < RunsAtOnce /\ \E k : InFlight' \subseteq InFlight \cup {k}
    <3>1. PICK k : InFlight' \subseteq InFlight \cup {k}
      BY <2>3
    <3>2. /\ IsFiniteSet(InFlight \cup {k})
          /\ \/ Cardinality(InFlight \cup {k}) = Cardinality(InFlight)
             \/ Cardinality(InFlight \cup {k}) = Cardinality(InFlight) + 1
      BY <2>1, FS_AddElement
    <3>3. IsFiniteSet(InFlight') /\ Cardinality(InFlight') <= Cardinality(InFlight \cup {k})
      BY <3>1, <3>2, FS_Subset
    <3>4. Cardinality(InFlight') \in Nat
      BY <3>3, FS_CardinalityType
    <3> QED
      BY <2>1, <2>3, <3>2, <3>3, <3>4, ConstantsAssumption DEF LedgerIsBounded
  <2> QED
    BY <1>2, <2>2, <2>3, OnlyClaimsCount
<1> QED
  BY <1>1, <1>2, TypeCorrect, PTL DEF Spec

(* Every run in flight is counted, so the limit on the ledger's claims is  *)
(* one on the runs themselves.                                             *)
THEOREM RunsAtOnceAreBounded == Spec => []RunsAtOnceHold
<1>1. ASSUME IInv, LedgerIsBounded
      PROVE  RunsAtOnceHold
  <2> DEFINE Live == {r \in Runs : rows[r].state = "claimed" /\ ~hasEnded(rows[r])}
             Counted == {k[1] : k \in InFlight}
  <2>1. Live \subseteq Counted
    <3> SUFFICES ASSUME NEW r \in Live PROVE r \in Counted
      OBVIOUS
    <3>1. PICK a \in Attempts, kind \in Kinds : Held(<<r, a, kind>>)
      BY <1>1 DEF IInv, LiveClaimIsCounted, HoldsAny
    <3>2. <<r, a, kind>> \in InFlight
      BY <3>1 DEF InFlight, Keys
    <3>3. <<r, a, kind>>[1] = r
      OBVIOUS
    <3> QED
      BY <3>2, <3>3
  <2>2. IsFiniteSet(InFlight) /\ Cardinality(InFlight) <= RunsAtOnce
    BY <1>1 DEF LedgerIsBounded
  <2> HIDE DEF Live
  <2>3. IsFiniteSet(Counted) /\ Cardinality(Counted) <= Cardinality(InFlight)
    <3> DEFINE runOf == [k \in InFlight |-> k[1]]
    <3>1. runOf \in Surjection(InFlight, Counted)
      BY DEF Surjection
    <3> HIDE DEF runOf, Counted
    <3> QED
      BY <2>2, <3>1, FS_Surjection
  <2> HIDE DEF Counted
  <2>4. IsFiniteSet(Live) /\ Cardinality(Live) <= Cardinality(Counted)
    BY <2>1, <2>3, FS_Subset
  <2>5. Cardinality(InFlight) \in Nat /\ Cardinality(Counted) \in Nat /\ Cardinality(Live) \in Nat
    BY <2>2, <2>3, <2>4, FS_CardinalityType
  <2>6. Cardinality(Live) <= RunsAtOnce
    BY <2>2, <2>3, <2>4, <2>5, ConstantsAssumption
  <2> QED
    BY <2>6 DEF RunsAtOnceHold, Live
<1> QED
  BY <1>1, IInvHolds, LedgerStaysBounded, PTL

(***************************************************************************)
(* The queue implements the pool of slots                                  *)
(***************************************************************************)

Holders == {r \in Runs : HoldsAny(r)}

(* What a step on run r does to its slot: it keeps it and the attempt; it  *)
(* ends with no slot, on the same attempt or on the next; or it is a claim *)
(* of a run that has none, below the limit.                                *)
SlotStep(r) ==
  \/ (HoldsAny(r)' <=> HoldsAny(r)) /\ rows'[r].attempt = rows[r].attempt
  \/ /\ ~HoldsAny(r)'
     /\ rows'[r].attempt \in {rows[r].attempt, rows[r].attempt + 1}
  \/ /\ ~HoldsAny(r) /\ HoldsAny(r)' /\ Cardinality(InFlight) < RunsAtOnce
     /\ rows'[r].attempt = rows[r].attempt

(* A run whose ledger entries keep their stage keeps its slot. *)
LEMMA SameStageSameSlot ==
  ASSUME NEW r \in Runs,
         \A a \in Attempts, kind \in Kinds :
           ledger'[<<r, a, kind>>].stage = ledger[<<r, a, kind>>].stage
  PROVE  HoldsAny(r)' <=> HoldsAny(r)
BY DEF HoldsAny, Held

(* A run holds one reservation at most: after any of them is dropped it    *)
(* holds what it held or nothing.                                          *)
LEMMA OneDropped ==
  ASSUME NEW r \in Runs, RunInv(r), NEW S, ledger' = Without(S)
  PROVE  (HoldsAny(r)' <=> HoldsAny(r)) \/ ~HoldsAny(r)'
<1>1. HoldsAny(r)' => HoldsAny(r)
  <2>1. ASSUME NEW a \in Attempts, NEW kind \in Kinds, Held(<<r, a, kind>>)'
        PROVE  Held(<<r, a, kind>>)
    BY <2>1, WithoutAt DEF Held, NoEntry
  <2> QED
    BY <2>1 DEF HoldsAny
<1> QED
  BY <1>1

(* A requeue moves to the next attempt without a slot. *)
LEMMA RequeueSlot ==
  ASSUME TypeOK, NEW r \in Runs, RunInv(r), NEW row, requeue(r, row),
         row.attempt = rows[r].attempt + 1
  PROVE  SlotStep(r)
<1> DEFINE S == reservedKeys(r, rows[r].attempt)
<1>1. ledger' = Without(S) /\ S = reservedKeys(r, rows[r].attempt)
  BY DEF requeue
<1> HIDE DEF S
<1>2. \A a \in Attempts, kind \in Kinds : ledger'[<<r, a, kind>>].stage = "none"
  BY <1>1, DropAll
<1>3. ~HoldsAny(r)'
  BY <1>2 DEF HoldsAny, Held
<1>4. rows'[r].attempt = rows[r].attempt + 1
  BY DEF requeue, TypeOK
<1> QED
  BY <1>3, <1>4 DEF SlotStep

(* Every step moves the slot of the run it is on as a pool of slots would. *)
LEMMA StepsMoveOneSlot ==
  ASSUME TypeOK, NEW r \in Runs, RunInv(r),
         \/ \E p \in Pollers : PollActs(p, r)
         \/ JobActs(r) \/ OwnerActs(r)
         \/ Enqueue(r) \/ StopRetried(r) \/ WindowPasses(r) \/ Sweep(r)
  PROVE  SlotStep(r)
<1>1. ASSUME rows'[r].attempt = rows[r].attempt,
             UNCHANGED ledger \/ \E S : ledger' = Without(S)
      PROVE  SlotStep(r)
  <2>1. CASE UNCHANGED ledger
    BY <1>1, <2>1, SameStageSameSlot DEF SlotStep
  <2>2. CASE \E S : ledger' = Without(S)
    BY <1>1, <2>2, OneDropped DEF SlotStep
  <2> QED
    BY <1>1, <2>1, <2>2
<1>2. rows[r] \in Row
  BY DEF TypeOK
<1>3. ASSUME NEW p \in Pollers, ClaimBooked(p, r)
      PROVE  SlotStep(r)
  <2> DEFINE key == reservationKey(r, rows[r].attempt, tasks[p][r].stage)
             kind == stageKey(tasks[p][r].stage)
  <2>1. ~HoldsAny(r)
    BY <1>3 DEF ClaimBooked, CandidateStates, RunInv
  <2>2. rows[r].attempt \in Attempts /\ kind \in Kinds /\ key = <<r, rows[r].attempt, kind>>
    BY <1>2 DEF Row, Kinds, stageKey, reservationKey
  <2>3. key \in Keys
    BY <2>2 DEF Keys
  <2>4. tasks[p][r].stage # "none"
    <3>1. TaskInv(tasks[p][r], r)
      BY DEF RunInv
    <3> QED
      BY <1>3, <3>1 DEF ClaimBooked, TaskInv
  <2>5. ledger'[key] = [stage |-> tasks[p][r].stage, stale |-> FALSE]
    BY <1>3, <2>3 DEF ClaimBooked, TypeOK
  <2>6. ledger'[<<r, rows[r].attempt, kind>>].stage # "none"
    BY <2>2, <2>4, <2>5
  <2> HIDE DEF kind
  <2>7. HoldsAny(r)'
    <3>1. \E a \in Attempts, j \in Kinds : ledger'[<<r, a, j>>].stage # "none"
      BY <2>2, <2>6
    <3> QED
      BY <3>1 DEF HoldsAny, Held
  <2>8. rows'[r].attempt = rows[r].attempt /\ Cardinality(InFlight) < RunsAtOnce
    BY <1>2, <1>3 DEF ClaimBooked, TypeOK, Row
  <2> QED
    BY <2>1, <2>7, <2>8 DEF SlotStep
<1>4. ASSUME NEW p \in Pollers, RequeueTransient(p, r)
      PROVE  SlotStep(r)
  <2>1. CASE UNCHANGED <<rows, ledger>>
    BY <1>1, <2>1
  <2>2. CASE ~UNCHANGED <<rows, ledger>>
    <3> DEFINE row == [Requeued(rows[r], requeueState(rows[r]), TRUE) EXCEPT !.requeues = @ + 1]
    <3>1. requeue(r, row)
      BY <1>4, <2>2 DEF RequeueTransient
    <3>2. row.attempt = rows[r].attempt + 1
      BY <1>2 DEF Requeued, Row
    <3> HIDE DEF row
    <3> QED
      BY <3>1, <3>2, RequeueSlot
  <2> QED
    BY <2>1, <2>2
<1>5. ASSUME NEW p \in Pollers, PollActs(p, r), ~ClaimBooked(p, r), ~RequeueTransient(p, r)
      PROVE  SlotStep(r)
  <2>1. rows'[r].attempt = rows[r].attempt
    <3>1. CASE Release(p, r)
      BY <1>2, <3>1 DEF Release, TypeOK, Row
    <3>2. CASE ClaimEnded(p, r)
      BY <1>2, <3>2 DEF ClaimEnded, TypeOK, Row
    <3>3. CASE Answer(p, r)
      <4> DEFINE row == [rows[r] EXCEPT !.state = "queued", !.replied = FALSE,
                                        !.claimedAt = FALSE, !.stale = FALSE]
      <4>1. UNCHANGED rows \/ rows' = [rows EXCEPT ![r] = row]
        BY <3>3 DEF Answer
      <4>2. row.attempt = rows[r].attempt
        BY <1>2 DEF Row
      <4> HIDE DEF row
      <4> QED
        BY <4>1, <4>2 DEF TypeOK
    <3>4. CASE StopWaiting(p, r)
      BY <1>2, <3>4 DEF StopWaiting, TypeOK, Row
    <3>5. CASE UNCHANGED rows
      BY <3>5
    <3> QED
      BY <1>5, <3>1, <3>2, <3>3, <3>4, <3>5 DEF PollActs, TryClaim, ClaimWithheld, Dispatched, DispatchFailed
  <2>2. UNCHANGED ledger \/ \E S : ledger' = Without(S)
    BY <1>5 DEF PollActs, TryClaim, ClaimWithheld, ClaimEnded, Dispatched, DispatchFailed,
       Release, Answer, StopWaiting
  <2> QED
    BY <1>1, <2>1, <2>2
<1>6. CASE JobActs(r)
  <2>1. ASSUME RequeueAfterConflict(r), ~UNCHANGED <<rows, ledger>>
        PROVE  SlotStep(r)
    <3> DEFINE row == Replanned(rows[r], TRUE)
    <3>1. requeue(r, row)
      BY <2>1 DEF RequeueAfterConflict
    <3>2. row.attempt = rows[r].attempt + 1
      BY <1>2, RequeuedFields
    <3> HIDE DEF row
    <3> QED
      BY <3>1, <3>2, RequeueSlot
  <2>2. CASE UNCHANGED <<rows, ledger>>
    BY <1>1, <2>2
  <2>3. CASE ~RequeueAfterConflict(r)
    <3>1. rows'[r].attempt = rows[r].attempt
      <4>1. CASE WritePlan(r) \/ SettlePlan(r)
        BY <1>2, <4>1 DEF WritePlan, SettlePlan, TypeOK, Row
      <4>2. CASE Stop(r)
        BY <1>2, <4>2 DEF Stop, TypeOK, Row
      <4>3. ASSUME NEW state, NEW provisional, settleDecision(r, state, provisional)
            PROVE  rows'[r].attempt = rows[r].attempt
        BY <1>2, <4>3 DEF settleDecision, TypeOK, Row
      <4>4. CASE PutRecord(r)
        BY <1>2, <4>4 DEF PutRecord, TypeOK, Row
      <4>5. CASE Settle(r) \/ JobLost(r)
        BY <4>5 DEF Settle, JobLost
      <4> QED
        BY <1>6, <2>3, <4>1, <4>2, <4>3, <4>4, <4>5 DEF JobActs, Suspend, TakeRecommendation
    <3>2. UNCHANGED ledger \/ \E S : ledger' = Without(S)
      BY <1>6, <2>3 DEF JobActs, WritePlan, SettlePlan, Stop, Suspend, TakeRecommendation,
         settleDecision, PutRecord, Settle, JobLost
    <3> QED
      BY <1>1, <3>1, <3>2
  <2> QED
    BY <2>1, <2>2, <2>3
<1>7. CASE OwnerActs(r)
  <2>1. CASE Requeue(r)
    <3> DEFINE row == Requeued(rows[r], requeueState(rows[r]), FALSE)
    <3>1. requeue(r, row) /\ row.attempt = rows[r].attempt + 1
      BY <1>2, <2>1, RequeuedFields DEF Requeue
    <3> HIDE DEF row
    <3> QED
      BY <3>1, RequeueSlot
  <2>2. CASE Supersede(r)
    <3> DEFINE row == [Replanned(rows[r], FALSE) EXCEPT !.provisional = FALSE]
    <3>1. requeue(r, row)
      BY <2>2 DEF Supersede
    <3>2. row.attempt = rows[r].attempt + 1
      BY <1>2 DEF Replanned, Requeued, Row
    <3> HIDE DEF row
    <3> QED
      BY <3>1, <3>2, RequeueSlot
  <2>3. CASE RetryWithNote(r)
    <3> DEFINE row == [Replanned(rows[r], TRUE) EXCEPT !.noted = TRUE]
    <3>1. requeue(r, row)
      BY <2>3 DEF RetryWithNote
    <3>2. row.attempt = rows[r].attempt + 1
      BY <1>2 DEF Replanned, Requeued, Row
    <3> HIDE DEF row
    <3> QED
      BY <3>1, <3>2, RequeueSlot
  <2>4. CASE RunByHand(r) \/ Reply(r) \/ ConfirmProvisional(r) \/ RecordCancel(r) \/ RecordMerge(r)
    <3>1. rows'[r].attempt = rows[r].attempt /\ UNCHANGED ledger
      BY <1>2, <2>4 DEF RunByHand, Reply, ConfirmProvisional, RecordCancel, RecordMerge, TypeOK, Row
    <3> QED
      BY <1>1, <3>1
  <2> QED
    BY <1>7, <2>1, <2>2, <2>3, <2>4 DEF OwnerActs
<1>8. CASE Enqueue(r) \/ StopRetried(r) \/ Sweep(r)
  <2>1. rows'[r].attempt = rows[r].attempt
    BY <1>2, <1>8 DEF Enqueue, StopRetried, Sweep, abandon, releaseIfSettled, TypeOK, Row
  <2>2. UNCHANGED ledger \/ \E S : ledger' = Without(S)
    BY <1>8 DEF Enqueue, StopRetried, Sweep, abandon, releaseIfSettled
  <2> QED
    BY <1>1, <2>1, <2>2
<1>9. CASE WindowPasses(r)
  <2>1. rows'[r].attempt = rows[r].attempt
    BY <1>2, <1>9 DEF WindowPasses, TypeOK, Row
  <2>2. \A a \in Attempts, kind \in Kinds :
          ledger'[<<r, a, kind>>].stage = ledger[<<r, a, kind>>].stage
    BY <1>9 DEF WindowPasses, TypeOK, Keys, Entry
  <2> QED
    BY <2>1, <2>2, SameStageSameSlot DEF SlotStep
<1> QED
  BY <1>3, <1>4, <1>5, <1>6, <1>7, <1>8, <1>9

(* The runs that hold a slot are no more than the claims the ledger counts. *)
LEMMA HoldersAreCounted ==
  ASSUME LedgerIsBounded
  PROVE  /\ IsFiniteSet(Holders)
         /\ Cardinality(Holders) \in Nat /\ Cardinality(InFlight) \in Nat
         /\ Cardinality(Holders) <= Cardinality(InFlight)
<1> DEFINE Counted == {k[1] : k \in InFlight}
           runOf   == [k \in InFlight |-> k[1]]
<1>1. Holders \subseteq Counted
  <2> SUFFICES ASSUME NEW r \in Runs, HoldsAny(r) PROVE r \in Counted
    BY DEF Holders
  <2>1. PICK a \in Attempts, kind \in Kinds : Held(<<r, a, kind>>)
    BY DEF HoldsAny
  <2>2. <<r, a, kind>> \in InFlight
    BY <2>1 DEF InFlight, Keys
  <2>3. <<r, a, kind>>[1] = r
    OBVIOUS
  <2> QED
    BY <2>2, <2>3
<1>2. IsFiniteSet(InFlight)
  BY DEF LedgerIsBounded
<1>3. runOf \in Surjection(InFlight, Counted)
  BY DEF Surjection
<1> HIDE DEF runOf, Counted
<1>4. IsFiniteSet(Counted) /\ Cardinality(Counted) <= Cardinality(InFlight)
  BY <1>2, <1>3, FS_Surjection
<1>5. IsFiniteSet(Holders) /\ Cardinality(Holders) <= Cardinality(Counted)
  BY <1>1, <1>4, FS_Subset
<1>6. Cardinality(InFlight) \in Nat /\ Cardinality(Counted) \in Nat /\ Cardinality(Holders) \in Nat
  BY <1>2, <1>4, <1>5, FS_CardinalityType
<1> QED
  BY <1>4, <1>5, <1>6

(* The queue implements the pool of slots of RunSlots, whatever the number *)
(* of runs, polls and attempts: every step takes one slot below the limit, *)
(* gives one back, begins an attempt without one, or moves none (TryClaim, *)
(* Release, settle, dropReservations, abandon).                            *)
THEOREM QueueImplementsSlots == Spec => OneSlotPerRun
<1>1. ASSUME Init PROVE Slots!Init
  <2>1. \A r \in Runs : ~HoldsAny(r) /\ rows[r].attempt = 0
    BY <1>1 DEF Init, HoldsAny, Held, NoEntry, NoRow, Keys
  <2> QED
    BY <2>1 DEF Slots!Init
<1>2. ASSUME IInv, LedgerIsBounded, [Next]_vars
      PROVE  [Slots!Next]_(Slots!slotVars)
  <2>1. TypeOK /\ \A r \in Runs : RunInv(r)
    BY <1>2, IInvByRun
  <2>2. ASSUME \A s \in Runs : /\ HoldsAny(s)' <=> HoldsAny(s)
                               /\ rows'[s].attempt = rows[s].attempt
        PROVE  UNCHANGED Slots!slotVars
    BY <2>2 DEF Slots!slotVars
  <2>3. ASSUME NEW r \in Runs, SlotStep(r),
               \A s \in Runs \ {r} : /\ HoldsAny(s)' <=> HoldsAny(s)
                                     /\ rows'[s].attempt = rows[s].attempt
        PROVE  [Slots!Next]_(Slots!slotVars)
    <3>1. CASE (HoldsAny(r)' <=> HoldsAny(r)) /\ rows'[r].attempt = rows[r].attempt
      BY <2>2, <2>3, <3>1
    <3>2. CASE ~HoldsAny(r)' /\ rows'[r].attempt = rows[r].attempt + 1
      <4>1. Slots!NextAttempt(r)
        BY <2>3, <3>2 DEF Slots!NextAttempt
      <4> QED
        BY <4>1 DEF Slots!Next
    <3>3. CASE HoldsAny(r) /\ ~HoldsAny(r)' /\ rows'[r].attempt = rows[r].attempt
      <4>1. Slots!GiveBack(r)
        BY <2>3, <3>3 DEF Slots!GiveBack
      <4> QED
        BY <4>1 DEF Slots!Next
    <3>4. CASE /\ ~HoldsAny(r) /\ HoldsAny(r)' /\ Cardinality(InFlight) < RunsAtOnce
               /\ rows'[r].attempt = rows[r].attempt
      <4>1. Cardinality(Holders) < RunsAtOnce
        BY <1>2, <3>4, HoldersAreCounted, ConstantsAssumption
      <4>2. Slots!Cardinality(Holders) = Cardinality(Holders)
        BY DEF Slots!Cardinality, Cardinality
      <4>3. Slots!Take(r)
        BY <2>3, <3>4, <4>1, <4>2 DEF Slots!Take, Holders
      <4> QED
        BY <4>3 DEF Slots!Next
    <3> QED
      BY <2>3, <3>1, <3>2, <3>3, <3>4 DEF SlotStep
  <2>4. ASSUME NEW r \in Runs,
               \/ \E p \in Pollers : PollActs(p, r)
               \/ JobActs(r) \/ OwnerActs(r)
               \/ Enqueue(r) \/ StopRetried(r) \/ WindowPasses(r) \/ Sweep(r)
        PROVE  [Slots!Next]_(Slots!slotVars)
    <3>1. ASSUME NEW s \in Runs, s # r
          PROVE  (HoldsAny(s)' <=> HoldsAny(s)) /\ rows'[s].attempt = rows[s].attempt
      <4>1. Quiet(s)
        BY <2>1, <2>4, <3>1, OthersQuiet
      <4> QED
        BY <4>1, SameStageSameSlot DEF Quiet
    <3>2. SlotStep(r)
      BY <2>1, <2>4, StepsMoveOneSlot
    <3> QED
      BY <2>3, <3>1, <3>2
  <2>5. ASSUME UNCHANGED <<rows, ledger>>
        PROVE  UNCHANGED Slots!slotVars
    BY <2>2, <2>5, SameStageSameSlot
  <2>6. ASSUME NEW p \in Pollers, PollLists(p) \/ PollEnds(p)
        PROVE  UNCHANGED <<rows, ledger>>
    BY <2>6 DEF PollLists, PollEnds, ListCandidates, ListTransientStops, ListWaiting
  <2>7. CASE UNCHANGED vars
    BY <2>5, <2>7 DEF vars
  <2> QED
    BY <1>2, <2>4, <2>5, <2>6, <2>7 DEF Next
<1> QED
  BY <1>1, <1>2, IInvHolds, LedgerStaysBounded, PTL DEF Spec, OneSlotPerRun, Slots!Spec
=============================================================================
