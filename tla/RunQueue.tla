------------------------------ MODULE RunQueue ------------------------------
(***************************************************************************)
(* The queue of runs: the Firestore rows runs/<id>, the reservations of    *)
(* the dispatch/ledger document, the dispatcher's polls that list rows and *)
(* then act on them, the GitHub workflow runs those polls start, and the   *)
(* record jobs, sweeps and owner operations that write back.               *)
(*                                                                         *)
(* Every store transaction is one action.  What the code does in several   *)
(* writes is several actions: a poll lists rows and acts on each later, a  *)
(* record job writes the record and then settles the reservation.          *)
(***************************************************************************)
EXTENDS Integers, FiniteSets

CONSTANTS Runs,               \* run ids
          Pollers,            \* dispatcher polls that may overlap
          MaxAttempt,         \* bound: requeues of one run
          MaxTransient,       \* DefaultTransientRequeues
          MaxConflictRetries, \* maxRebaseConflictRetries
          RunsAtOnce,         \* the owner's N
          UnclearDispatch,    \* may GitHub take a dispatch whose call failed?
          MaxByHand           \* bound: what people do to the runs by hand

ASSUME ConstantsAssumption ==
  /\ MaxAttempt \in Nat /\ MaxTransient \in Nat /\ MaxConflictRetries \in Nat
  /\ RunsAtOnce \in Nat /\ MaxByHand \in Nat /\ UnclearDispatch \in BOOLEAN

VARIABLES rows,     \* the run rows
          ledger,   \* the ledger's reservations by key
          tasks,    \* what each poll still has to do, from what it listed
          running,  \* each run's GitHub concurrency group: the workflow run
          pending,  \* that runs, the one that waits for it, and the last
          last,     \* that ended
          byHand    \* how much people have done by hand so far

github == <<running, pending, last>>
vars == <<rows, ledger, tasks, running, pending, last, byHand>>

-----------------------------------------------------------------------------
(* Data *)

Attempts == 0..MaxAttempt
Stages   == {"plan", "build", "single"}
Kinds    == {"build", "plan"}

States   == {"absent", "queued", "planned", "claimed", "waiting", "stopped", "abandoned"}

(* candidateStates: the states a poll may claim from. *)
CandidateStates == {"queued", "planned"}

(* A row's outcome and stop reason, as the operations tell them apart. *)
Results == {"none", "pr-opened", "no-changes", "stopped"}

(* plan is the attempt whose plan stage wrote the row's plan_files, -1 for *)
(* none; replanFrom is a history field, the latest attempt whose requeue   *)
(* asked for the plan to be made again; replied is kept while a row waits. *)
Row == [state: States, attempt: Attempts, result: Results, transient: BOOLEAN,
        requeues: 0..MaxTransient, claimedAt: BOOLEAN, stale: BOOLEAN,
        plan: Attempts \cup {-1}, stamped: BOOLEAN, replanFrom: Attempts,
        replied: BOOLEAN, provisional: BOOLEAN, noted: BOOLEAN,
        cancelled: BOOLEAN, merged: BOOLEAN]

NoRow == [state |-> "absent", attempt |-> 0, result |-> "none", transient |-> FALSE,
          requeues |-> 0, claimedAt |-> FALSE, stale |-> FALSE,
          plan |-> -1, stamped |-> FALSE, replanFrom |-> 0,
          replied |-> FALSE, provisional |-> FALSE, noted |-> FALSE,
          cancelled |-> FALSE, merged |-> FALSE]

(* A reservation: the claim's stage and whether its window has passed. *)
Entry   == [stage: Stages \cup {"none"}, stale: BOOLEAN]
NoEntry == [stage |-> "none", stale |-> FALSE]

(* A workflow run: the attempt it was dispatched with (-1 by hand, with    *)
(* none), its stage and how far its record job has got.                    *)
Phases == {"none", "run", "written", "put", "putConflict", "conflict"}
Job    == [attempt: Attempts \cup {-1}, stage: Stages \cup {"none"}, phase: Phases]
ManualJob == [attempt |-> -1, stage |-> "single", phase |-> "run"]
NoJob  == [attempt |-> -1, stage |-> "none", phase |-> "none"]

(* What a poll has still to do for a run it listed. *)
TaskKinds == {"idle", "candidate", "dispatch", "release", "requeue", "answer", "stop"}
Task == [kind: TaskKinds, attempt: Attempts, stage: Stages \cup {"none"}]
Idle == [kind |-> "idle", attempt |-> 0, stage |-> "none"]

(* Ledger keys: single-stage and build claims share one key, stageKey. *)
Keys == Runs \X Attempts \X Kinds
stageKey(stage) == IF stage = "plan" THEN "plan" ELSE "build"
(* Fault variant of the key: the key every attempt booked before attempts  *)
(* were part of it.                                                        *)
KeyWithoutAttempt(r, a, stage) == <<r, 0, stageKey(stage)>>
reservationKey(r, a, stage)    == <<r, a, stageKey(stage)>>

Held(k) == ledger[k].stage # "none"

(* The keys run r holds at attempt a, and the first of them, build before  *)
(* plan.  The variants forget one of the two keys.                         *)
BuildKeyOnly(r, a) == {k \in {<<r, a, "build">>} : Held(k)}
reservedKeys(r, a) == {k \in {<<r, a, "build">>, <<r, a, "plan">>} : Held(k)}
PlanKeyOnly(r, a)  == <<r, a, "plan">>
reservation(r, a)  == IF Held(<<r, a, "build">>) THEN <<r, a, "build">> ELSE <<r, a, "plan">>

Without(S) == [k \in Keys |-> IF k \in S THEN NoEntry ELSE ledger[k]]

(* The claims that count; the variant counts builds alone. *)
BuildsInFlight == {k \in Keys : Held(k) /\ k[3] = "build"}
InFlight       == {k \in Keys : Held(k)}

hasEnded(row)  == row.result # "none"
(* The automatic requeues a run has left; the variant allows one too many. *)
TransientOneMore(row) == row.requeues <= MaxTransient
transientLeft(row)    == row.requeues < MaxTransient
requeueDue(row)       == row.transient /\ transientLeft(row)

(* A stop the owner may retry or cancel; the pr_url test is the result's. *)
stoppedRun(row) ==
  /\ \/ row.state = "claimed" /\ row.result = "stopped"
     \/ row.state = "stopped"
  /\ row.result # "no-changes"
  /\ ~row.merged
  /\ ~requeueDue(row)

(* One more intervention by the owner or an operator. *)
ByHand == byHand < MaxByHand /\ byHand' = byHand + 1

Init ==
  /\ rows = [r \in Runs |-> NoRow]
  /\ ledger = [k \in Keys |-> NoEntry]
  /\ tasks = [p \in Pollers |-> [r \in Runs |-> Idle]]
  /\ running = [r \in Runs |-> NoJob]
  /\ pending = [r \in Runs |-> NoJob]
  /\ last = [r \in Runs |-> NoJob]
  /\ byHand = 0

-----------------------------------------------------------------------------
(* The poll: admission, claims, dispatch *)

(* A delegated ticket's row is created once. *)
Enqueue(r) ==
  /\ rows[r].state = "absent"
  /\ rows' = [rows EXCEPT ![r] = [@ EXCEPT !.state = "queued"]]
  /\ UNCHANGED <<ledger, tasks, github, byHand>>

PollIdle(p) == \A r \in Runs : tasks[p][r] = Idle

(* Poll p has listed its work for each run; other polls go on with theirs. *)
PollListed(p, todo) ==
  tasks' = [tasks EXCEPT ![p] = todo]

(* The stage a claim dispatches with.  An unplanned row is plan-staged or,  *)
(* sized S, single-staged; a queued ticket's size label may still change.  *)
claimStage(row) == IF row.state = "planned" THEN {"build"} ELSE {"plan", "single"}

(* The rows listed are read once; each is tried later. *)
ListCandidates(p) ==
  LET listed == {r \in Runs : rows[r].state \in CandidateStates}
  IN /\ PollIdle(p)
     /\ listed # {}
     /\ \E stage \in [listed -> Stages] :
          /\ \A r \in listed : stage[r] \in claimStage(rows[r])
          /\ PollListed(p, [r \in Runs |->
               IF r \in listed
               THEN [kind |-> "candidate", attempt |-> rows[r].attempt, stage |-> stage[r]]
               ELSE Idle])
     /\ UNCHANGED <<rows, ledger, github, byHand>>

(* The row moved on, or an admission condition withheld the candidate. *)
ClaimWithheld(p, r) ==
  /\ tasks[p][r].kind = "candidate"
  /\ rows[r].state \in CandidateStates => ~hasEnded(rows[r])
  /\ tasks' = [tasks EXCEPT ![p][r] = Idle]
  /\ UNCHANGED <<rows, ledger, github, byHand>>

(* A dispatchable row that has already ended is settled, not claimed. *)
ClaimEnded(p, r) ==
  /\ tasks[p][r].kind = "candidate"
  /\ rows[r].state \in CandidateStates /\ hasEnded(rows[r])
  /\ rows' = [rows EXCEPT ![r] = [@ EXCEPT !.state = "claimed"]]
  /\ tasks' = [tasks EXCEPT ![p][r] = Idle]
  /\ UNCHANGED <<ledger, github, byHand>>

(* The reservation is booked under the row's attempt as the transaction    *)
(* reads it; the claim carries the attempt and stage the poll listed.      *)
ClaimBooked(p, r) ==
  LET task == tasks[p][r]
      key  == reservationKey(r, rows[r].attempt, task.stage)
  IN /\ task.kind = "candidate"
     /\ rows[r].state \in CandidateStates /\ ~hasEnded(rows[r])
     /\ Cardinality(InFlight) < RunsAtOnce
     /\ ledger' = [ledger EXCEPT ![key] = [stage |-> task.stage, stale |-> FALSE]]
     /\ rows' = [rows EXCEPT ![r] = [@ EXCEPT !.state = "claimed", !.claimedAt = TRUE,
                                              !.stale = FALSE]]
     /\ tasks' = [tasks EXCEPT ![p][r] = [task EXCEPT !.kind = "dispatch"]]
     /\ UNCHANGED <<github, byHand>>

TryClaim(p, r) == ClaimWithheld(p, r) \/ ClaimEnded(p, r) \/ ClaimBooked(p, r)

(* A concurrency group runs one workflow run and keeps one pending: a      *)
(* newer one takes the pending place and the older never runs.             *)
StartJob(r, job) ==
  /\ IF running[r] = NoJob
     THEN running' = [running EXCEPT ![r] = job] /\ UNCHANGED pending
     ELSE pending' = [pending EXCEPT ![r] = job] /\ UNCHANGED running
  /\ UNCHANGED last

JobOf(task) == [attempt |-> task.attempt, stage |-> task.stage, phase |-> "run"]

Dispatched(p, r) ==
  /\ tasks[p][r].kind = "dispatch"
  /\ StartJob(r, JobOf(tasks[p][r]))
  /\ tasks' = [tasks EXCEPT ![p][r] = Idle]
  /\ UNCHANGED <<rows, ledger, byHand>>

(* The call failed; GitHub may have taken the dispatch all the same. *)
DispatchFailed(p, r) ==
  /\ tasks[p][r].kind = "dispatch"
  /\ \/ UNCHANGED github
     \/ UnclearDispatch /\ StartJob(r, JobOf(tasks[p][r]))
  /\ tasks' = [tasks EXCEPT ![p][r] = [@ EXCEPT !.kind = "release"]]
  /\ UNCHANGED <<rows, ledger, byHand>>

(* The run returns to the queue, whatever its row says by now. *)
Release(p, r) ==
  LET key == reservation(r, rows[r].attempt)
  IN /\ tasks[p][r].kind = "release"
     /\ rows' = [rows EXCEPT ![r] = [@ EXCEPT
                  !.state = IF ledger[key].stage = "build" THEN "planned" ELSE "queued",
                  !.claimedAt = FALSE, !.stale = FALSE]]
     /\ ledger' = Without({key})
     /\ tasks' = [tasks EXCEPT ![p][r] = Idle]
     /\ UNCHANGED <<github, byHand>>

(* The poll's process dies or reaches its job timeout: what it listed is   *)
(* forgotten, what it claimed stays claimed.                               *)
PollEnds(p) ==
  /\ ~PollIdle(p)
  /\ PollListed(p, [r \in Runs |-> Idle])
  /\ UNCHANGED <<rows, ledger, github, byHand>>

-----------------------------------------------------------------------------
(* GitHub: the workflow run of a dispatch and its record job *)

Running(r, phase) == running[r].phase = phase
PlanStage(r)      == running[r].stage = "plan"

(* The running workflow run ends and the pending one starts.  The one that *)
(* ended is remembered while it may still be re-run by hand.               *)
JobEnds(r) ==
  /\ running' = [running EXCEPT ![r] = pending[r]]
  /\ pending' = [pending EXCEPT ![r] = NoJob]
  /\ last' = [last EXCEPT ![r] = IF byHand < MaxByHand
                                 THEN [running[r] EXCEPT !.phase = "run"] ELSE NoJob]

JobMoves(r, phase) ==
  /\ running' = [running EXCEPT ![r].phase = phase]
  /\ UNCHANGED <<pending, last>>

(* The plan stage recorded a plan: the row's plan fields, then the settle. *)
WritePlan(r) ==
  /\ Running(r, "run") /\ PlanStage(r)
  /\ rows' = [rows EXCEPT ![r] = [@ EXCEPT !.plan = running[r].attempt, !.stamped = TRUE]]
  /\ JobMoves(r, "written")
  /\ UNCHANGED <<ledger, tasks, byHand>>

SettlePlan(r) ==
  LET key == reservationKey(r, running[r].attempt, "plan")
  IN /\ Running(r, "written")
     /\ IF Held(key)
        THEN /\ ledger' = Without({key})
             /\ rows' = [rows EXCEPT ![r] = [@ EXCEPT !.state = "planned"]]
        ELSE UNCHANGED <<ledger, rows>>
     /\ JobEnds(r)
     /\ UNCHANGED <<tasks, byHand>>

(* The reservation a plan-stage write settles is the row's attempt's. *)
SettledStamp(r) == rows[r].stamped \/ reservedKeys(r, rows[r].attempt) # {}

(* The plan stage left nothing to record. *)
Stop(r) ==
  /\ Running(r, "run") /\ PlanStage(r)
  /\ rows' = [rows EXCEPT ![r] = [@ EXCEPT !.state = "stopped", !.result = "stopped",
                                           !.replied = FALSE, !.stamped = SettledStamp(r)]]
  /\ ledger' = Without({reservation(r, rows[r].attempt)})
  /\ JobEnds(r)
  /\ UNCHANGED <<tasks, byHand>>

(* The transaction Suspend and TakeRecommendation share. *)
settleDecision(r, state, provisional) ==
  /\ Running(r, "run") /\ PlanStage(r)
  /\ rows' = [rows EXCEPT ![r] = [@ EXCEPT
               !.state = state, !.provisional = rows[r].provisional \/ provisional,
               !.replied = FALSE, !.claimedAt = FALSE, !.stale = FALSE,
               !.stamped = SettledStamp(r)]]
  /\ ledger' = Without({reservation(r, rows[r].attempt)})
  /\ JobEnds(r)
  /\ UNCHANGED <<tasks, byHand>>

Suspend(r)            == settleDecision(r, "waiting", FALSE)
TakeRecommendation(r) == settleDecision(r, "queued", TRUE)

(* Finalize's first write: the record over whatever row is there.  The     *)
(* row's state, its cancel and its merge are kept.                         *)
PutRecord(r) ==
  /\ Running(r, "run") /\ ~PlanStage(r)
  /\ \E result \in Results \ {"none"}, transient \in BOOLEAN, phase \in {"put", "putConflict"} :
       /\ transient => result = "stopped"
       /\ phase = "putConflict" => result = "stopped"
       /\ rows' = [rows EXCEPT ![r] = [@ EXCEPT !.result = result, !.transient = transient]]
       /\ JobMoves(r, phase)
  /\ UNCHANGED <<ledger, tasks, byHand>>

(* Finalize's second write: the reservation of the attempt the job was     *)
(* dispatched with.                                                        *)
Settle(r) ==
  LET key == reservationKey(r, running[r].attempt, running[r].stage)
  IN /\ Running(r, "put") \/ Running(r, "putConflict")
     /\ ledger' = Without({key})
     /\ IF Running(r, "put") THEN JobEnds(r) ELSE JobMoves(r, "conflict")
     /\ UNCHANGED <<rows, tasks, byHand>>

(* The workflow run is lost or cancelled, in any phase. *)
JobLost(r) ==
  /\ running[r] # NoJob
  /\ JobEnds(r)
  /\ UNCHANGED <<rows, ledger, tasks, byHand>>

(* A workflow run re-run by hand, or dispatched by hand without a claim. *)
RunByHand(r) ==
  /\ ByHand
  /\ rows[r].state # "absent"
  /\ running[r] = NoJob
  /\ \E job \in {last[r], ManualJob} \ {NoJob} : running' = [running EXCEPT ![r] = job]
  /\ last' = [last EXCEPT ![r] = NoJob]
  /\ UNCHANGED <<rows, ledger, tasks, pending>>

-----------------------------------------------------------------------------
(* Requeues *)

requeueAllowed(row) ==
  \/ row.state \in CandidateStates \cup {"claimed"} /\ hasEnded(row)
  \/ row.state \in {"stopped", "abandoned"}

(* A settled plan sends the run to planned; the variant trusts the settle  *)
(* stamp alone, which a stopped plan stage writes too.                     *)
StampAlone(row)   == IF row.stamped THEN "planned" ELSE "queued"
requeueState(row) == IF row.plan # -1 /\ row.stamped THEN "planned" ELSE "queued"

(* The fields every requeue writes. *)
Requeued(row, state, keepNote) ==
  [row EXCEPT !.state = state, !.attempt = @ + 1, !.result = "none",
              !.transient = FALSE, !.claimedAt = FALSE, !.stale = FALSE,
              !.cancelled = FALSE, !.noted = IF keepNote THEN @ ELSE FALSE]

(* The requeues that ask for a new plan queue the row at its next attempt. *)
Replanned(row, keepNote) ==
  [Requeued(row, "queued", keepNote) EXCEPT !.replanFrom = row.attempt + 1]

(* The transaction every requeue shares: the row is put back as its next   *)
(* attempt and the reservations of the attempt that ended are dropped.     *)
requeue(r, row) ==
  /\ rows[r].attempt < MaxAttempt
  /\ rows' = [rows EXCEPT ![r] = row]
  /\ ledger' = Without(reservedKeys(r, rows[r].attempt))

(* runner requeue: the operator's own. *)
Requeue(r) ==
  /\ requeueAllowed(rows[r])
  /\ requeue(r, Requeued(rows[r], requeueState(rows[r]), FALSE))
  /\ UNCHANGED <<tasks, github, byHand>>

ListTransientStops(p) ==
  LET listed == {r \in Runs : requeueDue(rows[r]) /\ ~rows[r].cancelled}
  IN /\ PollIdle(p)
     /\ listed # {}
     /\ PollListed(p, [r \in Runs |->
          IF r \in listed THEN [Idle EXCEPT !.kind = "requeue"] ELSE Idle])
     /\ UNCHANGED <<rows, ledger, github, byHand>>

RequeueTransient(p, r) ==
  /\ tasks[p][r].kind = "requeue"
  /\ IF requeueAllowed(rows[r]) /\ transientLeft(rows[r])
     THEN requeue(r, [Requeued(rows[r], requeueState(rows[r]), TRUE)
                        EXCEPT !.requeues = @ + 1])
     ELSE UNCHANGED <<rows, ledger>>
  /\ tasks' = [tasks EXCEPT ![p][r] = Idle]
  /\ UNCHANGED <<github, byHand>>

(* The record job of a rebase conflict puts its run back by itself. *)
RequeueAfterConflict(r) ==
  /\ Running(r, "conflict")
  /\ IF /\ rows[r].state # "abandoned" /\ requeueAllowed(rows[r])
        /\ rows[r].attempt + 1 <= MaxConflictRetries
     THEN requeue(r, Replanned(rows[r], TRUE))
     ELSE UNCHANGED <<rows, ledger>>
  /\ JobEnds(r)
  /\ UNCHANGED <<tasks, byHand>>

(* The owner chose another option than the one auto-pilot took. *)
Supersede(r) ==
  /\ ByHand
  /\ rows[r].provisional
  /\ rows[r].state # "abandoned" /\ requeueAllowed(rows[r])
  /\ requeue(r, [Replanned(rows[r], FALSE) EXCEPT !.provisional = FALSE])
  /\ UNCHANGED <<tasks, github>>

(* The owner's retry from the surface, with a note. *)
RetryWithNote(r) ==
  /\ ByHand
  /\ ~rows[r].merged /\ ~rows[r].cancelled /\ rows[r].result # "no-changes"
  /\ rows[r].state # "abandoned" /\ requeueAllowed(rows[r])
  /\ requeue(r, [Replanned(rows[r], TRUE) EXCEPT !.noted = TRUE])
  /\ UNCHANGED <<tasks, github>>

(* A poll ends a retried attempt whose ticket names a model it cannot use. *)
StopRetried(r) ==
  /\ rows[r].noted /\ rows[r].state \in CandidateStates
  /\ rows' = [rows EXCEPT ![r] = [@ EXCEPT !.state = "stopped", !.result = "stopped"]]
  /\ UNCHANGED <<ledger, tasks, github, byHand>>

-----------------------------------------------------------------------------
(* Decisions and the owner *)

(* The owner's reply to the question a waiting run asked. *)
Reply(r) ==
  /\ rows[r].state = "waiting" /\ ~hasEnded(rows[r]) /\ ~rows[r].replied
  /\ rows' = [rows EXCEPT ![r] = [@ EXCEPT !.replied = TRUE]]
  /\ UNCHANGED <<ledger, tasks, github, byHand>>

(* decide: a replied run is answered, one past its deadline is stopped. *)
ListWaiting(p) ==
  LET waiting == {r \in Runs : rows[r].state = "waiting" /\ ~hasEnded(rows[r])}
  IN /\ PollIdle(p)
     /\ \E due \in SUBSET waiting \ {{}} :
          /\ \A r \in waiting : rows[r].replied => r \in due
          /\ PollListed(p, [r \in Runs |->
               IF r \in due
               THEN [Idle EXCEPT !.kind = IF rows[r].replied THEN "answer" ELSE "stop"]
               ELSE Idle])
     /\ UNCHANGED <<rows, ledger, github, byHand>>

Answer(p, r) ==
  /\ tasks[p][r].kind = "answer"
  /\ IF rows[r].state = "waiting" /\ ~hasEnded(rows[r])
     THEN rows' = [rows EXCEPT ![r] = [@ EXCEPT !.state = "queued", !.replied = FALSE,
                                              !.claimedAt = FALSE, !.stale = FALSE]]
     ELSE UNCHANGED rows
  /\ tasks' = [tasks EXCEPT ![p][r] = Idle]
  /\ UNCHANGED <<ledger, github, byHand>>

(* One blind update of the row, outside any transaction. *)
StopWaiting(p, r) ==
  /\ tasks[p][r].kind = "stop"
  /\ rows' = [rows EXCEPT ![r] = [@ EXCEPT !.state = "stopped", !.result = "stopped",
                                           !.replied = FALSE]]
  /\ tasks' = [tasks EXCEPT ![p][r] = Idle]
  /\ UNCHANGED <<ledger, github, byHand>>

ConfirmProvisional(r) ==
  /\ ByHand
  /\ rows[r].provisional
  /\ rows' = [rows EXCEPT ![r] = [@ EXCEPT !.provisional = FALSE]]
  /\ UNCHANGED <<ledger, tasks, github>>

RecordCancel(r) ==
  /\ ByHand
  /\ ~rows[r].merged /\ ~rows[r].cancelled
  /\ rows[r].result = "pr-opened" \/ stoppedRun(rows[r])
  /\ rows' = [rows EXCEPT ![r] = [@ EXCEPT !.cancelled = TRUE]]
  /\ UNCHANGED <<ledger, tasks, github>>

RecordMerge(r) ==
  /\ ByHand
  /\ rows[r].result = "pr-opened" /\ ~rows[r].cancelled /\ ~rows[r].merged
  /\ rows' = [rows EXCEPT ![r] = [@ EXCEPT !.merged = TRUE]]
  /\ UNCHANGED <<ledger, tasks, github>>

-----------------------------------------------------------------------------
(* The sweep *)

(* The claims of run r pass their abandon window.  The window outlasts the *)
(* poll's own timeout, so no poll still acts on what it read before it.    *)
WindowPasses(r) ==
  /\ \A p \in Pollers : tasks[p][r] = Idle
  /\ \/ rows[r].claimedAt /\ ~rows[r].stale
     \/ \E k \in InFlight : k[1] = r /\ ~ledger[k].stale
  /\ rows' = [rows EXCEPT ![r] = [@ EXCEPT !.stale = rows[r].claimedAt]]
  /\ ledger' = [k \in Keys |-> IF k[1] = r /\ Held(k)
                               THEN [ledger[k] EXCEPT !.stale = TRUE] ELSE ledger[k]]
  /\ UNCHANGED <<tasks, github, byHand>>

abandon(r) ==
  /\ rows[r].state = "claimed" /\ ~hasEnded(rows[r])
  /\ rows[r].claimedAt /\ rows[r].stale
  /\ rows' = [rows EXCEPT ![r] = [@ EXCEPT !.state = "abandoned"]]
  /\ ledger' = Without(reservedKeys(r, rows[r].attempt))
  /\ UNCHANGED <<tasks, github, byHand>>

(* The run of key k needs its reservation no more; the variant overlooks a *)
(* claimed row that has recorded its result.                               *)
NotClaimed(k) == rows[k[1]].state # "claimed"
Settled(k) ==
  \/ rows[k[1]].state # "claimed"
  \/ hasEnded(rows[k[1]])
  \/ k[2] < rows[k[1]].attempt

releaseIfSettled(k) ==
  /\ Held(k) /\ ledger[k].stale
  /\ Settled(k)
  /\ ledger' = Without({k})
  /\ UNCHANGED <<rows, tasks, github, byHand>>

-----------------------------------------------------------------------------

PollLists(p) == ListCandidates(p) \/ ListTransientStops(p) \/ ListWaiting(p)

PollActs(p, r) ==
  \/ TryClaim(p, r) \/ Dispatched(p, r) \/ DispatchFailed(p, r) \/ Release(p, r)
  \/ RequeueTransient(p, r) \/ Answer(p, r) \/ StopWaiting(p, r)

JobActs(r) ==
  \/ WritePlan(r) \/ SettlePlan(r) \/ Stop(r) \/ Suspend(r) \/ TakeRecommendation(r)
  \/ PutRecord(r) \/ Settle(r) \/ RequeueAfterConflict(r) \/ JobLost(r)

OwnerActs(r) ==
  \/ RunByHand(r) \/ Requeue(r) \/ Supersede(r) \/ RetryWithNote(r)
  \/ Reply(r) \/ ConfirmProvisional(r) \/ RecordCancel(r) \/ RecordMerge(r)

Sweep(r) == abandon(r) \/ \E k \in Keys : k[1] = r /\ releaseIfSettled(k)

Next ==
  \/ \E p \in Pollers : PollLists(p) \/ PollEnds(p) \/ \E r \in Runs : PollActs(p, r)
  \/ \E r \in Runs : \/ Enqueue(r) \/ JobActs(r) \/ OwnerActs(r) \/ StopRetried(r)
                     \/ WindowPasses(r) \/ Sweep(r)

Spec == Init /\ [][Next]_vars

-----------------------------------------------------------------------------
(* Invariants *)

(* The fields of the rows, the ledger, the polls and the workflow runs keep *)
(* their types, whatever order the writes land in.                          *)
TypeOK ==
  /\ rows \in [Runs -> Row]
  /\ ledger \in [Keys -> Entry]
  /\ tasks \in [Pollers -> [Runs -> Task]]
  /\ running \in [Runs -> Job]
  /\ pending \in [Runs -> Job]
  /\ last \in [Runs -> Job]
  /\ byHand \in 0..MaxByHand

HasPlan(r) == rows[r].plan # -1 /\ rows[r].stamped

HoldsAny(r) == \E a \in Attempts, kind \in Kinds : Held(<<r, a, kind>>)

(* No reservation outlives its attempt: each entry of the ledger is of the  *)
(* attempt its run's row is on (reservationKey, dropReservations).          *)
LedgerIsCurrent ==
  \A r \in Runs, a \in Attempts, kind \in Kinds :
    Held(<<r, a, kind>>) => a = rows[r].attempt

(* A run that a poll could claim, that waits on its owner or that was       *)
(* abandoned holds no reservation, and no run ever holds two: nothing a     *)
(* run is not using counts against the budget and the runs-at-once limit    *)
(* (TryClaim, Release, settle, settleDecision, abandon).                    *)
IdleHoldsNothing ==
  \A r \in Runs :
    /\ rows[r].state \notin {"claimed", "stopped"} => ~HoldsAny(r)
    /\ \A a, b \in Attempts, j, k \in Kinds :
         Held(<<r, a, j>>) /\ Held(<<r, b, k>>) => a = b /\ j = k

(* A claimed run that has recorded nothing is counted in the ledger and     *)
(* carries the claim time the sweep finds it by: no late settle, release or *)
(* sweep leaves a run in flight uncounted (TryClaim, Settle, SweepAbandoned). *)
LiveClaimIsCounted ==
  \A r \in Runs : rows[r].state = "claimed" /\ ~hasEnded(rows[r])
                    => HoldsAny(r) /\ rows[r].claimedAt

(* A planned row has a plan its build can read: the state never runs ahead  *)
(* of the plan's own fields (WritePlan before SettlePlan, requeueState).    *)
PlannedHasPlan ==
  \A r \in Runs : rows[r].state = "planned" => HasPlan(r)

(* No more runs are in flight than the owner lets run at once, however many *)
(* polls claim at the same time from the rows they listed (TryClaim, Admit). *)
RunsAtOnceHold ==
  Cardinality({r \in Runs : rows[r].state = "claimed" /\ ~hasEnded(rows[r])}) <= RunsAtOnce

(* The queue as a pool of slots, RunSlots: the runs the ledger counts hold  *)
(* one each and every run is on its row's attempt.                          *)
Slots == INSTANCE RunSlots WITH
           N <- RunsAtOnce,
           holding <- {r \in Runs : HoldsAny(r)},
           attempt <- [r \in Runs |-> rows[r].attempt]

(* A run takes one slot when a poll claims it, never a second, below the    *)
(* limit; it gives it back once, and begins its next attempt without one,   *)
(* whatever polls, late jobs, requeues and sweeps do in between (TryClaim,  *)
(* Release, settle, dropReservations, abandon).                             *)
OneSlotPerRun == Slots!Spec

(* What keeps those true.  Nothing carries an attempt its row has not  *)
(* reached; a job that has written its record on its own attempt's row has  *)
(* ended that row; and whatever is on its way to a build has a plan.        *)
NothingIsAhead ==
  \A r \in Runs :
    /\ running[r].attempt <= rows[r].attempt
    /\ pending[r].attempt <= rows[r].attempt
    /\ last[r].attempt <= rows[r].attempt
    /\ pending[r].phase \in {"none", "run"}
    /\ last[r].phase \in {"none", "run"}
    /\ \A p \in Pollers : tasks[p][r].attempt <= rows[r].attempt

RecordEndsItsRow ==
  \A r \in Runs :
    /\ running[r].phase \in {"put", "putConflict"}
    /\ running[r].attempt = rows[r].attempt
    => hasEnded(rows[r])

BuildsHavePlans ==
  \A r \in Runs :
    /\ running[r].phase = "written" => HasPlan(r) /\ PlanStage(r)
    /\ \A p \in Pollers : tasks[p][r].stage = "build" => HasPlan(r)
    /\ \A a \in Attempts, kind \in Kinds : ledger[<<r, a, kind>>].stage = "build" => HasPlan(r)
    /\ running[r].stage = "plan" => running[r].attempt # -1
    /\ pending[r].stage = "plan" => pending[r].attempt # -1
    /\ last[r].stage = "plan" => last[r].attempt # -1

CandidatesHaveStages ==
  \A r \in Runs, p \in Pollers : tasks[p][r].kind = "candidate" => tasks[p][r].stage # "none"

IInv == /\ TypeOK
        /\ LedgerIsCurrent /\ IdleHoldsNothing /\ LiveClaimIsCounted /\ PlannedHasPlan
        /\ NothingIsAhead /\ RecordEndsItsRow /\ BuildsHavePlans /\ CandidatesHaveStages

(* Action properties *)

JobSteps(r) == running'[r] # running[r]

(* "One attempt's settle never reaches another's entry": a record job that  *)
(* settles after its run has been put back as a later attempt moves neither *)
(* the reservations nor the row's state (Settle, SettlePlan).               *)
SettleStaysInItsAttempt ==
  [][\A r \in Runs :
       /\ running[r].phase \in {"written", "put", "putConflict"} /\ JobSteps(r)
       /\ running[r].attempt # rows[r].attempt
       => InFlight' = InFlight /\ rows'[r].state = rows[r].state]_vars

(* The same of the reservations and every write of a plan stage's record,   *)
(* as the comment on reservationKey says of every claim.                    *)
PlanStageStaysInItsAttempt ==
  [][\A r \in Runs :
       /\ PlanStage(r) /\ JobSteps(r)
       /\ running[r].attempt # rows[r].attempt
       => InFlight' = InFlight]_vars

(* A requeue that asks for a new plan is not followed by a build on an      *)
(* older plan: a planned row's plan is of the attempt that asked or later   *)
(* (Supersede, RetryWithNote, RequeueAfterConflict, requeueState).          *)
PlanIsFresh ==
  \A r \in Runs : rows[r].state = "planned" => rows[r].plan >= rows[r].replanFrom

(* "A cancelled run can be built again only by an operator's requeue."      *)
CancelStands ==
  [][\A r \in Runs : rows[r].cancelled /\ ~rows'[r].cancelled => Requeue(r)]_vars

(* The deadline ends a wait nobody answered: it never stops a run that an   *)
(* answer has already put back in the queue (StopWaiting, Answer).          *)
DeadlineEndsOnlyAWait ==
  [][\A p \in Pollers, r \in Runs :
       StopWaiting(p, r) => rows[r].state \in {"waiting", "stopped"}]_vars

(* A claim is dispatched with the attempt its reservation is booked under.  *)
ClaimCarriesItsAttempt ==
  [][\A p \in Pollers, r \in Runs :
       ClaimBooked(p, r) => tasks[p][r].attempt = rows[r].attempt]_vars

(* Fairness: Cloud Run ends every poll, time passes, and the scheduled poll *)
(* sweeps.  Nothing is assumed of GitHub, of the owner or of any one poll.  *)
Fairness ==
  /\ \A p \in Pollers : WF_vars(PollEnds(p))
  /\ \A r \in Runs : SF_vars(WindowPasses(r)) /\ WF_vars(Sweep(r))

FairSpec == Spec /\ Fairness

(* Every reservation is dropped in the end, whichever poll dies and         *)
(* whichever job is lost (SweepAbandoned, releaseIfSettled).                *)
ReservationsDrain == \A k \in Keys : Held(k) ~> ~Held(k)
=============================================================================
