----------------------------- MODULE Admission ------------------------------
(***************************************************************************)
(* Which queued run a poll may start: the tickets a poll admits to the     *)
(* queue, the conditions and budget ceilings a claim is checked against,   *)
(* the reservations claims book and the spend that runs settle, which the  *)
(* next claims are checked against.                                        *)
(*                                                                         *)
(* A poll reads the breaker, the paused projects, the provider halts and   *)
(* the open pull requests once, lists its candidates, reads the settled    *)
(* history when the first of them reaches its ceilings, and claims one     *)
(* candidate after another.  A claim is one transaction over the row and   *)
(* the ledger; everything else it uses is as old as the poll.              *)
(*                                                                         *)
(* Left to RunQueue: dispatch, attempts as ledger keys, late record jobs,  *)
(* abandoned claims.  Here a run's attempts follow one another.            *)
(***************************************************************************)
EXTENDS Integers, Sequences, FiniteSets, FiniteSetsExt

CONSTANTS Runs, Pollers,
          Repo,          \* [Runs -> repositories]
          Private,       \* the runs whose repository is private
          Blocks,        \* pairs of runs: the first blocks the second
          Issues,        \* [Runs -> what its ticket may say: a size and models]
          Models,        \* model names; "none" when a ticket names none
          PlanOf,        \* [Models -> plans], runner.Provider
          FreeModels,    \* LastResortPlans
          BadModels,     \* model names that are not provider/model
          DefaultModel, DefaultReview, DefaultPlan,
          PlanBudgets,   \* the paid plans after the default model's
          UsablePlans,   \* plans with billing recorded, opted in where needed
          Windows,       \* [plans -> Seq([name, period, limit])]
          ModelCaps,     \* [a set of models -> [period, limit]]
          CashLimit, FreeMinutes, Rate, Month,
          N, PlatformCap, LargeCap, RepoCap, ReviewWIP, TwoStage,
          World,         \* what a poll may read of the world
          FileSets,      \* [Runs -> the write sets its plan may record]
          Spends,        \* what an attempt may cost: [cost, minutes]
          PlanEstimates, \* what past plan phases may average to
          MaxTime,
          MaxAttempt     \* [Runs -> how often each may be put back]

NoTime == -1
Plans  == {PlanOf[m] : m \in Models}

ASSUME AdmissionAssumption ==
  /\ DefaultModel \in Models /\ DefaultPlan \in Models /\ DefaultReview \subseteq Models
  /\ Windows \in [Plans -> Seq([name: STRING, period: Nat, limit: Nat])]
  /\ {CashLimit, FreeMinutes, Rate, N, PlatformCap, LargeCap, RepoCap, ReviewWIP} \subseteq Nat
  /\ Month \in Nat \ {0} /\ MaxTime \in Nat /\ MaxAttempt \in [Runs -> Nat]
  /\ \A s \in Spends \cup PlanEstimates : s.cost \in Nat /\ s.minutes \in Nat
  /\ IsFiniteSet(Runs) /\ PlanBudgets \subseteq Plans
  /\ \A plan \in Plans : \A i \in DOMAIN Windows[plan] : Windows[plan][i].name # "fits"

VARIABLES now,      \* the clock
          rows,     \* the run rows
          ledger,   \* each run's reservation
          polls,    \* what each poll has read
          paid      \* history: what each run's attempts have cost, less what
                    \* a requeue left behind

vars == <<now, rows, ledger, polls, paid>>

-----------------------------------------------------------------------------
(* Data *)

NoLabels == [build |-> "none", review |-> "none", plan |-> "none"]

(* A run row.  The settled fields are the record's, the plan fields what   *)
(* SettlePlan accumulates, the prior fields what requeues carry forward;   *)
(* billed is what the last record's durations come to, private or not.     *)
NoRow == [state |-> "absent", size |-> "S", labels |-> NoLabels, plan |-> "none",
          files |-> {}, ended |-> FALSE, retried |-> FALSE, attempt |-> 0,
          settledAt |-> NoTime, cost |-> 0, minutes |-> 0, billed |-> 0,
          planAt |-> NoTime, planCost |-> 0, planMinutes |-> 0,
          priorCost |-> 0, priorMinutes |-> 0]

NoEntry == [stage |-> "none", cost |-> 0, minutes |-> 0, size |-> "S", files |-> {}]

NotListed == [stage |-> "none"]
(* A poll admits the tickets Linear returns, which may be any of them, and *)
(* then walks its candidates: the retries whose models it could not check, *)
(* what it read of the world, the candidates it listed, the estimates it   *)
(* has asked for and its snapshot of the settled history.                  *)
NoHistory == [read |-> FALSE, rows |-> <<>>]
NewPoll   == [pc |-> "admit", unchecked |-> {}, world |-> {},
              cands |-> [r \in Runs |-> NotListed], estimates |-> <<>>, history |-> NoHistory]

Booked   == {r \in Runs : ledger[r].stage # "none"}

-----------------------------------------------------------------------------
(* Settled spend *)

(* Since: a rolling window looks back its period, a calendar one to the    *)
(* start of its month.                                                     *)
Since(period, at) == at - period
MonthStart(at)    == at - (at % Month)

(* A run settled before plans were recorded is on the default's plan. *)
onPlan(s, plan) ==
  \/ plan = "any"
  \/ s.plan = plan
  \/ s.plan = "none" /\ plan = PlanOf[DefaultModel]

(* The spend of history h since a time: what runs settled for, and the     *)
(* estimates their plan stages booked.                                     *)
settledSince(h, since, plan) ==
  {r \in DOMAIN h : h[r].settledAt # NoTime /\ h[r].settledAt >= since /\ onPlan(h[r], plan)}
planSince(h, since, plan) ==
  {r \in DOMAIN h : h[r].planAt # NoTime /\ h[r].planAt >= since /\ onPlan(h[r], plan)}
windowSpend(h, since, plan) ==
  SumFunction([r \in settledSince(h, since, plan) |-> h[r].cost])
    + SumFunction([r \in planSince(h, since, plan) |-> h[r].planCost])
minutesSince(h, since) ==
  SumFunction([r \in settledSince(h, since, "any") |-> h[r].minutes])
    + SumFunction([r \in planSince(h, since, "any") |-> h[r].planMinutes])

(* Sums: the settled spend a budget's ceilings measure for model's plan. *)
Sums(h, budget, model, at) ==
  [windows |-> [i \in DOMAIN budget.windows |->
                  windowSpend(h, Since(budget.windows[i].period, at), PlanOf[model])],
   modelCap |-> IF model \in budget.capped
                THEN windowSpend(h, Since(ModelCaps[model].period, at), PlanOf[model]) ELSE 0,
   cashCost |-> windowSpend(h, MonthStart(at), "any"),
   cashMinutes |-> minutesSince(h, MonthStart(at))]

(* historySince, SettledHistory: the rows settled or planned inside the    *)
(* widest window any budget reaches back over, by the fields ceilings sum. *)
historySince(at) ==
  Min({at, MonthStart(at)}
      \cup UNION {{Since(Windows[plan][i].period, at) : i \in DOMAIN Windows[plan]} : plan \in Plans}
      \cup {Since(ModelCaps[m].period, at) : m \in DOMAIN ModelCaps})
Settlement(row) == [plan |-> row.plan, settledAt |-> row.settledAt, cost |-> row.cost,
                    minutes |-> row.minutes, planAt |-> row.planAt,
                    planCost |-> row.planCost, planMinutes |-> row.planMinutes]
SettledHistory(since) ==
  [r \in {x \in Runs : \/ rows[x].settledAt # NoTime /\ rows[x].settledAt >= since
                       \/ rows[x].planAt # NoTime /\ rows[x].planAt >= since}
     |-> Settlement(rows[r])]

(* Estimates: the mean of the settled runs of a size, else the first run   *)
(* ever settled, else nothing.  The cost is the settled one, what was      *)
(* carried included, the minutes the last attempt's own.  The code looks   *)
(* at the latest 20 runs of a size; there are fewer here.                  *)
settledBySize(size) == {r \in Runs : rows[r].size = size /\ rows[r].settledAt # NoTime}
firstSettled ==
  LET all == {r \in Runs : rows[r].settledAt # NoTime}
  IN  IF all = {} THEN {}
      ELSE {CHOOSE r \in all : \A x \in all : rows[r].settledAt <= rows[x].settledAt}
Estimate(size) ==
  LET recs == IF settledBySize(size) # {} THEN settledBySize(size) ELSE firstSettled
      n == Cardinality(recs)
  IN  IF n = 0 THEN [cost |-> 0, minutes |-> 0]
      ELSE [cost |-> SumFunction([r \in recs |-> rows[r].cost]) \div n,
            minutes |-> SumFunction([r \in recs |-> rows[r].billed]) \div n]
(* EstimatePlan averages the plan phases inside past single-stage runs,    *)
(* which rows do not keep apart here: any of a set of estimates.           *)
EstimatePlan == PlanEstimates
(* estimateOf, planEstimateOf: a poll reads the estimate of a size once, a *)
(* whole run's first and then, for a plan stage, a plan phase's.           *)
estimatesOf(p, size, stage) ==
  LET run  == <<"run", size>>
      plan == <<"plan", size>>
      known == polls[p].estimates
      keys == DOMAIN known \cup {run} \cup (IF stage = "plan" THEN {plan} ELSE {})
  IN  {[k \in keys |-> IF k \in DOMAIN known THEN known[k] ELSE IF k = run THEN Estimate(size) ELSE e] :
         e \in EstimatePlan}
estimateFor(e, size, stage) == e[<<IF stage = "plan" THEN "plan" ELSE "run", size>>]

-----------------------------------------------------------------------------
(* The tier a claim is judged on *)

isFree(m) == m \in FreeModels
named(m, default) == IF m # "none" THEN {m} ELSE default

(* namedFree: every model the run will use is a free one. *)
namedFree(c) ==
  /\ c.labels.build # "none"
  /\ \A m \in {c.labels.build} \cup named(c.labels.review, DefaultReview)
                \cup (IF c.size = "S" THEN {} ELSE named(c.labels.plan, {DefaultPlan})) : isFree(m)
namedFreeModels(c) == {m \in {c.labels.build, c.labels.review, c.labels.plan} : m # "none" /\ isFree(m)}

budgetOf(plan) == [windows |-> Windows[plan], free |-> FALSE,
                   capped |-> {m \in DOMAIN ModelCaps : PlanOf[m] = plan}]
lastResort     == [windows |-> <<>>, free |-> TRUE, capped |-> {}]

(* tierOf: a free model takes the free tier; a build keeps the plan its    *)
(* plan stage put the run on; anything else is judged on the default plan. *)
defaultTier(c, stage) ==
  [budget |-> budgetOf(PlanOf[DefaultModel]), plan |-> PlanOf[DefaultModel],
   model |-> IF c.labels.build # "none" THEN c.labels.build ELSE DefaultModel]
tierOf(c, stage) ==
  IF namedFree(c)
  THEN [budget |-> lastResort, plan |-> PlanOf[c.labels.build], model |-> c.labels.build]
  ELSE IF stage = "build" /\ c.plan \in PlanBudgets
  THEN [budget |-> budgetOf(c.plan), plan |-> c.plan,
        model |-> IF c.labels.build # "none" THEN c.labels.build
                  ELSE CHOOSE m \in Models : PlanOf[m] = c.plan]
  ELSE defaultTier(c, stage)

claimStage(c) ==
  IF ~TwoStage THEN "single"
  ELSE IF c.stage = "build" THEN "build"
  ELSE IF c.size = "S" THEN "single" ELSE "plan"

-----------------------------------------------------------------------------
(* Admission *)

(* What a poll makes of what it read: a breaker, a set of pauses, a peak   *)
(* mode or an opt-in that cannot be read holds; an unread halt does not.   *)
breakerTripped(w)      == w.breaker # "no"
readPaused(w, repo)    == w.paused = "failed" \/ w.paused = repo
providerHalted(w, plan) == w.halted = plan
lookupPrivateOptIn(w)  == w.optIn = "yes"
PeakHeld(w, model)     == w.peak = model /\ w.mode # "always"
reviewWIPFor(w)        == w.prs

(* A plan stage writes nothing.  The variant compares whole write sets.    *)
SameWriteSet(f, c)     == f.stage # "plan" /\ c.stage # "plan" /\ f.files = c.files /\ c.files # {}
writeSetsOverlap(f, c) == f.stage # "plan" /\ c.stage # "plan" /\ f.files \cap c.files # {}

(* blocked: a blocker Linear holds open, or a blocking relation with a run *)
(* in flight in either direction.                                          *)
blocked(r, w) ==
  r \in w.blockedOpen \/ \E x \in Booked : <<x, r>> \in Blocks \/ <<r, x>> \in Blocks

countSize(size)      == Cardinality({x \in Booked : ledger[x].size = size})
inFlightInRepo(repo) == Cardinality({x \in Booked : Repo[x] = repo})

(* HeldBeforeBudget: the first condition that withholds run r, whose claim *)
(* at stage for model is c, or "none".                                     *)
HeldBeforeBudget(r, c, model, w) ==
  LET running == Cardinality(Booked) IN
  IF breakerTripped(w) THEN "circuit-breaker"
  ELSE IF readPaused(w, Repo[r]) /\ c.stage # "build" THEN "owner-paused"
  ELSE IF providerHalted(w, PlanOf[model]) THEN "provider-halted"
  ELSE IF PeakHeld(w, model) THEN "peak-hours"
  ELSE IF running >= PlatformCap THEN "platform-cap"
  ELSE IF running >= Max({N, 1}) THEN "concurrency-limit"
  ELSE IF c.size = "L" /\ countSize("L") >= LargeCap THEN "large-cap"
  ELSE IF inFlightInRepo(Repo[r]) >= RepoCap THEN "repo-cap"
  ELSE IF \E x \in Booked : Repo[x] = Repo[r] /\ writeSetsOverlap(ledger[x], c) THEN "repo-overlap"
  ELSE IF blocked(r, w) THEN "blocked"
  ELSE IF IF w.prsKnown THEN reviewWIPFor(w) >= ReviewWIP ELSE running > 0 THEN "review-wip"
  ELSE "none"

(* reservedTotals, and Decide: the first ceiling the estimate would        *)
(* breach, or "fits".  The variant forgets what is reserved.               *)
reservedCost    == SumFunction([r \in Runs |-> ledger[r].cost])
reservedMinutes == SumFunction([r \in Runs |-> ledger[r].minutes])
Ceiling(budget, model, cost, minutes, settled, est) ==
  LET breached == {i \in DOMAIN budget.windows :
                     cost + settled.windows[i] + est.cost > budget.windows[i].limit}
      over == IF est.minutes > 0
              THEN Max({0, minutes + settled.cashMinutes + est.minutes - FreeMinutes}) ELSE 0
      providerCash == IF budget.windows = <<>> /\ ~budget.free
                      THEN cost + settled.cashCost + est.cost ELSE 0
  IN  IF breached # {} THEN budget.windows[Min(breached)].name
      ELSE IF model \in budget.capped /\ cost + settled.modelCap + est.cost > ModelCaps[model].limit
           THEN "model-cap"
      ELSE IF over > 0 /\ Rate = 0 THEN "runner-minutes"
      ELSE IF providerCash + over * Rate > CashLimit THEN "cash" ELSE "fits"
DecideUnreserved(budget, model, settled, est) == Ceiling(budget, model, 0, 0, settled, est)
Decide(budget, model, settled, est) ==
  Ceiling(budget, model, reservedCost, reservedMinutes, settled, est)
Init ==
  /\ now = 0
  /\ rows = [r \in Runs |-> NoRow]
  /\ ledger = [r \in Runs |-> NoEntry]
  /\ polls = [p \in Pollers |-> NewPoll]
  /\ paid = [r \in Runs |-> 0]

-----------------------------------------------------------------------------
(* A poll admits the delegated tickets *)

CandidateStates == {"queued", "planned"}

(* malformedModel, planRefusal and checkModels: whether a ticket's models  *)
(* are well formed, name a reviewer other than the builder, and are on     *)
(* plans the owner has set up.  The variant compares only the two.         *)
malformedModel(l) == {l.build, l.review, l.plan} \cap BadModels # {}
planRefusal(m)    == m # "none" /\ PlanOf[m] \notin UsablePlans
buildModel(l)     == IF l.build # "none" THEN l.build ELSE DefaultModel
OtherReviewer(l) == buildModel(l) \notin named(l.review, DefaultReview)
checkModels(l) ==
  /\ ~malformedModel(l)
  /\ buildModel(l) \notin named(l.review, DefaultReview)
  /\ \A m \in {l.build, l.review, l.plan} : ~planRefusal(m)

(* A new ticket is queued once its models and its repository's visibility  *)
(* have been checked; one that is refused, or could not be checked, is not.*)
Enqueue(p, r, issue) ==
  /\ polls[p].pc = "admit" /\ rows[r].state = "absent"
  /\ \/ /\ checkModels(issue.labels)
        /\ rows' = [rows EXCEPT ![r] = [NoRow EXCEPT !.state = "queued", !.size = issue.size,
                                                     !.labels = issue.labels]]
     \/ UNCHANGED rows
  /\ UNCHANGED <<now, ledger, polls, paid>>

(* A queued ticket without a plan takes the issue's size; the models a     *)
(* retried run awaits its claim with are checked again, and a refusal ends *)
(* that attempt.                                                           *)
takesSize(row) == row.state = "queued" /\ row.files = {}
refreshedSize(row, issue) == IF takesSize(row) THEN issue.size ELSE row.size
RetryAwaitingClaim(row) == row.retried /\ row.state \in CandidateStates

RefreshQueuedTicket(p, r, issue) ==
  /\ polls[p].pc = "admit" /\ takesSize(rows[r]) /\ ~RetryAwaitingClaim(rows[r])
  /\ rows' = [rows EXCEPT ![r].size = issue.size]
  /\ UNCHANGED <<now, ledger, polls, paid>>
(* The three outcomes of refreshRetriedModels.  The size is refreshed just *)
(* before, in the same pass over the issue.                                *)
RefreshRetried(p, r, issue) ==
  /\ polls[p].pc = "admit" /\ RetryAwaitingClaim(rows[r])
  /\ LET row == [rows[r] EXCEPT !.size = refreshedSize(rows[r], issue)] IN
     \/ /\ checkModels(issue.labels)
        /\ rows' = [rows EXCEPT ![r] = [row EXCEPT !.labels = issue.labels]]
        /\ UNCHANGED polls
     \/ /\ ~checkModels(issue.labels)
        /\ rows' = [rows EXCEPT ![r] = [row EXCEPT !.state = "stopped", !.ended = TRUE]]
        /\ UNCHANGED polls
     \/ /\ rows' = [rows EXCEPT ![r] = row]   \* the plans could not be read
        /\ polls' = [polls EXCEPT ![p].unchecked = polls[p].unchecked \cup {r}]
  /\ UNCHANGED <<now, ledger, paid>>

-----------------------------------------------------------------------------
(* A poll walks its candidates *)

Candidate(r) == [stage |-> IF rows[r].state = "planned" THEN "build" ELSE "plan",
                 size |-> rows[r].size, labels |-> rows[r].labels, plan |-> rows[r].plan,
                 files |-> rows[r].files]

Waits(r) == rows[r].state \in CandidateStates
(* countOpenPRs, breakerTripped, readPaused, readPeakMode, Candidates: read *)
(* once, before the walk.                                                  *)
ListCandidates(p, w) ==
  /\ polls[p].pc = "admit" /\ \E r \in Runs : Waits(r)
  /\ polls' = [polls EXCEPT ![p] = [polls[p] EXCEPT
       !.pc = "walk", !.world = w,
       !.cands = [r \in Runs |-> IF Waits(r) THEN Candidate(r) ELSE NotListed]]]
  /\ UNCHANGED <<now, rows, ledger, paid>>

Listed(p, r)  == polls[p].pc = "walk" /\ polls[p].cands[r] # NotListed
(* The walk goes on with estimates e and history h; the poll ends with its *)
(* list.                                                                   *)
Walked(p, r, e, h) ==
  LET left == [polls[p].cands EXCEPT ![r] = NotListed]
  IN  [polls EXCEPT ![p] = IF \A x \in Runs : left[x] = NotListed THEN NewPoll
                           ELSE [polls[p] EXCEPT !.cands = left, !.estimates = e, !.history = h]]

(* The walk passes over a candidate before its claim: its retried models   *)
(* went unchecked, its estimate failed, or it is private and names a free  *)
(* model the owner has not opted private repositories in to.               *)
PassOver(p, r) == /\ Listed(p, r)
                  /\ polls' = Walked(p, r, polls[p].estimates, polls[p].history)
                  /\ UNCHANGED <<now, rows, ledger, paid>>
PassedOver(p, r) ==
  \/ r \in polls[p].unchecked
  \/ /\ r \in Private /\ namedFreeModels(polls[p].cands[r]) # {}
     /\ ~lookupPrivateOptIn(polls[p].world)

(* The reservation of a claim: a free run reserves no provider cost, a     *)
(* public one no runner minutes.                                           *)
reservation(r, t, est) == [cost |-> IF t.budget.free THEN 0 ELSE est.cost,
                           minutes |-> IF r \in Private THEN est.minutes ELSE 0]

(* settledFor: the poll's snapshot, taken when the first candidate reaches *)
(* its ceilings.                                                           *)
settledFor(p) == IF polls[p].history.read THEN polls[p].history
                 ELSE [read |-> TRUE, rows |-> SettledHistory(historySince(now))]

(* TryClaim: the row is read again and must still be claimable, its size   *)
(* and files as they are now; the rest is the candidate's, as listed.  A   *)
(* row that ended while it could be dispatched is one a manual dispatch's  *)
(* record reached, and RunQueue's: no row here ends unclaimed.             *)
TryClaim(p, r) ==
  /\ Listed(p, r) /\ ~PassedOver(p, r)
  /\ LET c     == polls[p].cands[r]
         stage == claimStage(c)
         t     == tierOf(c, stage)
         held  == HeldBeforeBudget(r, [stage |-> stage, size |-> rows[r].size, files |-> rows[r].files],
                                   t.model, polls[p].world)
         h     == settledFor(p)
     IN \E e \in estimatesOf(p, c.size, stage) :
        LET est == reservation(r, t, estimateFor(e, c.size, stage))
            why == Decide(t.budget, t.model, Sums(h.rows, t.budget, t.model, now), est)
        IN \/ /\ rows[r].state \notin CandidateStates \/ held # "none"
              /\ polls' = Walked(p, r, e, polls[p].history)
              /\ UNCHANGED <<rows, ledger>>
           \/ /\ rows[r].state \in CandidateStates /\ held = "none" /\ why # "fits"
              /\ polls' = Walked(p, r, e, h)
              /\ UNCHANGED <<rows, ledger>>
           \/ /\ rows[r].state \in CandidateStates /\ held = "none" /\ why = "fits"
              /\ polls' = Walked(p, r, e, h)
              /\ ledger' = [ledger EXCEPT ![r] = [stage |-> stage, cost |-> est.cost,
                   minutes |-> est.minutes, size |-> rows[r].size, files |-> c.files]]
              /\ rows' = [rows EXCEPT ![r] = [rows[r] EXCEPT !.state = "claimed",
                   !.plan = IF stage = "build" THEN rows[r].plan ELSE PlanOf[t.model]]]
  /\ UNCHANGED <<now, paid>>

PollEnds(p) ==
  /\ polls[p] # NewPoll
  /\ polls' = [polls EXCEPT ![p] = NewPoll]
  /\ UNCHANGED <<now, rows, ledger, paid>>

-----------------------------------------------------------------------------
(* Runs settle, and are put back *)

InFlight(r) == rows[r].state = "claimed" /\ ~rows[r].ended /\ r \in Booked

(* A dispatch GitHub refused gives the claim back. *)
Release(r) ==
  /\ InFlight(r)
  /\ rows' = [rows EXCEPT ![r].state = IF ledger[r].stage = "build" THEN "planned" ELSE "queued"]
  /\ ledger' = [ledger EXCEPT ![r] = NoEntry]
  /\ UNCHANGED <<now, polls, paid>>

(* The plan stage's reserved estimate is added to what the run's plans     *)
(* have cost, and the run waits for its build.                             *)
SettlePlan(r, files) ==
  /\ InFlight(r) /\ ledger[r].stage = "plan"
  /\ rows' = [rows EXCEPT ![r] = [rows[r] EXCEPT !.state = "planned", !.files = files, !.planAt = now,
                                                 !.planCost = rows[r].planCost + ledger[r].cost,
                                                 !.planMinutes = rows[r].planMinutes + ledger[r].minutes]]
  /\ ledger' = [ledger EXCEPT ![r] = NoEntry]
  /\ UNCHANGED <<now, polls, paid>>

(* Finalize's settlement: the attempt's own spend and what earlier         *)
(* attempts carried forward, stamped unless no agent ran and nothing was   *)
(* carried.  The variant drops what was carried.                           *)
OwnSpend(row, s, private) ==
  [row EXCEPT !.ended = TRUE, !.cost = s.cost, !.minutes = IF private THEN s.minutes ELSE 0,
              !.billed = s.minutes, !.settledAt = IF s.reached THEN now ELSE NoTime]
settlement(row, s, private) ==
  [row EXCEPT !.ended = TRUE,
              !.cost = s.cost + row.priorCost,
              !.minutes = (IF private THEN s.minutes ELSE 0) + row.priorMinutes,
              !.billed = s.minutes,
              !.settledAt = IF s.reached \/ row.priorCost > 0 \/ row.priorMinutes > 0
                            THEN now ELSE NoTime]
PutRecord(r, s) ==
  /\ InFlight(r) /\ ledger[r].stage # "plan"
  /\ rows' = [rows EXCEPT ![r] = settlement(rows[r], s, r \in Private)]
  /\ paid' = [paid EXCEPT ![r] = @ + s.cost]
  /\ UNCHANGED <<now, ledger, polls>>
Settle(r) ==
  /\ rows[r].ended /\ r \in Booked
  /\ ledger' = [ledger EXCEPT ![r] = NoEntry]
  /\ UNCHANGED <<now, rows, polls, paid>>

(* The requeues: a conflict and an owner's retry plan again and carry the  *)
(* settled spend forward, a transient fault and an operator's requeue keep *)
(* the plan and carry nothing: what earlier requeues carried is all that   *)
(* the next record adds.                                                   *)
supersedeUpdates(row)   == [row EXCEPT !.priorCost = row.cost, !.priorMinutes = row.minutes]
requeueState(row) == IF row.files # {} /\ row.planAt # NoTime THEN "planned" ELSE "queued"
Requeued(r, row) ==
  /\ rows[r].ended /\ rows[r].attempt < MaxAttempt[r]
  /\ rows' = [rows EXCEPT ![r] = [row EXCEPT !.ended = FALSE, !.attempt = row.attempt + 1]]
  /\ ledger' = [ledger EXCEPT ![r] = NoEntry]
  /\ paid' = [paid EXCEPT ![r] = row.priorCost]
  /\ UNCHANGED <<now, polls>>
RequeueAfterConflict(r) == Requeued(r, [supersedeUpdates(rows[r]) EXCEPT !.state = "queued"])
RetryWithNote(r) == Requeued(r, [supersedeUpdates(rows[r]) EXCEPT !.state = "queued", !.retried = TRUE])
RequeueTransient(r) == Requeued(r, [rows[r] EXCEPT !.state = requeueState(rows[r])])
Requeue(r) == Requeued(r, [rows[r] EXCEPT !.state = requeueState(rows[r]), !.retried = FALSE])

Tick == now < MaxTime /\ now' = now + 1 /\ UNCHANGED <<rows, ledger, polls, paid>>

Next ==
  \/ \E p \in Pollers : PollEnds(p) \/ \E w \in World : ListCandidates(p, w)
  \/ \E p \in Pollers, r \in Runs :
       \/ \E i \in Issues[r] : Enqueue(p, r, i) \/ RefreshQueuedTicket(p, r, i) \/ RefreshRetried(p, r, i)
       \/ PassOver(p, r) \/ TryClaim(p, r)
  \/ \E r \in Runs :
       \/ Release(r) \/ Settle(r)
       \/ \E f \in FileSets[r] : SettlePlan(r, f)
       \/ \E s \in Spends : PutRecord(r, s)
       \/ RequeueAfterConflict(r) \/ RetryWithNote(r) \/ RequeueTransient(r) \/ Requeue(r)
  \/ Tick

Spec == Init /\ [][Next]_vars

-----------------------------------------------------------------------------
(* Properties *)

Row == [state: {"absent", "queued", "planned", "claimed", "stopped"}, size: {"S", "M", "L"},
        labels: [{"build", "review", "plan"} -> Models \cup {"none"}],
        plan: Plans \cup {"none"}, files: SUBSET UNION UNION {FileSets[r] : r \in Runs}, ended: BOOLEAN, retried: BOOLEAN,
        attempt: Nat, settledAt: Int, cost: Nat, minutes: Nat, billed: Nat,
        planAt: Int, planCost: Nat, planMinutes: Nat, priorCost: Nat, priorMinutes: Nat]

(* Every row and entry has its type: a row never holds a malformed model,  *)
(* and one in flight has the plan its claim put it on (checkModels,        *)
(* TryClaim).                                                              *)
TypeOK ==
  /\ now \in 0..MaxTime
  /\ \A r \in Runs : rows[r] \in Row
  /\ \A r \in Runs : ledger[r].stage # "none" => rows[r].plan # "none" /\ ledger[r].cost \in Nat
  /\ \A r \in Runs : paid[r] \in Nat

Claims(p, r) == /\ Listed(p, r) /\ polls'[p].cands[r] = NotListed
                /\ r \notin Booked /\ ledger'[r].stage # "none"
Stale(p)     == /\ polls[p].history.read
                /\ polls[p].history.rows # SettledHistory(historySince(now))

(* What the ceilings of a claim's tier measure, once it is booked, against *)
(* all that has settled by now: the windows of its plan, the cap of its    *)
(* model, and the cash that a plan without windows and the private minutes *)
(* beyond the free ones cost, which need a rate.  A claim that books no    *)
(* minutes has no part in theirs.                                          *)
Overshoots(p, r) ==
  LET t     == tierOf(polls[p].cands[r], claimStage(polls[p].cands[r]))
      past  == SettledHistory(historySince(now))
      month == MonthStart(now)
      spent(period) == reservedCost' + windowSpend(past, Since(period, now), PlanOf[t.model])
      over  == IF ledger'[r].minutes > 0 THEN Max({0, reservedMinutes' + minutesSince(past, month) - FreeMinutes})
               ELSE 0
      cash  == IF t.budget.windows = <<>> /\ ~t.budget.free
               THEN reservedCost' + windowSpend(past, month, "any") ELSE 0
  IN \/ \E i \in DOMAIN t.budget.windows : spent(t.budget.windows[i].period) > t.budget.windows[i].limit
     \/ t.model \in t.budget.capped /\ spent(ModelCaps[t.model].period) > ModelCaps[t.model].limit
     \/ over > 0 /\ Rate = 0
     \/ cash + over * Rate > CashLimit

(* A claim that takes any ceiling past its limit, counting what is booked  *)
(* and what has settled by now, is one whose poll read its history before  *)
(* some of that settled: TryClaim sums the reservations in its own         *)
(* transaction, the settled spend once per poll (queue.go:1119).           *)
OvershootIsUnseen ==
  [][\A p \in Pollers, r \in Runs : Claims(p, r) /\ Overshoots(p, r) => Stale(p)]_vars

(* Two builds under way in one repository never write the same file, as    *)
(* the overlap condition of Admit promises (admit.go).  A claim is checked *)
(* with the files its row holds and booked with the ones its poll listed   *)
(* (queue.go:1060), so this is for polls that follow one another.          *)
WriteSetsDisjoint ==
  \A r, x \in Runs : r # x /\ Repo[r] = Repo[x] /\ {ledger[r].stage, ledger[x].stage} \cap {"none", "plan"} = {}
                      => rows[r].files \cap rows[x].files = {}

(* No claim passes a cap: those on runs at once, on large tickets and on a *)
(* repository's runs are counted in the ledger of the claim's own          *)
(* transaction (admit.go), where a run counts by the size it was booked    *)
(* with, whatever its ticket says by now.                                  *)
RunsAtOnce == Min({PlatformCap, Max({N, 1})})
CapsHold ==
  /\ Cardinality(Booked) <= RunsAtOnce
  /\ countSize("L") <= LargeCap
  /\ \A repo \in {Repo[r] : r \in Runs} : inFlightInRepo(repo) <= RepoCap

(* The claims as a pool of slots, RunSlots: whatever admission refuses and *)
(* whatever polls have read, a claim takes one slot below the limit, a run *)
(* that settles or is released gives it back once, and an attempt begins   *)
(* without one (TryClaim, Settle, Release, Requeued).                      *)
Slots == INSTANCE RunSlots WITH
  holding <- Booked, attempt <- [r \in Runs |-> rows[r].attempt], N <- RunsAtOnce
OneSlotPerClaim == Slots!Spec

(* What a run that ended has settled for is what its attempts cost, since  *)
(* it was last put back by a requeue that carries nothing (Finalize adds   *)
(* what RequeueAfterConflict and RetryWithNote carried; decision.go:69).   *)
CarriedSpendIsKept == \A r \in Runs : rows[r].ended /\ rows[r].state = "claimed" => rows[r].cost = paid[r]
=============================================================================
