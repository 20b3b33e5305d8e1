# A TLA+ model of forge-wingman

forge-wingman turns Linear tickets into pull requests. A dispatcher polls every
fifteen minutes, or when a webhook wakes it, picks tickets from a queue kept in
Firestore, and starts a GitHub Actions workflow for each; the workflow runs a
model, opens a pull request and writes back what happened. There is no message
broker and no lock service: the queue, the budget and every hand-over between
processes are fields of Firestore documents. This directory models those
hand-overs, from the ticket's delivery to the merge and its measurement, checks
them with TLC and proves with TLAPS, for every value of the constants, every safety
property the runs check.

## The system's parts

| Part | State it keeps | Operations | Talks to |
|---|---|---|---|
| Run queue (`internal/store/queue.go`, `sweep.go`, `retry.go`) | a row per run: state, attempt, outcome, plan, claim time, note, cancel | `Enqueue`, `TryClaim`, `Release`, `Stop`, `Settle`, the requeues, `SweepAbandoned` | every other part, through Firestore transactions |
| Reservation ledger (same files) | one document: a reservation per run, attempt and stage; runs at once | booked by a claim, dropped by settle, release, stop, requeue, sweep | admission reads it |
| Decisions (`store/decision.go`, `dispatcher/decision.go`) | on the row: the questions, their answers and replies, what is still to be posted or handled | `Suspend`, `TakeRecommendation`, `Reply`, `Posted`, `Answer`, `StopWaiting`, `PostedProvisional`, `ConfirmProvisional`, `Supersede`, `ClearProvisionalReply` | plan stage writes, owner replies in Linear, poll answers |
| Dispatcher poll (`dispatcher/dispatcher.go`, `sweep.go`, `transient.go`) | none between polls | list, claim, dispatch, release, requeue, sweep | Firestore, Linear, GitHub |
| Record jobs (`runner/record.go`, `cmd/runner`) | none | plan stage: write plan, settle; build: put record, settle, requeue a conflict | Firestore |
| GitHub Actions (`.github/workflows/run.yml`) | one running and one pending workflow run per run id | start, end, re-run | started by the poll or by hand |
| Owner surface (`cmd/surface`, `web`) | none | retry with a note, cancel, merge | Firestore, GitHub |
| Admission and budget (`dispatcher/admit.go`, `budget.go`) | none | decides whether a claim may be booked | inside `TryClaim` |
| Runs-at-once rule (`dispatcher/concurrency.go`, `store/concurrency.go`) | N, the recommendation and the marker of N's last change, in the ledger | adopt the owner's N; recommend as runs settle | ledger |
| Breaker and notices (`store/breaker.go`, `dispatcher/notice.go`) | notices owed, their lease | raise, claim, post, unclaim | Slack |
| Model job (`runner/build.go`, `loop.go`, `guards.go`, `plan_stage.go`, `summary.go`) | a worktree, the steps its agents recorded, the summary | plan, build, check, format, probe guards, review, fix, commit | agents, git, the completions bucket; hands its summary to the record job |
| Pull request delivery (`cmd/runner/pr_meta.go`, `pr_review.go`, `pr_evidence.go`) | the pull request, its label, reviews and screenshots, all on GitHub | pr-meta's verdict, open, label, review, request auto-merge, push screenshots | GitHub; the record job writes what pr-meta said |
| Merge measuring (`dispatcher/measure.go`, `store/rewrites.go`) | on the row: the measurement and the revert flag | list closed pull requests, record, flag a revert | GitHub, Firestore; the Autonomy page reads it |
| Autonomy page (`dispatcher/rewrite.go`, `cmd/surface/autonomy.go`) | the auto-merge switch | rates, series, splits, verdict | pr-meta reads the switch |
| Provider halts (`store/providers.go`) | per provider: consecutive stops, halt | count, reset, enable | record job writes, admission reads |
| Webhook (`internal/webhook`) | session markers; in memory the secret | verify, mark, bind, acknowledge, wake, reply, reprioritise | Linear, the dispatcher's job, the queue |
| Linear tokens (`linear/oauth.go`) | the token in hand and those minted | token, refresh, close | every Linear call |
| Plan records (`planrefresh`, `store/plans.go`) | dated facts; definition, verdict, consents | refresh, define, consent | four outside sources; admission reads |
| Provider configuration, pages, infrastructure | none that runs share | see `PROJECT.json` | |

### What is hard here

* Nothing serialises polls: the scheduler, the webhook and a re-run may overlap,
  and each acts on rows it listed earlier.
* A workflow run lives up to 160 minutes, so the row it was dispatched for may
  have been abandoned, requeued and claimed again when it writes back.
* A dispatch whose HTTP call failed may have been taken by GitHub all the same.
* A job records in two writes (`PutRecord`, then `Settle`; `WritePlan`, then
  `SettlePlan`) and may die between them.
* Some transactions check the row they write (`TryClaim`, `requeue`, `Answer`,
  `abandon`), some write whatever is there (`Release`, `Stop`, `StopWaiting`,
  `settleDecision`, `PutRecord`).
* Every reservation must be dropped exactly once: one kept too long shrinks the
  budget and the runs at once, one dropped early lets the dispatcher overspend.
* Inside a job, two time budgets, three orders of models, rebuilds, formatter
  passes and fix rounds nest; whether a pull request is ready is decided at the
  end of them, from what the last of them saw.
* The record job puts the row back whole, built on a read of some time ago, while
  the owner merges or cancels from the inbox and polls write checks and
  measurements on the same row.
* The budget adds reservations read in the claim's transaction to a history read
  once per poll; write sets are compared on one copy and booked from another.
* Between a review's read of a head and GitHub's merge anyone may push; runs race
  for one evidence branch; deliveries repeat, overtake each other and outlive the
  service that handles them; calls share a token that expires under all of them.

`PROJECT.json` lists these as hazards at their lines, with the properties that
would catch each. Those with none are where the code does go wrong (a note says how, and
the table of disagreements below under which configuration), so that no run can hold it to
the stronger statement.

## The modules

* `RunQueue` — rows, ledger, polls, workflow runs, record jobs, owner and sweep;
  `RunSlots` — the abstract specification it, and `Admission`, implement.
* `Admission` — which queued run may start: conditions, budgets, reserved and
  settled spend.
* `RunsAtOnce` — the owner's N, the claims under it and the rule's recommendation.
* `Decisions` — the questions of one run, the owner's replies and the polls that post
  and settle them.
* `Build` — one model job, from preflight to bundle.
* `PRMeta`, `Delivery`, `Evidence` — what pr-meta decides (operators only), the pull
  request up to its merge, the screenshots.
* `Owner` — one row between its record job, the owner, the polls and the breaker;
  `Providers` — the halts its record job counts towards.
* `Notices`, `Rewrites`, `Figures` — the notices polls post, the merges they
  measure, and the page drawn from these.
* `Webhook`, `Tokens`, `PlanFacts` — the services around the dispatcher.
* `MCRunQueue`, `MCAdmission`, `MCBuild`, `MCPollRules` (RunsAtOnce, Decisions),
  `MCPullRequest` (Delivery, Evidence, Owner, Providers), `MCPollPhases` (Notices,
  Rewrites, Figures) and `MCServices` (Webhook, Tokens, PlanFacts) — the instances for
  TLC. The last four hold several components that share no variable: the variable `part` picks one for
  the whole behaviour, so that no run multiplies their states.
* `RunQueueProofs`, `AdmissionProofs`, `PollRulesProofs` (RunsAtOnce, Decisions), `BuildProofs`,
  `PollPhasesProofs` (Notices, Rewrites, Figures), `PullRequestProofs` (Owner, Delivery,
  Evidence) and `ServicesProofs` (Tokens, PlanFacts, Webhook) — the theorems; `Aggregates` —
  lemmas about sums over finite sets and about putting a finite set in order, which
  `AdmissionProofs` and the proofs of `Figures` share; `Shapes` — one operator the
  invariants they rest on are stated with, the fields a record has.

`Delivery` and `Owner` both decide with `PRMeta`'s operators. Otherwise the
components meet at constants and free choices: a job of `Build` is what `RunQueue`
sees as a workflow run whose result `PutRecord`, `Stop` or `SettlePlan` writes;
`RunQueue` takes N as the constant `RunsAtOnce` and lets a claim be withheld for any
reason, of which `Admission` has the reasons; `RunsAtOnce` takes from the queue only
that a run is claimed, dropped or settled; `Decisions` has the row's questions in full
and its state in five values, where `RunQueue` has the state, the ledger and the jobs
in full and of the questions only whether one is open or taken; `Notices` lets a notice be raised at any
moment, and `Figures` lets any measurement come next.

### `RunQueue`: state

| Variable | Models |
|---|---|
| `rows` | the documents `runs/<id>`, by the fields the operations read or write. `state` has the code's constants and `absent` for a row not created yet. `result` is the pair outcome and stop reason, `none` exactly when `hasEnded` is false. `plan` is the attempt whose plan stage wrote `plan_files`; `stamped` is `plan_settled_at`; `transient` and `requeues` are the transient class and the number of automatic requeues; `stale` says the claim has outlived its window. `replanFrom` is a history field the code does not have |
| `ledger` | `dispatch/ledger.reservations`, by run, attempt and kind of stage (single and build claims share a key, `stageKey`) |
| `tasks` | what a poll has listed and not yet done for a run |
| `running`, `pending`, `last` | the run's GitHub concurrency group (`cancel-in-progress: false`): the workflow run that runs, with how far its record job has got, the one that waits, and the last that ended, which may be re-run |
| `byHand` | how many interventions by hand have been made (a bound) |

### `RunQueue`: actions

Each Firestore transaction, or single write, is one action named as in the code.
Between two of them anything else may happen.

* Poll: `ListCandidates`, `ListTransientStops` and `ListWaiting` read rows and fill
  `tasks`; `TryClaim` (`ClaimWithheld`, `ClaimEnded`, `ClaimBooked`),
  `Dispatched`, `DispatchFailed`, `Release`, `RequeueTransient`, `Answer` and
  `StopWaiting` act on them later; `PollEnds` is the poll dying or reaching its
  timeout at any point.
* Workflow run: `WritePlan` then `SettlePlan`; or `Stop`, `Suspend`,
  `TakeRecommendation`; or `PutRecord`, `Settle` and, for a rebase conflict,
  `RequeueAfterConflict`. `JobLost` ends it before or between these.
* Owner and operator: `RunByHand`, `Requeue`, `Supersede`, `RetryWithNote`,
  `Reply`, `ConfirmProvisional`, `RecordCancel`, `RecordMerge`.
* Time and the sweep: `WindowPasses`, `abandon`, `releaseIfSettled`.

Admission other than the runs-at-once limit is a nondeterministic refusal
(`ClaimWithheld`), so what is shown holds whatever the budget decides. The stage
of a claim from `queued` is either, since a ticket's size label may change until
it is claimed. `StopRetried` is taken in one step with the poll's look at it,
because its transaction reads the row again.

### `Notices`

`notices` are the documents `dispatch/notice-<id>`: their state and the age of
`claimed_at`. `polls` is how long each poll has run and `hold` what it knows of a
notice it claimed: claimed, taken by Slack, refused. `posts` and `unsure` are
history. `Claim` is one transaction over two limited queries: the pending ones
in document order, the stale ones in the order they were claimed, which the
model leaves open. `Post`, `PostFailed`, `Posted`, `Unclaim` and `SettleFailed` are
the steps of `postNotices` for one notice, in any order among the notices of a
poll, which covers the order of its loop; `PostFailed` also covers an answer lost
after Slack took the notice and a poster that would not open. `PollEnds` is a
poll's end, timeout or death at any point. Times are ages in ticks, capped past
the lease. The clock a claim is stamped with is read in the claim's own step.

`NoticesAssumption` has `JobTimeout < Lease`: the job's 600 seconds and the
lease's fifteen minutes, which the comment at `notice.go:18` asks for.

### `RunsAtOnce`

`n`, `rec` and `changedAfter` are the ledger's fields `n`, the three of the
recommendation, and `changed_after`; `claims` is what a reservation and its row
say of a claim (when, and as which of how many). `epoch` and `evidence` are
history. `Sign` is what one observation says, by the default ratios 5/4 and 3/2;
`NextConcurrency` and `Recommend` are the rule. `AdoptRunsAtOnce` is the poll's
adoption of the owner's N; `TryClaim` stamps the time its poll read, any time up
to now, so claims may be stamped out of order; `Drop` is every way a reservation
goes without the rule being asked; `Settle` asks it. The medians are any of a
set that reaches both ratios exactly and either side of them. The platform cap
and the tuning, which each claim writes to the ledger from the configuration,
are constants.

### `Decisions`

`decisions` is the row's list of questions: the answer, the session it was asked in,
when it was posted, the last reply and its time, whether auto-pilot took it
(`provisional`) and whether the owner confirmed that. `run` is the rest of the row that
matters here, with the two marks the polls query (`provisional_unposted`,
`provisional_replied`). `bound` is the session the ticket's last delegation marked.
`acts` is how far each poll has got with the run, with the copy it listed. Only the
order of times matters, so `time` counts the owner's replies: a post stamped with a
clock read before a reply is older than it. `quiet` says that the decision timeout has
passed since the last word; it is 24 hours by default, so no poll outlives it.

A poll goes through the three sections of `postDecisions`: `ListWaiting`, `ReadClock`
and `decide`'s cases (`Answer`; `FindSession`, `Elicit` and `PostedDecision`;
`RaiseWaiting` and `StopWaiting`; `NothingDue`); `ListUnposted`, `ElicitProvisional` and
`PostedProvisional`; `ListReplied` and `ConfirmProvisional`, `Supersede` or
`ClearProvisionalReply`. Each write is its own action and finds the decision it writes to
by its own rule, as the code does: the last unanswered, the first unposted, the listed
index. Linear may refuse any question; `CutOff` and `CallFails` are the poll's own
failures. `ReplyTo` is the owner's word in a session, dropped unless the question was
asked there. A run that is claimed takes auto-pilot's choice or waits, ends, or is
requeued.

### `Build`

`job` is what the job was started with: its stage, whether the ticket is small
or already planned, and whether agents run on the host or in a container. `pc` is
the step it is at; `call` the agent call under way (`agentCall`, with its place in
the order of models); `steps` the phase and round of every agent run that has a
step in the summary and so an object in the bucket; `loop` the locals of
`runCheckLoop` and `runReview`; `sum` the summary's phase, outcome, stop reason and
`Ready`, with the detail reduced to its kind and the published rows to how each
finding was left. `tree` holds what the commit would find, and as history whether
the checks passed on these very files, whether a clean review read them, and
whether a probe left a broken guard behind. `spent` counts from the start of the
stage that pays: the build stage until the first guard scan ends, then the
review's. Past a budget, how far past is not told apart, which also covers the
time an upload takes after its agent ended.

The phases are actions in the order of the code, and `Fail` says where a failure
leads: out of the plan; out of the build, or to `KeepWork` when it ran out of
time or progress; in the review, to a draft, unless a formatter left the diff.
`AgentAnswers`, `AgentMoves`, `AgentFails` and `UploadFails` are the outcomes of one
pass of `runAgentInOrder`'s loop. `Panic` may come anywhere in a build.
Agents, checks, git and uploads may do anything the code distinguishes. A plan
stage shares the actions and ends with its result. Left out: prompts, commit
messages, usage and progress, a report that fails, the numbers in the rows'
words, and a build without a formatter (its gates fail as any other does).

### `Admission`

`rows` and `ledger` are the fields of row and reservation that a claim reads: size
and model labels, planned files, the settled amounts with their times, what
requeues carried (`prior…`), and of a reservation its stage, cost, minutes, size
and files. `polls` is what each poll has read: the world (breaker, paused
repository, halted provider, peak mode, open pull requests, blocking tickets),
its candidates and, from the first one that reaches its ceilings, the settled
history. `paid` is history. A poll lists (`Enqueue`, `RefreshQueuedTicket`,
`RefreshRetried`, `ListCandidates`), passes over what it cannot start (`PassOver`) and
claims (`TryClaim`), whose transaction reads row and ledger again and decides
(`Decide`) with everything else as old as the poll. `Admit` is the conditions in
their order, `tierOf` the plan and budget a candidate is measured on, and the
ceilings are the windows, the per-model caps and cash. An estimate is the mean of what runs of a
size settled for and of the minutes their last attempts were billed; the code looks at the
latest twenty, which no instance reaches. Attempts follow one another
here; late jobs and keys are `RunQueue`'s, and so is a row that a manual dispatch's record
ended before it was claimed (`queue.go:989`).

### `PRMeta`, `Delivery` and `Evidence`

A case is all pr-meta reads, with which of the reads failed; the operators are the
functions of `pr_meta.go` on it. `Delivery` has the run's own jobs (`prMeta`,
`OpenPR`, `LabelPR`), the review workflow (`writePRReviewContext`, `runPRReview` over the
models in order, `prReviewPost`, `upsertComment`, `setStatus`, `RequestAutoMerge`) and,
external, GitHub's merge, the checks, people who push, close, reopen or mark ready,
and the workflow that withdraws a request after a push. The pull request is the run's own, so
`mergeReady`'s check of the branch's prefix always holds and is left out. `Evidence` has one branch
as the sequence of its commits and each pull request's job: `publishScreenshots`
reads and places the artifact, `evidenceTip` and `commitEvidence` are the read of the
tip and the move of the ref, which fails when the tip has moved.

### `Owner` and `Providers`

`row` is the run's row; `jobs` has for each attempt how far its pr, record and
later steps have got and what its record job had read (`seen`); `pulls` are the pull
requests on GitHub; `merging`, `retrying` and `checking` are the owner's requests and
the checks phase, each over several calls; `breaker` is the breaker's document. Times
are attempts. Any call may fail, `MaxFaults` of them counted; a notice's failure is
free. A requeue does not overtake a record job that is being rerun between its read
and its put (RunQueue has late jobs). `Providers` has each provider's document, the
runs in flight, and as history who lifted the last halt.

### `Rewrites` and `Figures`

`Rewrites` has each repository's merged pull requests in GitHub's order of update, the rows by what
names a pull request and what a poll writes on them, and each poll's place in its
listing. `RunForMerged` is the look-up by link, branch and number; `ReadRow`, `Record` and
`FlagReverted` are separate steps, and each may fail instead (`MeasureFails`, `FlagFails`):
the poll goes on with the next pull request and the next poll finds the one it left. `Figures` has the measured merges, newest first, and the
switch; everything the page prints is an operator over them, with exact fractions
for rates. A group of a split is the set of its merges' places in the list, so that two
merges of equal measure count twice; `Ranked` is the order of their rates. The page reads the
newest `MeasuredShown` merges, and its properties speak of those (`Shown`). A request's
repository is matched without regard to case, rows are grouped by their exact names; the
page of a repository therefore equals its line of the split only when the rows spell it
one way, which `FiguresAgree` has as a hypothesis.

### `Webhook`, `Tokens` and `PlanFacts`

`Webhook` follows each delivery through `ServeHTTP`: the secret read again while it has
no value (`Reload`), the signature and its age, the marker (`Mark`), binding,
acknowledgement and wake side by side (`ackAndWake`), the answer and `unmark`. Linear
sends again until a 200. `Restart` replaces the service at any point. Beside it the
poll lists the issue and refreshes the rank later. Each transaction and the wake may be
refused, or committed with the reply lost, which the handler answers 500: a marker written
so keeps the next delivery of its session from waking anything (`Mark`), a reply or a rank
is written again. `Tokens` has the webhook's and the
poll's source, calls made at once, expiry, and the end of each source: by `Close`, which
revokes what the source holds, or by `Killed`, since a process that is killed never runs its
deferred `RevokeAll`; `Started` is the next process, with a source that knows none of the
tokens before it. A mint (`mint`) is answered, refused, or done in a reply the client could
not read (its timeout, a broken body, one that does not decode): the source takes the last
two for a failure, and Linear has a token nobody will revoke. `unheard` and `orphaned` are
history variables that name the tokens lost in these two ways. `PlanFacts` has
the days' worlds, a refresh that reads any subset of the four sources and writes a
document later (one refresh of a plan a day), and the owner's commands.

## The runs

All but one run of the queue use one run id. The runs of the queue touch each
other only through the number of ledger entries, and a claim may be refused for
any reason anyway, so a second run id adds no behaviour to the first one's row,
entries or jobs; the theorems are for any set of runs. `queue_two` has two, for
the one property that relates them. `MaxAttempt` bounds the requeues of a run: two
are enough for a job of attempt 0 to meet a row that has been requeued, claimed
and requeued again. Model bounds never make a run pass vacuously: every action
fires in `queue_core` or, for a dispatch whose call failed and was taken all the
same, in `queue_drain`. Two polls with that and a requeue are beyond TLC's
five minutes; the theorems cover them. `CHECK_DEADLOCK FALSE` is set for the queue because
the system may rest: a run that opened its pull request and is merged has
nothing left to do; and for `poll_rules` because the clock of `RunsAtOnce` and the
owner's changes are bounded. The others that set it end as well: a merged pull request, a
settled run, an answered event, the last day. `poll_phases` never stops, and is
checked for deadlock.

The notices use two ids and a claim limit of one, so that a query's limit cuts
one off; a lease of 2 and a timeout of 1 tick, so that a claim goes stale while
another poll runs. The rule uses three runs, a cap of three, two stable runs for a
rise, medians 4 to 7, three changes of N and three clock readings: two claims
under one N stamped in the wrong order, and a third under the next. The decisions have
one poll after another, two questions of two options, two replies (an option, the other
one, or words), two sessions, one requeue and one fault: a second question while the
first one's reply is pending, a reply between a listing and its write, a run superseded.
The theorem is for any number of overlapping polls; `WaitsEnd` is for polls that follow
one another.

The merges measured are one of a run, its revert, and one of another repository
with the same number on a branch pushed by hand with the runner's prefix, under a
listing of two and two overlapping polls. The page has up to four merges of four
kinds (with and without agent or owner lines, uncounted, of an unknown size, of no
known repository, of one repository spelled in two ways) and shows three of them;
windows of two and one, a spread from two on, a series of one point: one merge more than
the page reads, and one window more than the series keeps.

Admission has two runs of one private repository, one of them put back once, five models on
three plans, windows that two and four runs fill, a cap of three on the default model,
three free minutes and no cash beyond them, and one poll after another over
three ticks; tickets may change size and labels until they are claimed. Each of these
ceilings is one a claim reaches: without it in `Decide` a claim overshoots. The pull
request has every case that makes the owner see it once, two review models, a push
after it opened; four artifacts (two viewports of a page, a folder's index beside a
file that is no shot, two shots for one cell, a single one) race for the branch with
two attempts; the row has two attempts
and one failed call; the providers three stops in a row, two runs in flight, four
claims. The services have two deliveries at once, each event sent at most twice, one
replacement, three edits; two calls of each source and three tokens (the one in hand,
its successor and the one a second mint would add); three days; three
definitions.

The job has two models for plan and build and one for the review (a second one's
rounds are `RoundsAreFresh`'s matter, below), two check passes (three in the code: the
third repeats the second), two fix rounds, a build budget of two ticks and a
review budget of one with a default agent timeout of two, so that an agent is cut
by its stage in both and a second model gets less time than the first; one guard
and one remark, each of which may be found, fixed, found again or appear late.
It ends, so deadlock is not checked.

| Run | Asks | Result |
|---|---|---|
| `queue_core` | every operation, two requeues, one automatic, one intervention by hand: do rows, ledger and jobs agree in every interleaving? | passes |
| `queue_two` | two runs, two overlapping polls, room for one: is the limit ever passed, does a stale listing leave an entry behind? | passes |
| `queue_drain` | is every reservation dropped in the end? | passes |
| `poll_phases` | overlapping polls, failures at every write: who holds a notice, when is it posted twice, is it posted in the end? Is a merge measured on its own run's row, does a revert end flagged, does the page agree with itself? | passes |
| `poll_rules` | does the recommendation say what the runs under this N said? Does the owner's last word settle what auto-pilot took, and does every wait end? | passes |
| `build_loop` | whatever agents, checks, git and uploads do: what may a job hand on, and does every ending make sense to the record job? | passes |
| `admission` | do claims keep write sets apart and their ceilings unpassed, and is no spend forgotten? | passes |
| `pull_request` | what may merge by itself, which screenshots stay, what becomes of the owner's marks, the checks and a systemic stop? | passes |
| `services` | is an answered delegation acted on, does a source forget a token, do facts and consents stay what they were, does the rank settle? | passes |
| `early_stop_unseen`, `halt_undone`, `wait_refused` | does the code do what a comment or a decision record says? | violated; see below |

### The properties

* `LedgerIsCurrent`: every entry is of the attempt its row is on.
* `IdleHoldsNothing`: a queued, planned, waiting or abandoned run holds nothing,
  and no run holds two entries. A `claimed` or `stopped` run may still hold one:
  that is the gap between `PutRecord` and `Settle`, and the job that died in it.
* `LiveClaimIsCounted`: a claimed run that has recorded nothing holds an entry
  and a claim time, so it is counted and the sweep can find it.
* `PlannedHasPlan`: a planned row has a plan and its settle stamp.
* `SettleStaysInItsAttempt`: a settle that arrives after a requeue changes nothing.
* `ReservationsDrain`: every entry is dropped in the end.
* `RunsAtOnceHold`: the ledger never books more than N runs, N being fixed (a
  poll may adopt a lower one; that stops no run, so the bound is then the
  higher).
* `OneHolder`: two polls never hold one notice. It is the lease outlasting the
  timeout that makes it true.
* `RepeatHasACause`: a second post has a lost mark or a lost answer behind it.
* `NoticesArePosted`: every notice raised is posted in the end.
* `OneSlotPerRun`: the queue implements `RunSlots`. A run takes one slot when it is
  claimed, below the limit, gives it back once, and begins its next attempt
  without one.
* `AdviceMatchesEvidence`: the recommendation, its count and its basis are what
  the runs settled since N was set amount to.
* `OldClaimsSayNothing`: a run claimed under an earlier N moves nothing when it
  settles.
* `LastWordSettles`: what auto-pilot took is confirmed, or its run superseded, only with
  the option the reply on the row names at that moment, however late the poll that
  listed an earlier reply comes.
* `WaitsEnd`: every wait ends with an answer or at its deadline, as long as Linear does
  not refuse a question for ever.

* `ReadyIsEarned`: a branch handed on as ready was built to the end, its files as
  they are passed the checks and were read by a clean review, no broken guard is
  among them and none is outside the plan.
* `EndingIsAccepted`: whatever fails, the phase, outcome and reason are in
  `buildEndings` and the step the record job asks for is there.
* `AgentFitsItsStage`: no agent has more time than its stage has left.
* `BuildRoundsAreFresh`, `RoundsAreBounded`: plan and build agents never run under
  a round already recorded, and the build agent runs at most once per model in
  each pass and fix round.
* `CorrectionKeepsItsModel`: the correction of a question goes first to the model
  whose session it continues.
* `RowsAccountForFindings`: the rows omit nothing the last re-check reported, and
  those of a ready pull request have nothing open.

* `WriteSetsDisjoint`: builds under way in one repository never write the same file
  (polls that follow one another; see below).
* `CarriedSpendIsKept`: what a run settled for is what its attempts cost, from the
  last requeue on that carries nothing.
* `OvershootIsUnseen`: a claim takes a window, its model's cap or the cash past the limit
  only if something settled after its poll had read the history.
* `AutoMergeIsEarned`: a merge is asked for only of a head a review found clean, of a
  run nothing of which the owner must see; GitHub merges that head, unless a later
  push had not been answered by its withdrawal yet.
* `ScreenshotsStay`: what a run pushed stays on the branch, whole.
* `MarksStand`: a merge or cancel goes only by a requeue (a cancel) or by a record job
  that had read the row before the mark.
* `ChecksAreOfThisPR`: the checks result is that of the pull request the row names.
* `SystemicStopTrips`: a systemic stop trips the breaker unless that very write failed.
* `MeasuredOnOwnRow`, `RevertsAreFlagged`: a row is measured and flagged only for its own
  run's pull request, and flagged for good once that was reverted.
* `FiguresAgree`, `GroupsAreSound`: the tile, the verdict, the series' last point, the newest
  merge's row and, under one spelling, a repository's page give one rate; every split accounts
  for every merge and line once; the median lies between the lowest and highest rate and
  no higher than the 90th percentile.
* `AnsweredSessionsWoke`: a delegation answered 200 started the dispatcher, but for a
  marker that outlived its delivery: written with its reply lost, not removed when the
  unmark failed too, left by a service replaced at work, or met before the failure.
* `RankSettles`: a waiting run's rank ends at its issue's priority.
* `TokensAreAccounted`: a token Linear accepts is held by the source that minted it, but for
  a revocation that failed, a mint whose reply was lost and a process that was killed: no
  refresh, failed mint, close or new source drops one that is held.
* `FactsAreWhatWasSaid`: each figure is what its source said on the date given for it.
* `ConsentIsForThisBilling`: no consent outlives the billing it was given for.

### Disagreements between the code and its documents

With a run of their own:

* `early_stop_unseen`: a claimed run that stops before an agent runs, for an identity, a ticket or a
  projection or with no summary, is recorded with a zero `settled_at` (`record.go:605`), on its
  first attempt already. `finishedClaim` (`stuck.go:97`) reads the claim's time as later
  than that, so it takes the run for one under way, and the inbox leaves it out
  (`inbox.go:49`: "or stopped with no automatic requeue due"). TLC's trace is the first attempt's:
  claimed at 1, settled at 0, nothing put back.
* `halt_undone`: a run claimed before a halt lifts it when it succeeds.
* `wait_refused`: after words that name no option the reply is newer than the post, and
  stays so while Linear refuses the question; `decide` asks again in every poll and never
  comes to its deadline (`decision.go:178`: "the deadline still stops the run, so nothing
  hangs silently").

Each of the following is a property in its module that TLC refutes within seconds
under the configuration named, with that property in place of the others:

| Property | Configuration | What happens |
|---|---|---|
| `PlanIsFresh` (RunQueue) | `RunQueueCore.cfg`, `MaxTransient = 0`, `MaxByHand = 0` | `requeueState` sends a row with `plan_files` and a settle stamp to `planned`; the requeues that ask for a new plan keep both. If the new plan stage stops, the operator's requeue builds on the old plan, though `queue.go:1495` has the run go "to queued, never to planned, so its plan stage runs again" |
| `PlanStageStaysInItsAttempt` (RunQueue) | the same, `MaxAttempt = 1` | `Stop` and `settleDecision` drop the reservation of the attempt the row is on, not of their own job's (`queue.go:176`: "one attempt's settle never reaches another's entry") |
| `CancelStands` (RunQueue) | `RunQueueCore.cfg`, `MaxAttempt = 1`, `MaxTransient = 0` | a cancel recorded between `PutRecord` and `RequeueAfterConflict` is cleared by the requeue (`queue.go:1633`), though ADR 0021, line 68, has a cancelled run built again only by "an operator's requeue" |
| `DeadlineEndsOnlyAWait` (RunQueue) | `RunQueueTwo.cfg`, `Runs = {r1}`, `MaxConflictRetries = 1` | `StopWaiting` does not look at the row it stops: a run answered by another poll is stopped (`decision.go:337`) |
| `ClaimCarriesItsAttempt` (RunQueue) | the same, `MaxAttempt = 1` | a claim is booked under the row's attempt and dispatched with the listed one (`dispatcher.go:101`) |
| `RoundsAreFresh` (Build) | `BuildLoop.cfg`, `ReviewModels = 2` | a re-check is numbered by the build's rounds, though the first pass may have used that number on a backup model; the bucket refuses its events and the finished review becomes a draft (`build.go:823`) |
| `WriteSetsDisjoint` (Admission) | `Admission.cfg`, `Pollers = {p, q}`, `Issues <- OneTicket`, `World <- CalmWorld`, `MaxTime = 1`, `SYMMETRY PollsAlike` | a claim is checked with its row's files and booked with its listing's (`dispatcher.go:792`, `queue.go:1054`): a poll that listed the run before its plan books it with none, and the next build may write the same files (`admit.go:203`) |
| `NewestReplyStands` (Webhook) | `Services.cfg`, `Parts = {"webhook"}` | a reply delivered again after a newer one overwrites it, since `Reply` stores what comes; `decision.go:202` and `handler.go:197` call a redelivery harmless |

None of those of the queue breaks the invariants above: a ledger entry lost to a late
plan stage goes with a row that the same write moved out of `claimed`.

Smaller ones, met while reading and left out of the runs:

* `Answer` is given neither the decision nor the reply its poll listed: a late poll's
  answer may land on a later question, or overlook a newer reply;
* `Posted` stamps with a clock read before the call: a reply that came between the call
  and the first stamp is dropped, since the question has no session yet, and a
  matching one may be overtaken by a question asked again;
* `PostedProvisional` stamps the first unposted decision: two overlapping polls that ask
  the same one stamp a second that was never asked;
* `ClearProvisionalReply` drops the run's mark for the last reply, and with it the mark of
  a reply to an earlier decision that was still to be handled (`store/decision.go:51`);
* a finding fixed in the first round and reported again by the last re-check keeps the
  row "fixed in round 1"; an agent on the host that commits its own work skips checks
  and review with a draft that does not say why;
* the plan stage is judged on the default plan's budget (`dispatcher.go:896`);
* `RequeueTransient` and `Requeue` carry no settled spend, though `record.go:235` speaks
  of what "the run's earlier attempts settled";
* a re-claim overwrites the peak of `ConcurrencyStats` (`holds.go:62`);
* `Planned()` skips rows with a `settled_at`, which requeues leave (`queue.go:599`);
* `Finalize` loses a merge or cancel recorded between its read and its put;
* `RateText` prints 0.0% for a window without lines (`auto_merge.go:56`), the page none;
* a failed `SetWaitReason` is only logged, confirming never clears the reason, and a
  requeue keeps it, the pull request's link and the owner's merge;
* the withdrawal of an auto-merge races the merge; `publishScreenshots` edits the body
  from a copy read before the push;
* a model first seen while the feed or the board is unread reads as unlisted;
* a harness opt-in is not withdrawn by a change of billing.

### Fairness

`FairSpec` assumes that a poll ends (Cloud Run's job timeout), that a claim's window
passes once no poll is still acting on the run (the windows are longer than any
poll), and that a sweep that has something to drop runs (the scheduler starts a
poll every fifteen minutes and each sweeps). It assumes nothing of GitHub, of
jobs, of the owner or of any one poll. `WindowPasses` needs strong fairness:
a poll that keeps listing the run disables it again and again, and time passes
regardless.

For the notices it assumes that time passes, that polls start (every fifteen
minutes) and end (the timeout), and that neither the claim nor, for a notice
that is claimed again and again by whichever polls, Slack and the write that marks
it fail for ever: a poll that finds Slack down unclaims its notices, so delivery
needs Slack to come back, and strong fairness of `Post` and `Posted` for each notice
says no more than that. `RewritesFair` assumes that a poll that started goes on, and
that none of the listing of a repository, the recording of a pull request and the flagging
of a reverted one, tried again and again, fails for ever. Since `poll_phases` holds several phases, the
two properties carry the fairness of their own phase as a hypothesis
(`NoticesArePosted`, `RevertsAreFlagged`). `WebhookFair` assumes the scheduled poll alone:
it lists and it refreshes; nothing is assumed of Linear's deliveries. `DecisionsFair`
assumes that time passes and that polls start and go on; they are cut off at most
`MaxFaults` times. `LinearTakes`, that a question asked again and again is taken in the
end, is a hypothesis of `WaitsEnd` alone; `wait_refused` does without it. Polls fail to
refresh at most `MaxPollFaults` times, which stands for their not failing for ever.

## The proofs

`RunQueueProofs` proves, for every set of runs and polls and every value of the
bounds (assumed naturals, `ConstantsAssumption`):

* `TypeCorrect`: `Spec => []TypeOK`;
* `LedgerStaysCurrent`, `IdleRunsHoldNothing`, `LiveClaimsAreCounted`,
  `PlannedRowsHavePlans`: the four invariants;
* `RunsAtOnceAreBounded`: the limit holds, from the guard of the claim and a count
  of the runs in the ledger that only a claim can raise, by one;
* `SettlesStayInTheirAttempt`: the action property, from them;
* `QueueImplementsSlots`: `Spec => OneSlotPerRun`, the queue implements `RunSlots`.

The four are not inductive. `IInv` adds what makes them so: nothing carries an
attempt its row has not reached (`NothingIsAhead`), so a requeued row's next
attempt has no job and no entry yet; a job that has put its record on its own
attempt's row has ended it (`RecordEndsItsRow`), so its settle cannot uncount a
live claim; every entry, task or job on its way to a build comes with a plan
(`BuildsHavePlans`), so `Release` may return it to `planned`; and a candidate has
a stage (`CandidatesHaveStages`). TLC checks `IInv` on the core instance too.

The argument is per run: `RunInv(r)` collects what `IInv` says of `r`, and a step
that acts on another run leaves `r` quiet (`OthersQuiet`, `QuietKeepsRunInv`). Then
there is one step per action, resting on a few shared cases: the action drops
every entry (`NoneHeldInv`), keeps row state and entries (`KeptInv`), or requeues
(`RequeueInv`).

The refinement maps `holding` to the runs with an entry in the ledger and `attempt` to
the rows' attempts. `StepsMoveOneSlot` goes through the actions: each leaves both
alone, or is one step of the pool. It needs `IInv`: that no run holds two entries, or
a drop of one key would not give the slot back; that an entry is of the row's
attempt, or a requeue, which drops the keys of that attempt, would leave one behind
(`RequeueSlot`); and that plan and build claims share a run's slot
(`SameStageSameSlot`). `HoldersAreCounted` turns the claim's guard on the ledger's
count into the pool's.

`AdmissionProofs` proves `SpendIsCarried`, `OvershootsAreUnseen`, `WritesAreDisjoint`,
`ClaimsAreCapped` and `ClaimsAreSlots` for any
runs, polls, plans, windows, caps and estimates (`AdmissionAssumption`: amounts are
naturals, a budgeted plan is the plan of some model, the runs are finitely many).

* `SpendIInv` says that a run that has not ended has cost what it carries and a ticket
  nobody admitted nothing (`RowPaid`), that what is booked is a claim
  (`BookedIsClaimed`), and that an entry given back is worth nothing (`EntryPaid`).
  `CarriedSpendIsKept` alone says nothing of a run that is under way, which is where the
  next record's sum comes from. Steps on a run change one row, one entry and one
  cost (`Effect`), so the invariant is kept once for all of them.
* `OvershootsAreUnseen` is the action property, of every ceiling `Decide` has: the windows,
  the model's cap, and the cash that a plan without windows and private minutes beyond
  the free ones cost, with or without a rate. Only `TryClaim` books (`ClaimsAreTried`), on a
  `fits` of `Decide`, which breaches none of them (`FitsIsWithin`); if the poll's history is
  what has settled by now, what is booked after the claim is what was booked plus the
  estimate (`ReservedGrows`, of cost and of minutes), so none is passed. That needs sums over
  the runs that do not depend on the order they are taken in (`Aggregates`, below). It also
  needs every estimate to be a natural: a mean of settled costs or minutes, of which there is
  a first one (`FirstSettledIsARun`), or one the poll read before (`PollsPaid`).
* `WritesAreDisjoint` has the hypothesis `OnePoll`, that polls follow one another: with two
  polls TLC has a counterexample (see the disagreements above). Then what is booked to write is
  what the row holds (`BookedAsHeld`), and what the poll has listed still waits with the
  files it was listed with (`ListedAsHeld`), so that the files the claim checked are the
  files it booked.
* `ClaimsAreCapped` (`CapsHold`) says that however many polls claim, and whatever each read
  of the world, the runs at once, the large ones and those of a repository stay within
  their caps; `ClaimsAreSlots` (`OneSlotPerClaim`) that the claims are `RunSlots`, the pool
  of slots `RunQueue` implements too, with the smaller of the platform's cap and the owner's
  N as its size. Every step is a claim or moves one run, whose entry stays or is dropped
  and whose next attempt begins only with the drop (`StepsMoveOneRun`); that a ticket starts
  on its first attempt needs `AbsentIsNew`. TLC checks both on the instance of `admission`
  as well; no run lists them.

`PollPhasesProofs` proves of the notices `TypeCorrect`, `ClaimsAreExclusive`, `RepeatsHaveCauses` and
`PostedNoticesReachedSlack` for any polls and notices, from
`JobTimeout < Lease`. The inductive invariant says that what a poll holds is
claimed and no older than the poll (`HoldIsYoung`), so it is not stale while the
poll lives; that only a claimed notice has an age (`ClaimsHaveAges`); and that a
post without a lost mark is either marked or in the hands of the poll that made
it (`PostIsAccounted`).

Of `RunsAtOnce`, `PollRulesProofs` proves `TypeCorrect`, `AdviceIsEarned` and `OldClaimsAreSilent`
for every cap, number of stable runs and set of medians, and any finite set of
runs. `RecommendIs` says what the rule returns for each sign, and the
invariants follow from it one action at a time. `OldClaimsAreSilent` rests on
`OldClaimsAreMarked`: the marker a change of N leaves is no earlier than any claim
then in flight (`MarkerIsLatest`).

Of `Decisions` it proves `DecisionsInvariant` (`Spec => []DecisionsIInv`) and from it
`LastWordDecides`, the action property `LastWordSettles`, for any polls, labels, sessions
and bounds (`DecisionsAssumption`). A poll settles by a copy, so the property rests on
what the copy still says: if the reply's time on the row is the copy's, the reply is the
copy's too, and while the decision is provisional its answer is the one copied
(`CopiesAgree`). That is kept because no reply on the row or in a copy is of the future
(`RepliesArePast`), so a new one has a time of its own, and because what auto-pilot took
has an answer (`TakenHasAnswer`), so that `Answer`, which writes the last unanswered one,
leaves it alone. In the code a reply's time is the webhook's clock at its delivery, which
the model reads in the reply's own step: two replies in one microsecond would share a
time, and deliveries that overtake each other are `Webhook`'s matter.

`BuildProofs` proves `TypeCorrect`, `ReadyBranchesEarnedIt`, `AgentsFitTheirStage`,
`BuildRoundsStayFresh` and `CorrectionsKeepTheirModel` for any numbers of models,
passes and fix rounds, any budgets and timeout and any findings, from
`BuildAssumption` (positive limits, guards apart from remarks). A job is one
sequence of steps, so the inductive invariant says what each step may rely on:

* `PhaseFits`: the summary's phase, the call's kind and the step agree, so the
  budget an agent is measured against is the one its deadline was cut from;
* `ReadyFits`: from the checks on, a step that no gate holds up has the checks'
  pass on the files as they are; a probe's leftover is only ever at the commit; and
  nothing is ready before the commit. `ReadyIsEarned` itself speaks only of the end;
* `RoundsFit`: what is recorded of a phase never passes the round the next agent
  counts on from. The review has no such bound, which is what `RoundsAreFresh` shows;
* `PlanFits`: in the plan's first order rounds and places coincide, which is why
  the place a correction starts at is the one that answered.

On top of it three more, each with an invariant of its own:

* `BuildRoundsAreBounded`: each check pass, and after them each fix round, counts on from what
  those before may have used, one round per model (`RoundsCounted`);
* `EndingsAreAccepted`: the summary names its phase before the phase can end the job, and
  nothing is built or kept without a build agent's step (`EndingFits`);
* `RowsAccount`: what a fix round left open the next one was given, and what the last one left
  open is among the findings the rows are drawn from (`RoundsChain`, `RowsFit`).

Of `Rewrites`, `PollPhasesProofs` proves `RowsMeasureTheirOwn`: whatever a row says names a pull
request names one of the run's own (`RowsNameOwn`), so the look-up by page, branch or
number, in whatever order it succeeds, ends at the run that opened the merge, and a
poll about to write is at that run's row (`PollsWriteOwn`), however many polls measure at
once. `RewritesAssumption` has what GitHub and the runner guarantee: a number names one
pull request of its repository, a run has one repository, and a branch carries its
run's id (the comment at `store/rewrites.go:61`).

Of `Figures`, `PollPhasesProofs` proves `PagesAgree` (`FiguresSpec => []FiguresAgree`) and
`GroupsSound` (`FiguresSpec => []GroupsAreSound`) for any merges, windows, bar and number
of merges shown, from `FiguresAssumption` (a trailing window is no longer than what the page
reads). The invariant both rest on is `FiguresTypeOK`, which says of each merge that the
owner's lines are those its commits are labelled with (`MergeLines`, kept because adding up
commits adds up the labels, `SumsOfLines`); the rest is about what the page computes from any
such list:

* that the page agrees: `WindowIs`, `SeriesIs`, `ShownIs` and `TrailingTileIs` say of the series, of
  the rows and of the tile which merges each pools, and they are the same; `VerdictIs` goes through
  the verdict's reasons, and finds the one that prints another figure;
* that groups are sound: the places of a split's groups are disjoint and cover the list
  (`GroupsAddUp`, from `SumOfParts` for lines and `SumOfOnes` for counts); the rates are the group's own
  in ascending order (`RankedIs`), so the median, a rate or the mean of two neighbours, lies
  between the first and the last (`MeanBetween`, `SpreadOfRates`); and a rate pooled over merges
  that are each at least a bound is at least that bound (`PooledBetween`, from `SumsCompare`). Rates are
  fractions, so these multiply out, by `TimesGrows` and `TimesCancels`.

`Aggregates` has what these and the budget need of sums and orders. The library adds over
a set by a recursive function; `SumPicked`, `SumType`, `SumsAgree` and `SumTakesOut` say what that
computes, `SumOfParts`, `SumOfOnes`, `SumOfThree` and `SumsCompare` follow, and `InOrderExists` and
`InOrderCovers` say that a finite set has an order by any measure, which lists each member
once. Each is proved by the absence of a smallest exception (`LeastNat`, `LeastSet`, from the
library's `WFMin`), since the induction rule itself takes an operator.

`PullRequestProofs` proves, for any number of attempts, faults, pushes, pull requests and
review models:

* `SystemicStopsTrip`: a record job past its trip has tripped the breaker or lost that write
  (`PastTrip`), kept by reruns and by the retries of the other writes;
* `MarksAreKept`: the action property, from which fields of the row each step may touch
  (`Only`);
* `ChecksFollowThePR`: `AttemptsInOrder`, one attempt's jobs are at work at a time, and
  `PullsAreOfJobs`, a pull request is named only once its job opened it and what a poll read
  of its checks stands. Without them a poll's late result could be of a pull request
  the row has left;
* `AutoMergesAreEarned`: the mark, from pr-meta to the label to the request, exists only for a run
  nothing of which the owner must see (`MarkIsEarned`), a clean verdict on its way to the request is
  of the head the review is pinned to (`VerdictIsOfHead`), and a request is of the head the pull
  request is at until a push whose withdrawal is still to come (`RequestIsOfHead`);
* `ScreenshotsAreKept`: a commit built on the tip as it is holds the whole tree and the new
  folder (`CommitIsOfTip`), and each folder is whole or not there (`FoldersAreWhole`).

`ServicesProofs` proves `NoTokenIsForgotten` (a call waits for a successor only of a token Linear
no longer accepts, `RefusedIsDead`; a source that has ended holds nothing and serves no call,
`ClosedIsQuiet`), `ConsentFollowsBilling`, `FactsWereSaid` (`FactsIInv`: a document, or
the reading on its way to one, says of each source what it said that day or what the
newest document before it said, which is why the newest is found by its date), and
`AnsweredDelegationsWoke` (`InPlace`, where a delivery stands decides what it may already have
done; `MarkersExplained`, a marker is held by a delivery at work, was left by a restart, or
its session woke the dispatcher). The last rests on Linear creating a session once,
however often it delivers that (`WebhookAssumption`).

Every one of these invariants was checked with TLC on the instance of its run before it
was proved: 538,947 states for `Admission`, 2,564,240 for `Build`, 28,990 for the notices, `Rewrites` and `Figures`, 1,195,468
for `Owner` with one requeue, 418,426 for `Delivery` with one push, 7,396 for `Evidence` and
1,047,465 for the three services.

Only model-checked, out of the prover's reach: `ReservationsDrain`, `NoticesArePosted`,
`RevertsAreFlagged`, `WaitsEnd` and `RankSettles`, which are liveness under fairness.

## Not modelled, and the plan

Done: every module above, and the proofs of every safety property the runs check. Left, most
important first:

1. An abstract specification of the budget, claims against a settled history, that
   `Admission` implements as it implements `RunSlots` of the runs at once.
2. More of the inductive invariants as theorems of their own where a reader would
   ask for them: that `Owner`'s attempts are in order, that a poll's listing stays what it
   was.
3. The stuck-run notices, the history of holds and the projects' names, each a phase
   of the poll that writes documents of its own.

Left out: the order of a poll's phases within one poll (each phase reads the store
again); request building, paging and parsing of what Linear, GitHub, the vendors'
pages and the configuration file say (no state; what they say is an input of the
models); prompts, texts and usage figures; the browser's pages, which print what the
store holds; infrastructure, the landing page, probes and tools.
