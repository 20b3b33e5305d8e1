------------------------------- MODULE Owner -------------------------------
(***************************************************************************)
(* One run's row between its record job and everyone else who writes it:   *)
(* the owner merging, cancelling and retrying from the inbox, the poll     *)
(* that settles the checks, the one that measures a merge, the one that    *)
(* finds the ticket closed.  The record job reads the row, rebuilds it and *)
(* puts it back whole; the owner's merge reads the row, then GitHub three  *)
(* times, then writes.                                                     *)
(*                                                                         *)
(* Times are attempts: a claim and the settlement of attempt n are at      *)
(* n + 1, and 0 is the zero time.  The ledger a record job settles, the    *)
(* notices' posting, the reruns of a job whose attempt has passed and the   *)
(* provider's own count are RunQueue's, Notices' and Providers'.           *)
(***************************************************************************)
EXTENDS PRMeta, Sequences

CONSTANTS MaxAttempt,     \* retries and requeues of the run
          MaxFaults,      \* calls of a job or a route that fail, a notice's apart
          OwnerCases,     \* what pr-meta may read of it
          Ends,           \* how a build may end
          CIEnds,         \* how a pull request's checks may end
          MaxRebaseConflictRetries, DefaultTransientRequeues

ASSUME OwnerAssumption ==
  /\ MaxAttempt \in Nat /\ MaxFaults \in Nat
  /\ Ends \subseteq {"built", "no changes", "exit", "outage", "allowance", "identity", "no summary"}

VARIABLES row,      \* the run's row in the store
          jobs,     \* the jobs of each attempt
          pulls,    \* the pull request of each attempt, on GitHub
          merging,  \* the owner's merge request
          retrying, \* the owner's retry request
          checking, \* the checks phase of a poll
          breaker,  \* never tripped, tripped or reset
          faults    \* calls that failed so far

ownerVars == <<row, jobs, pulls, merging, retrying, checking, breaker, faults>>

-----------------------------------------------------------------------------
(* State *)

OwnerAttempts == 0..MaxAttempt
NoPR == -1

NewOwnerRow ==
  [state |-> "claimed", attempt |-> 0, claimed |-> 1, settled |-> 0, prior |-> FALSE,
   outcome |-> "", stop |-> "", transient |-> FALSE, requeues |-> 0, conflicts |-> 0,
   pr |-> NoPR, supersedes |-> NoPR, branches |-> {}, wait |-> "", auto |-> FALSE,
   merged |-> FALSE, measured |-> FALSE, cancelled |-> FALSE, closed |-> FALSE,
   checks |-> "", checksOf |-> NoPR]
(* What a put carries over from the row it was built on.                   *)
Marks(r) == [merged |-> r.merged, cancelled |-> r.cancelled, wait |-> r.wait, prior |-> r.prior, branches |-> r.branches]
NoMarks == Marks(NewOwnerRow)
NewJob == [pc |-> "waiting", end |-> "", pr |-> "", draft |-> FALSE, eligible |-> FALSE,
           seen |-> NoMarks, stop |-> "", ok |-> TRUE, lost |-> FALSE, reruns |-> 0]
NoPullYet == [state |-> "none", draft |-> FALSE, ci |-> "pending"]
NoMerge == [pc |-> "idle", pr |-> NoPR, barred |-> FALSE]
NoRetry == [pc |-> "idle", pr |-> NoPR, attempt |-> 0]
NoPollStep == [pc |-> "idle", pr |-> NoPR, result |-> ""]

OwnerInit ==
  /\ row = NewOwnerRow
  /\ jobs = [a \in OwnerAttempts |-> IF a = 0 THEN [NewJob EXCEPT !.pc = "build"] ELSE NewJob]
  /\ pulls = [a \in OwnerAttempts |-> NoPullYet]
  /\ merging = NoMerge
  /\ retrying = NoRetry
  /\ checking = NoPollStep
  /\ breaker = "never"
  /\ faults = 0

(* One more failed call, while the bound lasts.                            *)
Fault(fails) == faults' = faults + (IF fails THEN 1 ELSE 0) /\ faults' <= MaxFaults

-----------------------------------------------------------------------------
(* Reading a row *)

mergedRow(r) == r.measured \/ r.merged
noPROutcomes == {"built", "no-changes", "stopped", "agent-failed", "infra-failure", "budget-stop"}
(* A claim made after it settled is a later attempt still running.         *)
finishedClaim(r) ==
  /\ r.state = "claimed" /\ r.pr = NoPR /\ r.outcome \in noPROutcomes
  /\ r.claimed <= r.settled
requeueDue(r) == r.transient /\ r.requeues < DefaultTransientRequeues
(* A row in the state stopped, a plan or a cancelled wait that ended, counts *)
(* as stopped too; this run is built whole, and no write here makes it one.  *)
stoppedRun(r) == finishedClaim(r) /\ r.outcome # "no-changes" /\ ~mergedRow(r) /\ ~requeueDue(r)
inboxRun(r) ==
  /\ ~r.cancelled /\ ~r.closed
  /\ \/ stoppedRun(r)
     \/ r.pr # NoPR /\ r.outcome = "pr-opened" /\ ~mergedRow(r) /\ (r.wait # "" \/ ~r.auto)
hasEnded(r) == r.outcome # "" \/ r.stop # ""

-----------------------------------------------------------------------------
(* The run's jobs *)

(* How a build ends: what its summary makes of the row, and whether an     *)
(* agent ran, which is when there is a cost to settle.                     *)
Ending(end) ==
  CASE end = "built"      -> [outcome |-> "pr-opened", stop |-> "", steps |-> TRUE]
    [] end = "no changes" -> [outcome |-> "no-changes", stop |-> "", steps |-> TRUE]
    [] end = "exit"       -> [outcome |-> "agent-failed", stop |-> "agent-exit", steps |-> TRUE]
    [] end = "outage"     -> [outcome |-> "infra-failure", stop |-> "model-unavailable", steps |-> TRUE]
    [] end = "allowance"  -> [outcome |-> "budget-stop", stop |-> "allowance-exhausted", steps |-> TRUE]
    [] end = "identity"   -> [outcome |-> "stopped", stop |-> "identity-mismatch", steps |-> FALSE]
    [] end = "no summary" -> [outcome |-> "infra-failure", stop |-> "no-build-record", steps |-> FALSE]
BuildEnds(a, end) ==
  /\ jobs[a].pc = "build"
  /\ jobs' = [jobs EXCEPT ![a].end = end, ![a].pc = IF end = "built" THEN "meta" ELSE "read"]
  /\ UNCHANGED <<row, pulls, merging, retrying, checking, breaker, faults>>

(* Only why the PR waits is written to the row, and a write that fails is  *)
(* only logged.                                                            *)
SetWaitReason(a, m, fails) ==
  /\ jobs[a].pc = "meta"
  /\ row' = IF fails THEN row ELSE [row EXCEPT !.wait = waitReason(m)]
  /\ jobs' = [jobs EXCEPT ![a].pc = "pr", ![a].draft = draftPR(m), ![a].eligible = autoMerge(TRUE, m)]
  /\ Fault(fails)
  /\ UNCHANGED <<pulls, merging, retrying, checking, breaker>>
(* The pr job, which closes the draft a retry replaced.                    *)
PRJob(a, end) ==
  /\ jobs[a].pc = "pr"
  /\ jobs' = [jobs EXCEPT ![a].pc = "read", ![a].pr = end, ![a].draft = FALSE]
  /\ pulls' = [b \in OwnerAttempts |->
                 IF end = "opened" /\ b = a THEN [NoPullYet EXCEPT !.state = "open", !.draft = jobs[a].draft]
                 ELSE IF end = "opened" /\ b = row.supersedes /\ pulls[b].state = "open"
                      THEN [pulls[b] EXCEPT !.state = "closed"]
                 ELSE pulls[b]]
  /\ UNCHANGED <<row, merging, retrying, checking, breaker, faults>>

(* The record job: the row as it stands is read first.                     *)
FinalizeRead(a, fails) ==
  /\ jobs[a].pc = "read"
  /\ jobs' = [jobs EXCEPT ![a].pc = IF fails THEN "ended" ELSE "put", ![a].ok = ~fails,
                          ![a].seen = IF fails THEN NoMarks ELSE Marks(row),
                          ![a].stop = ""]
  /\ Fault(fails)
  /\ UNCHANGED <<row, pulls, merging, retrying, checking, breaker>>

Outcome(a) ==
  LET j == jobs[a] IN
  IF j.end # "built" THEN Ending(j.end)
  ELSE IF j.pr = "opened" THEN Ending("built")
  ELSE [outcome |-> "infra-failure", steps |-> TRUE,
        stop |-> IF j.pr = "conflict" THEN "rebase-conflict" ELSE "pr-job"]
ReadsJobLog(stop) == stop \in {"no-build-record", "pr-job"}
(* The stops whose own words, or the failing job's log, may name a fault.  *)
ClassifyTransient(stop) == ReadsJobLog(stop) \/ stop \in {"agent-exit", "model-unavailable"}

(* The record rebuilt: the owner's marks and the wait are carried from the *)
(* row that was read, and the fields a record does not name are left.      *)
MarksDropped(a, seen, fault) ==
  LET o == Outcome(a) IN
  [row EXCEPT !.outcome = o.outcome, !.stop = o.stop, !.transient = fault,
              !.settled = IF o.steps \/ seen.prior THEN a + 1 ELSE 0,
              !.pr = IF jobs[a].pr = "opened" THEN a ELSE NoPR, !.auto = jobs[a].eligible,
              !.branches = seen.branches \cup (IF o.steps THEN {a} ELSE {}),
              !.wait = seen.wait, !.prior = seen.prior, !.merged = FALSE, !.cancelled = FALSE]
Finalized(a, seen, fault) ==
  LET o == Outcome(a) IN
  [row EXCEPT !.outcome = o.outcome, !.stop = o.stop, !.transient = fault,
              !.settled = IF o.steps \/ seen.prior THEN a + 1 ELSE 0,
              !.pr = IF jobs[a].pr = "opened" THEN a ELSE NoPR, !.auto = jobs[a].eligible,
              !.branches = seen.branches \cup (IF o.steps THEN {a} ELSE {}),
              !.wait = seen.wait, !.prior = seen.prior, !.merged = seen.merged, !.cancelled = seen.cancelled]

(* The put and the ledger's settle are two writes, either of which may     *)
(* fail; the stop is known by then, and is raised whatever became of them. *)
FinalizePut(a, end, fault) ==
  /\ jobs[a].pc = "put"
  /\ fault => ClassifyTransient(Outcome(a).stop)
  /\ row' = IF end = "not put" THEN row ELSE Finalized(a, jobs[a].seen, fault)
  /\ jobs' = [jobs EXCEPT ![a].pc = "notice", ![a].ok = (end = "settled"), ![a].stop = Outcome(a).stop,
                          ![a].seen = NoMarks]
  /\ Fault(end # "settled")
  /\ UNCHANGED <<pulls, merging, retrying, checking, breaker>>

breakerStops == {"credential-absent", "identity-mismatch", "allowance-exhausted"}
Systemic(stop) == [notify |-> stop \in breakerStops \cup {"model-unavailable"}, trips |-> stop \in breakerStops]

QuietUntilNoticed(a, fails) == IF fails \/ ~Systemic(jobs[a].stop).trips THEN "provider" ELSE "trip"
AfterNotice(a, fails) == IF Systemic(jobs[a].stop).trips THEN "trip" ELSE "provider"
raiseSystemic(a, fails) ==
  /\ jobs[a].pc = "notice"
  /\ fails => Systemic(jobs[a].stop).notify
  /\ jobs' = [jobs EXCEPT ![a].pc = AfterNotice(a, fails)]
  /\ UNCHANGED <<row, pulls, merging, retrying, checking, breaker, faults>>
Trip(a, fails) ==
  /\ jobs[a].pc = "trip"
  /\ breaker' = IF fails THEN breaker ELSE "tripped"
  /\ jobs' = [jobs EXCEPT ![a].pc = "provider", ![a].lost = @ \/ fails]
  /\ Fault(fails)
  /\ UNCHANGED <<row, pulls, merging, retrying, checking>>
Reset ==
  /\ breaker = "tripped"
  /\ breaker' = "reset"
  /\ UNCHANGED <<row, jobs, pulls, merging, retrying, checking, faults>>

(* A record job that failed ends there; a rebase conflict is requeued.     *)
RecordEnds(a) ==
  /\ jobs[a].pc = "provider"
  /\ jobs' = [jobs EXCEPT ![a].pc = IF jobs[a].ok /\ Outcome(a).stop = "rebase-conflict" THEN "conflict" ELSE "ended"]
  /\ UNCHANGED <<row, pulls, merging, retrying, checking, breaker, faults>>

(* The workflow's record job is run again, on what its jobs gave it.       *)
RerunRecord(a) ==
  /\ jobs[a].pc = "ended" /\ row.attempt = a /\ row.state = "claimed" /\ (\A b \in OwnerAttempts : jobs[b].reruns = 0)
  /\ jobs' = [jobs EXCEPT ![a].pc = "read", ![a].reruns = 1]
  /\ UNCHANGED <<row, pulls, merging, retrying, checking, breaker, faults>>

-----------------------------------------------------------------------------
(* Requeues *)

requeueable(r) == r.state = "claimed" /\ hasEnded(r)
(* A put that a requeue overtakes is RunQueue's: none is begun here.       *)
Rerunning == \E a \in OwnerAttempts : jobs[a].reruns > 0 /\ jobs[a].pc \in {"read", "put"}
(* The common clears.  The PR, the wait and the merge mark stay.           *)
Requeued(r) ==
  [r EXCEPT !.state = "queued", !.attempt = @ + 1, !.claimed = 0, !.outcome = "", !.stop = "",
            !.transient = FALSE, !.cancelled = FALSE, !.closed = FALSE, !.checks = "", !.checksOf = NoPR]
RequeueAfterConflict(a) ==
  /\ jobs[a].pc = "conflict"
  /\ jobs' = [jobs EXCEPT ![a].pc = "ended"]
  /\ row' = IF requeueable(row) /\ row.conflicts < MaxRebaseConflictRetries /\ row.attempt < MaxAttempt
            THEN [Requeued(row) EXCEPT !.conflicts = @ + 1] ELSE row
  /\ UNCHANGED <<pulls, merging, retrying, checking, breaker, faults>>
RequeueTransient ==
  /\ ~Rerunning
  /\ requeueable(row) /\ requeueDue(row) /\ row.attempt < MaxAttempt
  /\ row' = [Requeued(row) EXCEPT !.requeues = @ + 1]
  /\ UNCHANGED <<jobs, pulls, merging, retrying, checking, breaker, faults>>
(* A poll claims the next attempt, unless the breaker holds it.            *)
(*  The attempt before has ended its jobs.                             *)
ClaimAgain ==
  /\ row.state = "queued" /\ breaker # "tripped"
  /\ jobs[row.attempt - 1].pc = "ended"
  /\ row' = [row EXCEPT !.state = "claimed", !.claimed = row.attempt + 1]
  /\ jobs' = [jobs EXCEPT ![row.attempt].pc = "build"]
  /\ UNCHANGED <<pulls, merging, retrying, checking, breaker, faults>>

(* The owner's retry: the row is read, then GitHub, which must hold an     *)
(* open draft to replace, then the transaction checks the row again.       *)
RetryReads ==
  /\ retrying.pc = "idle" /\ hasEnded(row) /\ row.attempt < MaxAttempt
  /\ retrying' = [pc |-> IF row.pr # NoPR /\ ~row.cancelled THEN "pull" ELSE "apply", pr |-> row.pr, attempt |-> row.attempt]
  /\ UNCHANGED <<row, jobs, pulls, merging, checking, breaker, faults>>
draftToSupersede ==
  LET p == pulls[retrying.pr] IN
  /\ retrying.pc = "pull"
  /\ retrying' = IF p.state = "open" /\ p.draft THEN [retrying EXCEPT !.pc = "apply"] ELSE NoRetry
  /\ UNCHANGED <<row, jobs, pulls, merging, checking, breaker, faults>>
RetryWithNote ==
  /\ retrying.pc = "apply" /\ ~Rerunning
  /\ row' = IF /\ row.attempt = retrying.attempt /\ requeueable(row)
               /\ ~mergedRow(row) /\ ~row.cancelled /\ row.outcome # "no-changes"
            THEN [Requeued(row) EXCEPT !.prior = row.settled > 0, !.supersedes = retrying.pr] ELSE row
  /\ retrying' = NoRetry
  /\ UNCHANGED <<jobs, pulls, merging, checking, breaker, faults>>

-----------------------------------------------------------------------------
(* The owner's merge and cancel *)

mergeRun ==
  /\ merging.pc = "idle" /\ row.pr # NoPR
  /\ merging' = [pc |-> "state", pr |-> row.pr,
                 barred |-> row.cancelled \/ row.wait = "unconfirmed-decision"]
  /\ UNCHANGED <<row, jobs, pulls, retrying, checking, breaker, faults>>
(* Where the PR stands now, against the row as it was read.                *)
PullState ==
  LET p == pulls[merging.pr] IN
  /\ merging.pc = "state"
  /\ merging' = IF p.state = "open" /\ ~p.draft /\ ~merging.barred
                THEN [merging EXCEPT !.pc = "green"] ELSE NoMerge
  /\ UNCHANGED <<row, jobs, pulls, retrying, checking, breaker, faults>>
ChecksGreen ==
  /\ merging.pc = "green"
  /\ merging' = IF pulls[merging.pr].ci = "green" THEN [merging EXCEPT !.pc = "merge"] ELSE NoMerge
  /\ UNCHANGED <<row, jobs, pulls, retrying, checking, breaker, faults>>
(* GitHub merges an open PR, or refuses; its answer may be lost.           *)
Merge(answered) ==
  LET open == pulls[merging.pr].state = "open" /\ ~pulls[merging.pr].draft IN
  /\ merging.pc = "merge"
  /\ pulls' = IF open THEN [pulls EXCEPT ![merging.pr].state = "merged"] ELSE pulls
  /\ merging' = IF open /\ answered THEN [merging EXCEPT !.pc = "record"] ELSE NoMerge
  /\ Fault(~answered)
  /\ UNCHANGED <<row, jobs, retrying, checking, breaker>>
RecordMerge(fails) ==
  /\ merging.pc = "record"
  /\ row' = IF fails THEN row ELSE [row EXCEPT !.merged = TRUE]
  /\ merging' = NoMerge
  /\ Fault(fails)
  /\ UNCHANGED <<jobs, pulls, retrying, checking, breaker>>
(* What the cancel's transaction refuses: a merged run, a cancelled one,   *)
(* one that does not wait.                                                 *)
RecordCancel(r) ==
  /\ ~mergedRow(r) /\ ~r.cancelled
  /\ r.outcome = "pr-opened" \/ stoppedRun(r)
cancelRun ==
  /\ RecordCancel(row)
  /\ row' = [row EXCEPT !.cancelled = TRUE]
  /\ UNCHANGED <<jobs, pulls, merging, retrying, checking, breaker, faults>>

-----------------------------------------------------------------------------
(* The polls *)

UnsettledRuns(r) == r.pr # NoPR /\ r.checks = "" /\ r.outcome = "pr-opened"
settleChecks ==
  /\ checking.pc = "idle" /\ UnsettledRuns(row)
  /\ checking' = [pc |-> "settle", pr |-> row.pr, result |-> ""]
  /\ UNCHANGED <<row, jobs, pulls, merging, retrying, breaker, faults>>
(* Pending until every required check has reported on the agent's last     *)
(* commit; a PR without one can never be read.                             *)
ChecksOutcome(p, unresolved) == IF unresolved THEN "unresolved" ELSE p.ci
settleRunChecks(unresolved) ==
  LET result == ChecksOutcome(pulls[checking.pr], unresolved) IN
  /\ checking.pc = "settle"
  /\ checking' = IF result = "pending" THEN NoPollStep ELSE [checking EXCEPT !.pc = "record", !.result = result]
  /\ UNCHANGED <<row, jobs, pulls, merging, retrying, breaker, faults>>
OfAnyPR(r, pr) == r.checks = "" /\ r.outcome = "pr-opened"
TakesChecks(r, pr) == r.checks = "" /\ r.pr = pr /\ r.outcome = "pr-opened"
RecordChecks ==
  /\ checking.pc = "record"
  /\ row' = IF TakesChecks(row, checking.pr)
            THEN [row EXCEPT !.checks = checking.result, !.checksOf = checking.pr] ELSE row
  /\ checking' = NoPollStep
  /\ UNCHANGED <<jobs, pulls, merging, retrying, breaker, faults>>

(* The rows are listed, then each written only as it was read, so that the *)
(* listing and the write are as one.                                       *)
RecordTicketsClosed ==
  /\ ~row.cancelled /\ ~row.closed /\ stoppedRun(row)
  /\ row' = [row EXCEPT !.closed = TRUE]
  /\ UNCHANGED <<jobs, pulls, merging, retrying, checking, breaker, faults>>
MeasureMerged(a) ==
  /\ pulls[a].state = "merged" /\ a \in row.branches /\ ~row.measured
  /\ row' = [row EXCEPT !.measured = TRUE]
  /\ UNCHANGED <<jobs, pulls, merging, retrying, checking, breaker, faults>>

(* GitHub, apart from the run and the surface.                             *)
MarkedReady(a) ==
  /\ pulls[a].state = "open" /\ pulls[a].draft
  /\ pulls' = [pulls EXCEPT ![a].draft = FALSE]
  /\ UNCHANGED <<row, jobs, merging, retrying, checking, breaker, faults>>
CIFinishes(a, end) ==
  /\ pulls[a].state = "open" /\ pulls[a].ci = "pending"
  /\ pulls' = [pulls EXCEPT ![a].ci = end]
  /\ UNCHANGED <<row, jobs, merging, retrying, checking, breaker, faults>>
EndedElsewhere(a, end) ==
  /\ pulls[a].state = "open"
  /\ pulls' = [pulls EXCEPT ![a].state = end]
  /\ UNCHANGED <<row, jobs, merging, retrying, checking, breaker, faults>>

JobStep(a) ==
  \/ \E end \in Ends : BuildEnds(a, end)
  \/ \E m \in OwnerCases, fails \in BOOLEAN : SetWaitReason(a, m, fails)
  \/ \E end \in {"opened", "conflict", "failed"} : PRJob(a, end)
  \/ \E fails \in BOOLEAN : FinalizeRead(a, fails) \/ raiseSystemic(a, fails) \/ Trip(a, fails)
  \/ \E end \in {"settled", "not settled", "not put"}, fault \in BOOLEAN : FinalizePut(a, end, fault)
  \/ RecordEnds(a)
  \/ RequeueAfterConflict(a)
  \/ RerunRecord(a)

OwnerNext ==
  \/ \E a \in OwnerAttempts : JobStep(a)
  \/ Reset
  \/ RequeueTransient
  \/ ClaimAgain
  \/ RetryReads \/ draftToSupersede \/ RetryWithNote
  \/ mergeRun \/ PullState \/ ChecksGreen
  \/ \E ok \in BOOLEAN : Merge(ok) \/ RecordMerge(ok) \/ settleRunChecks(ok)
  \/ cancelRun
  \/ settleChecks \/ RecordChecks
  \/ RecordTicketsClosed
  \/ \E a \in OwnerAttempts : MeasureMerged(a) \/ MarkedReady(a)
  \/ \E a \in OwnerAttempts, end \in CIEnds : CIFinishes(a, end)
  \/ \E a \in OwnerAttempts, end \in {"merged", "closed"} : EndedElsewhere(a, end)

OwnerSpec == OwnerInit /\ [][OwnerNext]_ownerVars

-----------------------------------------------------------------------------
(* Properties *)

(* The owner's merge or cancel, once on the row, is taken off it only by a *)
(* requeue (a cancel) or by a record job, a rerun or the next attempt's,   *)
(* that had read the row before the mark: a put built on the marked row    *)
(* and every other writer, whatever it read and when, leave both.          *)
MarksStand ==
  [][LET overtaken(mark) == \E a \in OwnerAttempts :
           jobs[a].pc = "put" /\ jobs'[a].pc # "put" /\ ~jobs[a].seen[mark]
     IN /\ row.merged /\ ~row'.merged => overtaken("merged")
        /\ row.cancelled /\ ~row'.cancelled => overtaken("cancelled") \/ row'.attempt > row.attempt]_ownerVars

(* The checks result a row shows is that of the pull request it names, and *)
(* what GitHub concluded for it, although the poll that read it may span a *)
(* requeue and the next attempt's own pull request.                        *)
ChecksAreOfThisPR ==
  row.checks # "" => row.checksOf = row.pr /\ row.checks \in {"unresolved", pulls[row.pr].ci}

(* A record job that ends after a systemic stop has tripped the breaker,   *)
(* unless that write itself failed: neither a notice that could not be     *)
(* raised nor a record or a ledger that could not be written keeps the     *)
(* dispatch going.                                                         *)
SystemicStopTrips ==
  \A a \in OwnerAttempts :
    jobs[a].pc = "ended" /\ Systemic(jobs[a].stop).trips => breaker # "never" \/ jobs[a].lost

(* A run that stopped, that no poll will requeue and that nobody merged,   *)
(* cancelled or closed waits in the owner's inbox.  The code misses one    *)
(* that stopped before an agent ran, on its first attempt already: its     *)
(* record has no settle time for its claim to be older than.               *)
StoppedRunWaits ==
  \A a \in OwnerAttempts :
    /\ jobs[a].pc = "ended" /\ jobs[a].ok /\ row.attempt = a /\ row.state = "claimed"
    /\ row.outcome \notin {"pr-opened", "no-changes"} /\ ~requeueDue(row)
    /\ ~mergedRow(row) /\ ~row.cancelled /\ ~row.closed
    => inboxRun(row)

-----------------------------------------------------------------------------
(* What keeps them true *)

(* The row, the jobs and the pull requests keep the fields they began with. *)
RowFields == {"state", "attempt", "claimed", "settled", "prior", "outcome", "stop", "transient", "requeues", "conflicts",
              "pr", "supersedes", "branches", "wait", "auto", "merged", "measured", "cancelled", "closed",
              "checks", "checksOf"}
JobFields == {"pc", "end", "pr", "draft", "eligible", "seen", "stop", "ok", "lost", "reruns"}
PullFields == {"state", "draft", "ci"}
OwnerTypeOK ==
  /\ Shaped(row, RowFields) /\ row.attempt \in OwnerAttempts
  /\ Shaped(jobs, OwnerAttempts) /\ \A a \in OwnerAttempts : Shaped(jobs[a], JobFields)
  /\ Shaped(pulls, OwnerAttempts) /\ \A a \in OwnerAttempts : Shaped(pulls[a], PullFields)
  /\ Shaped(checking, {"pc", "pr", "result"}) /\ Shaped(retrying, {"pc", "pr", "attempt"})
  /\ retrying.pc # "idle" => retrying.attempt < MaxAttempt

(* A record job past its trip, or that needed none.                        *)
PastTrip ==
  \A a \in OwnerAttempts :
    jobs[a].pc \in {"provider", "conflict", "ended"} /\ Systemic(jobs[a].stop).trips => breaker # "never" \/ jobs[a].lost

(* One attempt's jobs are at work at a time, and a row that has ended is   *)
(* the row of an attempt whose record job has put it.                      *)
AttemptsInOrder ==
  /\ \A b \in OwnerAttempts :
       /\ b > row.attempt \/ (b = row.attempt /\ row.state = "queued") => jobs[b].pc = "waiting"
       /\ jobs[b].pc \in {"build", "meta", "pr", "read", "put"} => b = row.attempt /\ row.state = "claimed"
       /\ jobs[b].pc \notin {"waiting", "ended"} => b = row.attempt \/ (b = row.attempt - 1 /\ row.state = "queued")
  /\ hasEnded(row) => /\ row.state = "claimed"
                      /\ jobs[row.attempt].pc \notin {"waiting", "build", "meta", "pr"}
                      /\ jobs[row.attempt].pc \in {"read", "put"} => jobs[row.attempt].reruns > 0
(* A pull request is named only once its job opened it, by the row of that *)
(* attempt or a later one, and what a poll read of its checks stands.      *)
PullsAreOfJobs ==
  /\ \A b \in OwnerAttempts :
       /\ jobs[b].pr = "opened" => jobs[b].pc \notin {"waiting", "build", "meta", "pr"}
       /\ jobs[b].pc \notin {"waiting", "build"} => jobs[b].end \in Ends
  /\ row.pr # NoPR => row.pr \in OwnerAttempts /\ jobs[row.pr].pr = "opened"
  /\ row.outcome = "pr-opened" => row.pr = row.attempt
  /\ checking.pc # "idle" => checking.pr \in OwnerAttempts /\ jobs[checking.pr].pr = "opened"
  /\ checking.pc = "record" => /\ checking.result \in {"unresolved", pulls[checking.pr].ci}
                               /\ checking.result # "pending"
  /\ row.checks # "" => row.pr = row.attempt
  /\ row.checks # "pending"
OwnerIInv == OwnerTypeOK /\ AttemptsInOrder /\ PullsAreOfJobs /\ ChecksAreOfThisPR
=============================================================================
