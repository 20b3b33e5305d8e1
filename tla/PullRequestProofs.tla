-------------------------- MODULE PullRequestProofs --------------------------
(***************************************************************************)
(* What is proved of a run's pull request, for every value of the          *)
(* constants: the row its record job shares with the owner and the polls,  *)
(* its way to a merge, and the screenshots it pushes.                      *)
(***************************************************************************)
EXTENDS Delivery, Evidence, Owner, TLAPS

-----------------------------------------------------------------------------
LEMMA AttemptsAreNat == MaxAttempt \in Nat /\ 0 \in OwnerAttempts /\ \A a \in OwnerAttempts : a \in Nat /\ a <= MaxAttempt
  <1>1. MaxAttempt \in Nat
    BY OwnerAssumption
  <1> QED  BY <1>1 DEF OwnerAttempts

(* What a step does to the jobs *)

(* The job of attempt a goes on, the others stay: where it is then, how    *)
(* its build ended, what its pr job did, its stop, whether its trip was    *)
(* lost and how often its record job ran again.                            *)
JobGoes(a, pc, end, pr, stop, lost, reruns) ==
  /\ Shaped(jobs', OwnerAttempts) /\ Shaped(jobs'[a], JobFields)
  /\ \A b \in OwnerAttempts \ {a} : jobs'[b] = jobs[b]
  /\ jobs'[a].pc = pc /\ jobs'[a].end = end /\ jobs'[a].pr = pr
  /\ jobs'[a].stop = stop /\ jobs'[a].lost = lost /\ jobs'[a].reruns = reruns

(* A job with those fields in its place.                                   *)
GoesAs(j, pc, end, pr, stop, lost, reruns) ==
  /\ Shaped(j, JobFields)
  /\ j.pc = pc /\ j.end = end /\ j.pr = pr /\ j.stop = stop /\ j.lost = lost /\ j.reruns = reruns

LEMMA JobReplaced ==
  ASSUME OwnerTypeOK, NEW a \in OwnerAttempts, NEW j, jobs' = [jobs EXCEPT ![a] = j],
         NEW pc, NEW end, NEW pr, NEW stop, NEW lost, NEW reruns, GoesAs(j, pc, end, pr, stop, lost, reruns)
  PROVE  JobGoes(a, pc, end, pr, stop, lost, reruns)
  <1>1. Shaped(jobs', OwnerAttempts) /\ jobs'[a] = j /\ \A b \in OwnerAttempts \ {a} : jobs'[b] = jobs[b]
    BY DEF OwnerTypeOK, Shaped
  <1> QED  BY <1>1 DEF JobGoes, GoesAs

LEMMA BuildEndsGoes ==
  ASSUME OwnerTypeOK, NEW a \in OwnerAttempts, NEW end, BuildEnds(a, end)
  PROVE  JobGoes(a, IF end = "built" THEN "meta" ELSE "read", end, jobs[a].pr, jobs[a].stop, jobs[a].lost, jobs[a].reruns)
  <1> DEFINE j == [jobs[a] EXCEPT !.end = end, !.pc = IF end = "built" THEN "meta" ELSE "read"]
  <1>0. Shaped(jobs[a], JobFields)
    BY DEF OwnerTypeOK
  <1>1. jobs' = [jobs EXCEPT ![a] = j]
    BY DEF BuildEnds
  <1>2. GoesAs(j, IF end = "built" THEN "meta" ELSE "read", end, jobs[a].pr, jobs[a].stop, jobs[a].lost, jobs[a].reruns)
    BY <1>0 DEF Shaped, JobFields, GoesAs
  <1> QED  BY <1>1, <1>2, JobReplaced

LEMMA SetWaitReasonGoes ==
  ASSUME OwnerTypeOK, NEW a \in OwnerAttempts, NEW m, NEW fails \in BOOLEAN, SetWaitReason(a, m, fails)
  PROVE  JobGoes(a, "pr", jobs[a].end, jobs[a].pr, jobs[a].stop, jobs[a].lost, jobs[a].reruns)
  <1> DEFINE j == [jobs[a] EXCEPT !.pc = "pr", !.draft = draftPR(m), !.eligible = autoMerge(TRUE, m)]
  <1>0. Shaped(jobs[a], JobFields)
    BY DEF OwnerTypeOK
  <1>1. jobs' = [jobs EXCEPT ![a] = j]
    BY DEF SetWaitReason
  <1>2. GoesAs(j, "pr", jobs[a].end, jobs[a].pr, jobs[a].stop, jobs[a].lost, jobs[a].reruns)
    BY <1>0 DEF Shaped, JobFields, GoesAs
  <1> QED  BY <1>1, <1>2, JobReplaced

LEMMA PRJobGoes ==
  ASSUME OwnerTypeOK, NEW a \in OwnerAttempts, NEW end, PRJob(a, end)
  PROVE  JobGoes(a, "read", jobs[a].end, end, jobs[a].stop, jobs[a].lost, jobs[a].reruns)
  <1> DEFINE j == [jobs[a] EXCEPT !.pc = "read", !.pr = end, !.draft = FALSE]
  <1>0. Shaped(jobs[a], JobFields)
    BY DEF OwnerTypeOK
  <1>1. jobs' = [jobs EXCEPT ![a] = j]
    BY DEF PRJob
  <1>2. GoesAs(j, "read", jobs[a].end, end, jobs[a].stop, jobs[a].lost, jobs[a].reruns)
    BY <1>0 DEF Shaped, JobFields, GoesAs
  <1> QED  BY <1>1, <1>2, JobReplaced

LEMMA FinalizeReadGoes ==
  ASSUME OwnerTypeOK, NEW a \in OwnerAttempts, NEW fails \in BOOLEAN, FinalizeRead(a, fails)
  PROVE  JobGoes(a, IF fails THEN "ended" ELSE "put", jobs[a].end, jobs[a].pr, "", jobs[a].lost, jobs[a].reruns)
  <1> DEFINE j == [jobs[a] EXCEPT !.pc = IF fails THEN "ended" ELSE "put", !.ok = ~fails,
                               !.seen = IF fails THEN NoMarks ELSE Marks(row), !.stop = ""]
  <1>0. Shaped(jobs[a], JobFields)
    BY DEF OwnerTypeOK
  <1>1. jobs' = [jobs EXCEPT ![a] = j]
    BY DEF FinalizeRead
  <1>2. GoesAs(j, IF fails THEN "ended" ELSE "put", jobs[a].end, jobs[a].pr, "", jobs[a].lost, jobs[a].reruns)
    BY <1>0 DEF Shaped, JobFields, GoesAs
  <1> QED  BY <1>1, <1>2, JobReplaced

LEMMA FinalizePutGoes ==
  ASSUME OwnerTypeOK, NEW a \in OwnerAttempts, NEW end, NEW fault \in BOOLEAN, FinalizePut(a, end, fault)
  PROVE  JobGoes(a, "notice", jobs[a].end, jobs[a].pr, Outcome(a).stop, jobs[a].lost, jobs[a].reruns)
  <1> DEFINE j == [jobs[a] EXCEPT !.pc = "notice", !.ok = (end = "settled"), !.stop = Outcome(a).stop, !.seen = NoMarks]
  <1>0. Shaped(jobs[a], JobFields)
    BY DEF OwnerTypeOK
  <1>1. jobs' = [jobs EXCEPT ![a] = j]
    BY DEF FinalizePut
  <1>2. GoesAs(j, "notice", jobs[a].end, jobs[a].pr, Outcome(a).stop, jobs[a].lost, jobs[a].reruns)
    BY <1>0 DEF Shaped, JobFields, GoesAs
  <1> QED  BY <1>1, <1>2, JobReplaced

LEMMA raiseSystemicGoes ==
  ASSUME OwnerTypeOK, NEW a \in OwnerAttempts, NEW fails \in BOOLEAN, raiseSystemic(a, fails)
  PROVE  JobGoes(a, AfterNotice(a, fails), jobs[a].end, jobs[a].pr, jobs[a].stop, jobs[a].lost, jobs[a].reruns)
  <1> DEFINE j == [jobs[a] EXCEPT !.pc = AfterNotice(a, fails)]
  <1>0. Shaped(jobs[a], JobFields)
    BY DEF OwnerTypeOK
  <1>1. jobs' = [jobs EXCEPT ![a] = j]
    BY DEF raiseSystemic
  <1>2. GoesAs(j, AfterNotice(a, fails), jobs[a].end, jobs[a].pr, jobs[a].stop, jobs[a].lost, jobs[a].reruns)
    BY <1>0 DEF Shaped, JobFields, GoesAs
  <1> QED  BY <1>1, <1>2, JobReplaced

LEMMA TripGoes ==
  ASSUME OwnerTypeOK, NEW a \in OwnerAttempts, NEW fails \in BOOLEAN, Trip(a, fails)
  PROVE  JobGoes(a, "provider", jobs[a].end, jobs[a].pr, jobs[a].stop, jobs[a].lost \/ fails, jobs[a].reruns)
  <1> DEFINE j == [jobs[a] EXCEPT !.pc = "provider", !.lost = @ \/ fails]
  <1>0. Shaped(jobs[a], JobFields)
    BY DEF OwnerTypeOK
  <1>1. jobs' = [jobs EXCEPT ![a] = j]
    BY DEF Trip
  <1>2. GoesAs(j, "provider", jobs[a].end, jobs[a].pr, jobs[a].stop, jobs[a].lost \/ fails, jobs[a].reruns)
    BY <1>0 DEF Shaped, JobFields, GoesAs
  <1> QED  BY <1>1, <1>2, JobReplaced

LEMMA RequeueAfterConflictGoes ==
  ASSUME OwnerTypeOK, NEW a \in OwnerAttempts, RequeueAfterConflict(a)
  PROVE  JobGoes(a, "ended", jobs[a].end, jobs[a].pr, jobs[a].stop, jobs[a].lost, jobs[a].reruns)
  <1> DEFINE j == [jobs[a] EXCEPT !.pc = "ended"]
  <1>0. Shaped(jobs[a], JobFields)
    BY DEF OwnerTypeOK
  <1>1. jobs' = [jobs EXCEPT ![a] = j]
    BY DEF RequeueAfterConflict
  <1>2. GoesAs(j, "ended", jobs[a].end, jobs[a].pr, jobs[a].stop, jobs[a].lost, jobs[a].reruns)
    BY <1>0 DEF Shaped, JobFields, GoesAs
  <1> QED  BY <1>1, <1>2, JobReplaced

LEMMA RerunRecordGoes ==
  ASSUME OwnerTypeOK, NEW a \in OwnerAttempts, RerunRecord(a)
  PROVE  JobGoes(a, "read", jobs[a].end, jobs[a].pr, jobs[a].stop, jobs[a].lost, 1)
  <1> DEFINE j == [jobs[a] EXCEPT !.pc = "read", !.reruns = 1]
  <1>0. Shaped(jobs[a], JobFields)
    BY DEF OwnerTypeOK
  <1>1. jobs' = [jobs EXCEPT ![a] = j]
    BY DEF RerunRecord
  <1>2. GoesAs(j, "read", jobs[a].end, jobs[a].pr, jobs[a].stop, jobs[a].lost, 1)
    BY <1>0 DEF Shaped, JobFields, GoesAs
  <1> QED  BY <1>1, <1>2, JobReplaced

LEMMA ClaimAgainGoes ==
  ASSUME OwnerTypeOK, NEW a \in OwnerAttempts, a = row.attempt, ClaimAgain
  PROVE  JobGoes(a, "build", jobs[a].end, jobs[a].pr, jobs[a].stop, jobs[a].lost, jobs[a].reruns)
  <1> DEFINE j == [jobs[a] EXCEPT !.pc = "build"]
  <1>0. Shaped(jobs[a], JobFields)
    BY DEF OwnerTypeOK
  <1>1. jobs' = [jobs EXCEPT ![a] = j]
    BY DEF ClaimAgain
  <1>2. GoesAs(j, "build", jobs[a].end, jobs[a].pr, jobs[a].stop, jobs[a].lost, jobs[a].reruns)
    BY <1>0 DEF Shaped, JobFields, GoesAs
  <1> QED  BY <1>1, <1>2, JobReplaced

LEMMA RecordEndsGoes ==
  ASSUME OwnerTypeOK, NEW a \in OwnerAttempts, RecordEnds(a)
  PROVE  \E pc \in {"conflict", "ended"} : JobGoes(a, pc, jobs[a].end, jobs[a].pr, jobs[a].stop, jobs[a].lost, jobs[a].reruns)
  <1> DEFINE pc == IF jobs[a].ok /\ Outcome(a).stop = "rebase-conflict" THEN "conflict" ELSE "ended"
             j == [jobs[a] EXCEPT !.pc = pc]
  <1>0. Shaped(jobs[a], JobFields)
    BY DEF OwnerTypeOK
  <1>1. jobs' = [jobs EXCEPT ![a] = j]
    BY DEF RecordEnds
  <1>2. pc \in {"conflict", "ended"}
    OBVIOUS
  <1> HIDE DEF pc
  <1>3. GoesAs(j, pc, jobs[a].end, jobs[a].pr, jobs[a].stop, jobs[a].lost, jobs[a].reruns)
    BY <1>0 DEF Shaped, JobFields, GoesAs
  <1> HIDE DEF j
  <1>4. JobGoes(a, pc, jobs[a].end, jobs[a].pr, jobs[a].stop, jobs[a].lost, jobs[a].reruns)
    BY <1>1, <1>3, JobReplaced
  <1> QED  BY <1>2, <1>4

(* The steps that move no job. *)
LEMMA JobsStay ==
  ASSUME [OwnerNext]_ownerVars, \A a \in OwnerAttempts : ~JobStep(a), ~ClaimAgain
  PROVE  UNCHANGED jobs
  BY DEF OwnerNext, ownerVars, Reset, RequeueTransient, RetryReads, draftToSupersede, RetryWithNote, mergeRun, PullState,
     ChecksGreen, Merge, RecordMerge, settleRunChecks, cancelRun, settleChecks, RecordChecks, RecordTicketsClosed,
     MeasureMerged, MarkedReady, CIFinishes, EndedElsewhere

LEMMA JobsKeepShape ==
  ASSUME OwnerTypeOK, [OwnerNext]_ownerVars
  PROVE  Shaped(jobs', OwnerAttempts) /\ \A b \in OwnerAttempts : Shaped(jobs'[b], JobFields)
  <1> DEFINE Goal == Shaped(jobs', OwnerAttempts) /\ \A b \in OwnerAttempts : Shaped(jobs'[b], JobFields)
  <1>1. ASSUME NEW a \in OwnerAttempts, NEW pc, NEW end, NEW pr, NEW stop, NEW lost, NEW reruns,
               JobGoes(a, pc, end, pr, stop, lost, reruns)
        PROVE  Goal
    BY <1>1 DEF OwnerTypeOK, JobGoes
  <1> HIDE DEF Goal
  <1>2. ASSUME NEW a \in OwnerAttempts, JobStep(a) PROVE Goal
    <2>1. ASSUME NEW end, BuildEnds(a, end) PROVE Goal
      BY <2>1, <1>1, BuildEndsGoes
    <2>2. ASSUME NEW m, NEW fails \in BOOLEAN, SetWaitReason(a, m, fails) PROVE Goal
      BY <2>2, <1>1, SetWaitReasonGoes
    <2>3. ASSUME NEW end, PRJob(a, end) PROVE Goal
      BY <2>3, <1>1, PRJobGoes
    <2>4. ASSUME NEW fails \in BOOLEAN, FinalizeRead(a, fails) PROVE Goal
      BY <2>4, <1>1, FinalizeReadGoes
    <2>5. ASSUME NEW end, NEW fault \in BOOLEAN, FinalizePut(a, end, fault) PROVE Goal
      BY <2>5, <1>1, FinalizePutGoes
    <2>6. ASSUME NEW fails \in BOOLEAN, raiseSystemic(a, fails) PROVE Goal
      BY <2>6, <1>1, raiseSystemicGoes
    <2>7. ASSUME NEW fails \in BOOLEAN, Trip(a, fails) PROVE Goal
      BY <2>7, <1>1, TripGoes
    <2>8. CASE RecordEnds(a)
      BY <2>8, <1>1, RecordEndsGoes
    <2>9. CASE RequeueAfterConflict(a)
      BY <2>9, <1>1, RequeueAfterConflictGoes
    <2>10. CASE RerunRecord(a)
      BY <2>10, <1>1, RerunRecordGoes
    <2> QED  BY <1>2, <2>1, <2>2, <2>3, <2>4, <2>5, <2>6, <2>7, <2>8, <2>9, <2>10 DEF JobStep
  <1>3. ASSUME ClaimAgain PROVE Goal
    <2>1. PICK a \in OwnerAttempts : a = row.attempt
      BY DEF OwnerTypeOK
    <2>2. JobGoes(a, "build", jobs[a].end, jobs[a].pr, jobs[a].stop, jobs[a].lost, jobs[a].reruns)
      BY <1>3, <2>1, ClaimAgainGoes
    <2> QED  BY <1>1, <2>2
  <1>4. CASE UNCHANGED jobs
    BY <1>4 DEF OwnerTypeOK, Goal
  <1> QED  BY <1>2, <1>3, <1>4, JobsStay DEF Goal

(* What the writers of the row may do to it. *)
LEMMA RequeuedRow ==
  ASSUME NEW r, Shaped(r, RowFields)
  PROVE  /\ Shaped(Requeued(r), RowFields)
         /\ Requeued(r).state = "queued" /\ Requeued(r).attempt = r.attempt + 1 /\ Requeued(r).pr = r.pr
         /\ Requeued(r).outcome = "" /\ Requeued(r).stop = "" /\ Requeued(r).checks = ""
         /\ Requeued(r).merged = r.merged
  BY DEF Shaped, RowFields, Requeued

LEMMA RowKeepsShape ==
  ASSUME OwnerTypeOK, [OwnerNext]_ownerVars
  PROVE  Shaped(row', RowFields) /\ row'.attempt \in OwnerAttempts
  <1> DEFINE Goal == Shaped(row', RowFields) /\ row'.attempt \in OwnerAttempts
  <1>0. Shaped(row, RowFields) /\ row.attempt \in OwnerAttempts /\ MaxAttempt \in Nat
    BY OwnerAssumption DEF OwnerTypeOK
  <1>1. ASSUME row.attempt < MaxAttempt, NEW r, r = Requeued(row),
               \/ row' = [r EXCEPT !.conflicts = @ + 1]
               \/ row' = [r EXCEPT !.requeues = @ + 1]
               \/ row' = [r EXCEPT !.prior = row.settled > 0, !.supersedes = retrying.pr]
        PROVE  Goal
    <2>1. Shaped(r, RowFields) /\ r.attempt = row.attempt + 1
      BY <1>0, <1>1, RequeuedRow
    <2>2. r.attempt \in OwnerAttempts
      BY <1>0, <1>1, <2>1 DEF OwnerAttempts
    <2>3. CASE row' = [r EXCEPT !.conflicts = @ + 1]
      BY <2>1, <2>2, <2>3 DEF Shaped, RowFields
    <2>4. CASE row' = [r EXCEPT !.requeues = @ + 1]
      BY <2>1, <2>2, <2>4 DEF Shaped, RowFields
    <2>5. CASE row' = [r EXCEPT !.prior = row.settled > 0, !.supersedes = retrying.pr]
      BY <2>1, <2>2, <2>5 DEF Shaped, RowFields
    <2> QED  BY <1>1, <2>3, <2>4, <2>5
  <1>2. CASE UNCHANGED row
    BY <1>0, <1>2
  <1>3. ASSUME NEW a \in OwnerAttempts, NEW m, NEW fails \in BOOLEAN, SetWaitReason(a, m, fails) PROVE Goal
    BY <1>0, <1>3 DEF SetWaitReason, Shaped, RowFields
  <1>4. ASSUME NEW a \in OwnerAttempts, NEW end, NEW fault \in BOOLEAN, FinalizePut(a, end, fault) PROVE Goal
    BY <1>0, <1>4 DEF FinalizePut, Finalized, Shaped, RowFields
  <1>5. ASSUME NEW a \in OwnerAttempts, RequeueAfterConflict(a) PROVE Goal
    <2>1. \/ UNCHANGED row
          \/ row.attempt < MaxAttempt /\ row' = [Requeued(row) EXCEPT !.conflicts = @ + 1]
      BY <1>5 DEF RequeueAfterConflict
    <2> QED  BY <2>1, <1>1, <1>2
  <1>6. CASE RequeueTransient
    BY <1>1, <1>6 DEF RequeueTransient
  <1>7. CASE RetryWithNote
    <2>1. \/ UNCHANGED row
          \/ /\ row.attempt < MaxAttempt
             /\ row' = [Requeued(row) EXCEPT !.prior = row.settled > 0, !.supersedes = retrying.pr]
      BY <1>7 DEF RetryWithNote, OwnerTypeOK
    <2> QED  BY <2>1, <1>1, <1>2
  <1>8. CASE ClaimAgain
    BY <1>0, <1>8 DEF ClaimAgain, Shaped, RowFields
  <1>9. CASE RecordChecks \/ cancelRun \/ RecordTicketsClosed
    BY <1>0, <1>9 DEF RecordChecks, cancelRun, RecordTicketsClosed, Shaped, RowFields
  <1>10. ASSUME NEW a, MeasureMerged(a) PROVE Goal
    BY <1>0, <1>10 DEF MeasureMerged, Shaped, RowFields
  <1>11. ASSUME NEW fails \in BOOLEAN, RecordMerge(fails) PROVE Goal
    BY <1>0, <1>11 DEF RecordMerge, Shaped, RowFields
  <1>12. ASSUME NEW a \in OwnerAttempts, JobStep(a) PROVE Goal
    <2>1. \/ UNCHANGED row
          \/ \E m \in OwnerCases, fails \in BOOLEAN : SetWaitReason(a, m, fails)
          \/ \E end \in {"settled", "not settled", "not put"}, fault \in BOOLEAN : FinalizePut(a, end, fault)
          \/ RequeueAfterConflict(a)
      BY <1>12 DEF JobStep, BuildEnds, PRJob, FinalizeRead, raiseSystemic, Trip, RecordEnds, RerunRecord
    <2> QED  BY <2>1, <1>2, <1>3, <1>4, <1>5
  <1>13. \/ UNCHANGED row \/ (\E a \in OwnerAttempts : JobStep(a) \/ MeasureMerged(a))
         \/ RequeueTransient \/ RetryWithNote \/ ClaimAgain \/ RecordChecks \/ cancelRun \/ RecordTicketsClosed
         \/ \E fails \in BOOLEAN : RecordMerge(fails)
    BY DEF OwnerNext, ownerVars, Reset, RetryReads, draftToSupersede, mergeRun, PullState, ChecksGreen, Merge,
       settleRunChecks, settleChecks, MarkedReady, CIFinishes, EndedElsewhere
  <1> QED  BY <1>2, <1>6, <1>7, <1>8, <1>9, <1>10, <1>11, <1>12, <1>13

(* A step changes the checks of a pull request only when they finish, or   *)
(* when the pr job opens it.                                               *)
LEMMA PullsStep ==
  ASSUME OwnerTypeOK, [OwnerNext]_ownerVars
  PROVE  /\ Shaped(pulls', OwnerAttempts) /\ \A b \in OwnerAttempts : Shaped(pulls'[b], PullFields)
         /\ \A b \in OwnerAttempts : pulls'[b].ci = pulls[b].ci \/ pulls[b].ci = "pending" \/ jobs[b].pc = "pr"
  <1> DEFINE Goal == /\ Shaped(pulls', OwnerAttempts) /\ \A b \in OwnerAttempts : Shaped(pulls'[b], PullFields)
                     /\ \A b \in OwnerAttempts : pulls'[b].ci = pulls[b].ci \/ pulls[b].ci = "pending" \/ jobs[b].pc = "pr"
  <1>0. Shaped(pulls, OwnerAttempts) /\ \A b \in OwnerAttempts : Shaped(pulls[b], PullFields)
    BY DEF OwnerTypeOK
  <1>1. CASE UNCHANGED pulls
    BY <1>0, <1>1
  <1>2. ASSUME NEW a \in OwnerAttempts, NEW end, PRJob(a, end) PROVE Goal
    <2>1. /\ jobs[a].pc = "pr"
          /\ pulls' = [b \in OwnerAttempts |->
                 IF end = "opened" /\ b = a THEN [NoPullYet EXCEPT !.state = "open", !.draft = jobs[a].draft]
                 ELSE IF end = "opened" /\ b = row.supersedes /\ pulls[b].state = "open"
                      THEN [pulls[b] EXCEPT !.state = "closed"]
                 ELSE pulls[b]]
      BY <1>2 DEF PRJob
    <2>2. Shaped(pulls', OwnerAttempts)
      BY <2>1 DEF Shaped
    <2>3. Shaped(NoPullYet, PullFields)
      BY DEF Shaped, PullFields, NoPullYet
    <2>4. Shaped([NoPullYet EXCEPT !.state = "open", !.draft = jobs[a].draft], PullFields)
      BY <2>3 DEF Shaped
    <2>5. ASSUME NEW b \in OwnerAttempts
          PROVE  /\ Shaped([pulls[b] EXCEPT !.state = "closed"], PullFields)
                 /\ [pulls[b] EXCEPT !.state = "closed"].ci = pulls[b].ci
      BY <1>0 DEF Shaped, PullFields
    <2> QED  BY <1>0, <2>1, <2>2, <2>4, <2>5
  <1>3. ASSUME NEW a \in OwnerAttempts, NEW p, Shaped(p, PullFields), p.ci = pulls[a].ci \/ pulls[a].ci = "pending",
               pulls' = [pulls EXCEPT ![a] = p]
        PROVE  Goal
    <2>1. \A b \in OwnerAttempts : pulls'[b] = IF b = a THEN p ELSE pulls[b]
      BY <1>0, <1>3 DEF Shaped
    <2>2. Shaped(pulls', OwnerAttempts)
      BY <1>0, <1>3 DEF Shaped
    <2> QED  BY <1>0, <1>3, <2>1, <2>2
  <1>4. ASSUME NEW a \in OwnerAttempts, MarkedReady(a) PROVE Goal
    <2>1. Shaped([pulls[a] EXCEPT !.draft = FALSE], PullFields) /\ [pulls[a] EXCEPT !.draft = FALSE].ci = pulls[a].ci
      BY <1>0 DEF Shaped, PullFields
    <2> QED  BY <2>1, <1>3, <1>4 DEF MarkedReady
  <1>5. ASSUME NEW a \in OwnerAttempts, NEW end, CIFinishes(a, end) PROVE Goal
    <2>1. Shaped([pulls[a] EXCEPT !.ci = end], PullFields)
      BY <1>0 DEF Shaped, PullFields
    <2> QED  BY <2>1, <1>3, <1>5 DEF CIFinishes
  <1>6. ASSUME NEW a \in OwnerAttempts, NEW end, pulls' = [pulls EXCEPT ![a].state = end] PROVE Goal
    <2>1. Shaped([pulls[a] EXCEPT !.state = end], PullFields) /\ [pulls[a] EXCEPT !.state = end].ci = pulls[a].ci
      BY <1>0 DEF Shaped, PullFields
    <2> QED  BY <2>1, <1>3, <1>6
  <1>7. ASSUME NEW a \in OwnerAttempts, NEW end, EndedElsewhere(a, end) PROVE Goal
    BY <1>6, <1>7 DEF EndedElsewhere
  <1>8. ASSUME NEW ok \in BOOLEAN, Merge(ok) PROVE Goal
    <2>1. CASE merging.pr \in OwnerAttempts
      BY <1>1, <1>6, <1>8, <2>1 DEF Merge
    <2>2. CASE merging.pr \notin OwnerAttempts
      <3>1. UNCHANGED pulls \/ pulls' = [pulls EXCEPT ![merging.pr].state = "merged"]
        BY <1>8 DEF Merge
      <3>2. UNCHANGED pulls
        BY <3>1, <2>2, <1>0 DEF Shaped
      <3> QED  BY <3>2, <1>1
    <2> QED  BY <2>1, <2>2
  <1>9. \/ UNCHANGED pulls
        \/ \E a \in OwnerAttempts, end \in {"opened", "conflict", "failed"} : PRJob(a, end)
        \/ \E a \in OwnerAttempts : MarkedReady(a)
        \/ \E a \in OwnerAttempts, end \in CIEnds : CIFinishes(a, end)
        \/ \E a \in OwnerAttempts, end \in {"merged", "closed"} : EndedElsewhere(a, end)
        \/ \E ok \in BOOLEAN : Merge(ok)
    <2>1. ASSUME NEW a \in OwnerAttempts, JobStep(a)
          PROVE  UNCHANGED pulls \/ \E end \in {"opened", "conflict", "failed"} : PRJob(a, end)
      BY <2>1 DEF JobStep, BuildEnds, SetWaitReason, FinalizeRead, FinalizePut, raiseSystemic, Trip, RecordEnds,
         RequeueAfterConflict, RerunRecord
    <2>2. CASE \/ Reset \/ RequeueTransient \/ ClaimAgain \/ RetryReads \/ draftToSupersede \/ RetryWithNote
               \/ mergeRun \/ PullState \/ ChecksGreen \/ cancelRun \/ settleChecks \/ RecordChecks
               \/ RecordTicketsClosed \/ UNCHANGED ownerVars
      BY <2>2 DEF ownerVars, Reset, RequeueTransient, ClaimAgain, RetryReads, draftToSupersede, RetryWithNote, mergeRun,
         PullState, ChecksGreen, cancelRun, settleChecks, RecordChecks, RecordTicketsClosed
    <2>3. ASSUME NEW ok \in BOOLEAN, RecordMerge(ok) \/ settleRunChecks(ok) PROVE UNCHANGED pulls
      BY <2>3 DEF RecordMerge, settleRunChecks
    <2>4. ASSUME NEW a \in OwnerAttempts, MeasureMerged(a) PROVE UNCHANGED pulls
      BY <2>4 DEF MeasureMerged
    <2> QED  BY <2>1, <2>2, <2>3, <2>4 DEF OwnerNext
  <1> QED  BY <1>1, <1>2, <1>4, <1>5, <1>7, <1>8, <1>9

LEMMA OwnerTypeNext ==
  ASSUME OwnerTypeOK, [OwnerNext]_ownerVars
  PROVE  OwnerTypeOK'
  <1>0. MaxAttempt \in Nat /\ Shaped(checking, {"pc", "pr", "result"}) /\ Shaped(retrying, {"pc", "pr", "attempt"})
    BY OwnerAssumption DEF OwnerTypeOK
  <1>1. Shaped(checking', {"pc", "pr", "result"})
    <2>1. CASE settleChecks \/ RecordChecks
      BY <2>1 DEF settleChecks, RecordChecks, NoPollStep, Shaped
    <2>2. ASSUME NEW ok \in BOOLEAN, settleRunChecks(ok) PROVE Shaped(checking', {"pc", "pr", "result"})
      <3>1. \/ checking' = NoPollStep
            \/ \E result : checking' = [checking EXCEPT !.pc = "record", !.result = result]
        BY <2>2 DEF settleRunChecks
      <3>2. Shaped(NoPollStep, {"pc", "pr", "result"})
        BY DEF NoPollStep, Shaped
      <3>3. ASSUME NEW result PROVE Shaped([checking EXCEPT !.pc = "record", !.result = result], {"pc", "pr", "result"})
        BY <1>0 DEF Shaped
      <3> QED  BY <3>1, <3>2, <3>3
    <2>3. \/ settleChecks \/ RecordChecks \/ (\E ok \in BOOLEAN : settleRunChecks(ok)) \/ UNCHANGED checking
      <3>1. ASSUME NEW a \in OwnerAttempts, JobStep(a) PROVE UNCHANGED checking
        BY <3>1 DEF JobStep, BuildEnds, SetWaitReason, PRJob, FinalizeRead, FinalizePut, raiseSystemic, Trip, RecordEnds,
           RequeueAfterConflict, RerunRecord
      <3>2. CASE \/ Reset \/ RequeueTransient \/ ClaimAgain \/ RetryReads \/ draftToSupersede \/ RetryWithNote
                 \/ mergeRun \/ PullState \/ ChecksGreen \/ cancelRun \/ RecordTicketsClosed \/ UNCHANGED ownerVars
        BY <3>2 DEF ownerVars, Reset, RequeueTransient, ClaimAgain, RetryReads, draftToSupersede, RetryWithNote, mergeRun,
           PullState, ChecksGreen, cancelRun, RecordTicketsClosed
      <3>3. ASSUME NEW ok \in BOOLEAN, Merge(ok) \/ RecordMerge(ok) PROVE UNCHANGED checking
        BY <3>3 DEF Merge, RecordMerge
      <3>4. ASSUME NEW a \in OwnerAttempts, NEW end,
                   MeasureMerged(a) \/ MarkedReady(a) \/ CIFinishes(a, end) \/ EndedElsewhere(a, end)
            PROVE  UNCHANGED checking
        BY <3>4 DEF MeasureMerged, MarkedReady, CIFinishes, EndedElsewhere
      <3> QED  BY <3>1, <3>2, <3>3, <3>4 DEF OwnerNext
    <2> QED  BY <2>1, <2>2, <2>3, <1>0
  <1>2. /\ Shaped(retrying', {"pc", "pr", "attempt"})
        /\ retrying'.pc # "idle" => retrying'.attempt < MaxAttempt
    <2> DEFINE Goal == /\ Shaped(retrying', {"pc", "pr", "attempt"})
                       /\ retrying'.pc # "idle" => retrying'.attempt < MaxAttempt
    <2>1. CASE RetryReads
      BY <2>1 DEF RetryReads, Shaped
    <2>2. CASE retrying' = NoRetry
      BY <2>2 DEF NoRetry, Shaped
    <2>3. CASE draftToSupersede
      <3>1. retrying.pc = "pull" /\ (retrying' = NoRetry \/ retrying' = [retrying EXCEPT !.pc = "apply"])
        BY <2>3 DEF draftToSupersede
      <3>2. CASE retrying' = [retrying EXCEPT !.pc = "apply"]
        BY <1>0, <3>1, <3>2 DEF Shaped, OwnerTypeOK
      <3> QED  BY <2>2, <3>1, <3>2
    <2>4. CASE UNCHANGED retrying
      BY <1>0, <2>4 DEF OwnerTypeOK
    <2>5. RetryReads \/ draftToSupersede \/ retrying' = NoRetry \/ UNCHANGED retrying
      <3>1. ASSUME NEW a \in OwnerAttempts, JobStep(a) PROVE UNCHANGED retrying
        BY <3>1 DEF JobStep, BuildEnds, SetWaitReason, PRJob, FinalizeRead, FinalizePut, raiseSystemic, Trip, RecordEnds,
           RequeueAfterConflict, RerunRecord
      <3>2. CASE \/ Reset \/ RequeueTransient \/ ClaimAgain \/ RetryWithNote \/ settleChecks \/ RecordChecks
                 \/ mergeRun \/ PullState \/ ChecksGreen \/ cancelRun \/ RecordTicketsClosed \/ UNCHANGED ownerVars
        BY <3>2 DEF ownerVars, Reset, RequeueTransient, ClaimAgain, RetryWithNote, settleChecks, RecordChecks, mergeRun,
           PullState, ChecksGreen, cancelRun, RecordTicketsClosed
      <3>3. ASSUME NEW ok \in BOOLEAN, Merge(ok) \/ RecordMerge(ok) \/ settleRunChecks(ok) PROVE UNCHANGED retrying
        BY <3>3 DEF Merge, RecordMerge, settleRunChecks
      <3>4. ASSUME NEW a \in OwnerAttempts, NEW end,
                   MeasureMerged(a) \/ MarkedReady(a) \/ CIFinishes(a, end) \/ EndedElsewhere(a, end)
            PROVE  UNCHANGED retrying
        BY <3>4 DEF MeasureMerged, MarkedReady, CIFinishes, EndedElsewhere
      <3> QED  BY <3>1, <3>2, <3>3, <3>4 DEF OwnerNext
    <2> QED  BY <2>1, <2>2, <2>3, <2>4, <2>5
  <1> QED  BY <1>1, <1>2, JobsKeepShape, RowKeepsShape, PullsStep DEF OwnerTypeOK

LEMMA NewRowShape == Shaped(NewOwnerRow, RowFields) /\ NewOwnerRow.attempt = 0
  BY DEF NewOwnerRow, Shaped, RowFields

LEMMA OwnerTypeInit == OwnerInit => OwnerTypeOK
  <1> SUFFICES ASSUME OwnerInit PROVE OwnerTypeOK
    OBVIOUS
  <1>1. Shaped(row, RowFields) /\ row.attempt \in OwnerAttempts
    <2>1. row = NewOwnerRow
      BY DEF OwnerInit
    <2> QED  BY <2>1, AttemptsAreNat, NewRowShape
  <1>2. Shaped(NewJob, JobFields) /\ Shaped([NewJob EXCEPT !.pc = "build"], JobFields)
    <2>1. Shaped(NewJob, JobFields)
      BY DEF NewJob, Shaped, JobFields
    <2> QED  BY <2>1 DEF Shaped
  <1>3. Shaped(jobs, OwnerAttempts) /\ \A a \in OwnerAttempts : Shaped(jobs[a], JobFields)
    <2>1. jobs = [a \in OwnerAttempts |-> IF a = 0 THEN [NewJob EXCEPT !.pc = "build"] ELSE NewJob]
      BY DEF OwnerInit
    <2>2. Shaped(jobs, OwnerAttempts)
      BY <2>1 DEF Shaped
    <2> QED  BY <1>2, <2>1, <2>2
  <1>4. Shaped(pulls, OwnerAttempts) /\ \A a \in OwnerAttempts : Shaped(pulls[a], PullFields)
    <2>1. Shaped(NoPullYet, PullFields)
      BY DEF NoPullYet, Shaped, PullFields
    <2>2. pulls = [a \in OwnerAttempts |-> NoPullYet]
      BY DEF OwnerInit
    <2>3. Shaped(pulls, OwnerAttempts)
      BY <2>2 DEF Shaped
    <2> QED  BY <2>1, <2>2, <2>3
  <1>5. /\ Shaped(checking, {"pc", "pr", "result"}) /\ Shaped(retrying, {"pc", "pr", "attempt"})
        /\ retrying.pc = "idle"
    BY DEF OwnerInit, NoPollStep, NoRetry, Shaped
  <1> QED  BY <1>1, <1>3, <1>4, <1>5 DEF OwnerTypeOK

-----------------------------------------------------------------------------
(* The breaker and the owner's marks *)

LEMMA PastTripNext ==
  ASSUME OwnerTypeOK, PastTrip, [OwnerNext]_ownerVars
  PROVE  PastTrip'
  <1> DEFINE Good(pc, stop, lost) ==
        pc \in {"provider", "conflict", "ended"} /\ Systemic(stop).trips => breaker' # "never" \/ lost
  <1>1. ASSUME NEW a \in OwnerAttempts, NEW pc, NEW end, NEW pr, NEW stop, NEW lost, NEW reruns,
               JobGoes(a, pc, end, pr, stop, lost, reruns), breaker # "never" => breaker' # "never", Good(pc, stop, lost)
        PROVE  PastTrip'
    BY <1>1 DEF JobGoes, PastTrip
  <1>2. ASSUME NEW a \in OwnerAttempts, NEW end, BuildEnds(a, end) PROVE PastTrip'
    <2>1. UNCHANGED breaker
      BY <1>2 DEF BuildEnds
    <2> QED  BY <1>1, <1>2, <2>1, BuildEndsGoes
  <1>3. ASSUME NEW a \in OwnerAttempts, NEW m, NEW fails \in BOOLEAN, SetWaitReason(a, m, fails) PROVE PastTrip'
    <2>1. UNCHANGED breaker
      BY <1>3 DEF SetWaitReason
    <2> QED  BY <1>1, <1>3, <2>1, SetWaitReasonGoes
  <1>4. ASSUME NEW a \in OwnerAttempts, NEW end, PRJob(a, end) PROVE PastTrip'
    <2>1. UNCHANGED breaker
      BY <1>4 DEF PRJob
    <2> QED  BY <1>1, <1>4, <2>1, PRJobGoes
  <1>5. ASSUME NEW a \in OwnerAttempts, NEW fails \in BOOLEAN, FinalizeRead(a, fails) PROVE PastTrip'
    <2>1. UNCHANGED breaker /\ ~Systemic("").trips
      BY <1>5 DEF FinalizeRead, Systemic, breakerStops
    <2> QED  BY <1>1, <1>5, <2>1, FinalizeReadGoes
  <1>6. ASSUME NEW a \in OwnerAttempts, NEW end, NEW fault \in BOOLEAN, FinalizePut(a, end, fault) PROVE PastTrip'
    <2>1. UNCHANGED breaker
      BY <1>6 DEF FinalizePut
    <2> QED  BY <1>1, <1>6, <2>1, FinalizePutGoes
  <1>7. ASSUME NEW a \in OwnerAttempts, NEW fails \in BOOLEAN, raiseSystemic(a, fails) PROVE PastTrip'
    <2>1. UNCHANGED breaker /\ (AfterNotice(a, fails) # "trip" => ~Systemic(jobs[a].stop).trips)
      BY <1>7 DEF raiseSystemic, AfterNotice
    <2> QED  BY <1>1, <1>7, <2>1, raiseSystemicGoes
  <1>8. ASSUME NEW a \in OwnerAttempts, NEW fails \in BOOLEAN, Trip(a, fails) PROVE PastTrip'
    <2>1. breaker' = IF fails THEN breaker ELSE "tripped"
      BY <1>8 DEF Trip
    <2> QED  BY <1>1, <1>8, <2>1, TripGoes
  <1>9. ASSUME NEW a \in OwnerAttempts, RecordEnds(a) PROVE PastTrip'
    <2>1. UNCHANGED breaker /\ Good("ended", jobs[a].stop, jobs[a].lost)
      BY <1>9 DEF RecordEnds, PastTrip
    <2> QED  BY <1>1, <1>9, <2>1, RecordEndsGoes
  <1>10. ASSUME NEW a \in OwnerAttempts, RequeueAfterConflict(a) PROVE PastTrip'
    <2>1. UNCHANGED breaker /\ Good("ended", jobs[a].stop, jobs[a].lost)
      BY <1>10 DEF RequeueAfterConflict, PastTrip
    <2> QED  BY <1>1, <1>10, <2>1, RequeueAfterConflictGoes
  <1>11. ASSUME NEW a \in OwnerAttempts, RerunRecord(a) PROVE PastTrip'
    <2>1. UNCHANGED breaker
      BY <1>11 DEF RerunRecord
    <2> QED  BY <1>1, <1>11, <2>1, RerunRecordGoes
  <1>12. CASE ClaimAgain
    <2>1. UNCHANGED breaker /\ row.attempt \in OwnerAttempts
      BY <1>12 DEF ClaimAgain, OwnerTypeOK
    <2> QED  BY <1>1, <1>12, <2>1, ClaimAgainGoes
  <1>13. CASE UNCHANGED jobs /\ (breaker # "never" => breaker' # "never")
    BY <1>13 DEF PastTrip
  <1>14. ASSUME NEW a \in OwnerAttempts, JobStep(a) PROVE PastTrip'
    BY <1>2, <1>3, <1>4, <1>5, <1>6, <1>7, <1>8, <1>9, <1>10, <1>11, <1>14 DEF JobStep
  <1>15. breaker # "never" => breaker' # "never" \/ \E a \in OwnerAttempts : JobStep(a)
    BY DEF OwnerNext, ownerVars, Reset, RequeueTransient, ClaimAgain, RetryReads, draftToSupersede, RetryWithNote, mergeRun,
       PullState, ChecksGreen, Merge, RecordMerge, settleRunChecks, cancelRun, settleChecks, RecordChecks,
       RecordTicketsClosed, MeasureMerged, MarkedReady, CIFinishes, EndedElsewhere
  <1> QED  BY <1>12, <1>13, <1>14, <1>15, JobsStay

(* Whatever else of the record job fails, a systemic stop trips the        *)
(* breaker unless the trip's own write is lost (raiseSystemic, Trip).      *)
THEOREM SystemicStopsTrip == OwnerSpec => []SystemicStopTrips
  <1>1. OwnerInit => OwnerTypeOK /\ PastTrip
    <2> SUFFICES ASSUME OwnerInit PROVE PastTrip
      BY OwnerTypeInit
    <2>1. NewJob.pc = "waiting" /\ [NewJob EXCEPT !.pc = "build"].pc = "build"
      BY DEF NewJob
    <2>2. \A a \in OwnerAttempts : jobs[a].pc \in {"waiting", "build"}
      BY <2>1 DEF OwnerInit
    <2> QED  BY <2>2 DEF PastTrip
  <1>2. OwnerTypeOK /\ PastTrip /\ [OwnerNext]_ownerVars => OwnerTypeOK' /\ PastTrip'
    BY OwnerTypeNext, PastTripNext
  <1>3. PastTrip => SystemicStopTrips
    BY DEF PastTrip, SystemicStopTrips
  <1> QED  BY <1>1, <1>2, <1>3, PTL DEF OwnerSpec

-----------------------------------------------------------------------------
(* What a step does to the row *)

(* Only these fields of the row may change.                                *)
Only(fields) == Shaped(row', RowFields) /\ \A f \in RowFields \ fields : row'[f] = row[f]

LEMMA RowWaits ==
  ASSUME OwnerTypeOK, NEW a, NEW m, NEW fails \in BOOLEAN, SetWaitReason(a, m, fails)
  PROVE  Only({"wait"})
  BY DEF OwnerTypeOK, Only, Shaped, SetWaitReason

(* A put takes everything but the checks and the requeue's counts from the *)
(* record it rebuilt.                                                      *)
PutFields == {"outcome", "stop", "transient", "settled", "pr", "auto", "branches", "wait", "prior", "merged", "cancelled"}
LEMMA RowIsPut ==
  ASSUME OwnerTypeOK, NEW a, NEW end, NEW fault \in BOOLEAN, FinalizePut(a, end, fault)
  PROVE  \/ UNCHANGED row
         \/ /\ Only(PutFields)
            /\ row'.outcome = Outcome(a).outcome /\ row'.stop = Outcome(a).stop
            /\ row'.pr = (IF jobs[a].pr = "opened" THEN a ELSE NoPR)
            /\ row'.merged = jobs[a].seen.merged /\ row'.cancelled = jobs[a].seen.cancelled
  <1>0. Shaped(row, RowFields)
    BY DEF OwnerTypeOK
  <1> DEFINE r == Finalized(a, jobs[a].seen, fault)
  <1>1. UNCHANGED row \/ row' = r
    BY DEF FinalizePut
  <1>2. Shaped(r, RowFields) /\ \A f \in RowFields \ PutFields : r[f] = row[f]
    BY <1>0 DEF Finalized, Shaped, PutFields
  <1>3. /\ r.outcome = Outcome(a).outcome /\ r.stop = Outcome(a).stop
        /\ r.pr = (IF jobs[a].pr = "opened" THEN a ELSE NoPR)
        /\ r.merged = jobs[a].seen.merged /\ r.cancelled = jobs[a].seen.cancelled
    BY <1>0 DEF Finalized, Shaped, RowFields
  <1> HIDE DEF r
  <1> QED  BY <1>1, <1>2, <1>3 DEF Only

RequeueFields == {"state", "attempt", "claimed", "outcome", "stop", "transient", "cancelled", "closed", "checks", "checksOf",
                  "conflicts", "requeues", "prior", "supersedes"}
(* A requeue of a row that has ended: the next attempt waits, and the      *)
(* pull request and the merge mark stay.                                   *)
RowRequeued ==
  /\ requeueable(row) /\ row.attempt < MaxAttempt
  /\ Only(RequeueFields)
  /\ row'.state = "queued" /\ row'.attempt = row.attempt + 1
  /\ row'.outcome = "" /\ row'.stop = "" /\ row'.checks = ""
LEMMA RowIsRequeued ==
  ASSUME OwnerTypeOK, requeueable(row), row.attempt < MaxAttempt, NEW r, r = Requeued(row),
         \/ row' = [r EXCEPT !.conflicts = @ + 1]
         \/ row' = [r EXCEPT !.requeues = @ + 1]
         \/ row' = [r EXCEPT !.prior = row.settled > 0, !.supersedes = retrying.pr]
  PROVE  RowRequeued
  <1>1. Shaped(row, RowFields)
    BY DEF OwnerTypeOK
  <1>2. Shaped(r, RowFields) /\ r.state = "queued" /\ r.attempt = row.attempt + 1
        /\ r.outcome = "" /\ r.stop = "" /\ r.checks = ""
    BY <1>1, RequeuedRow
  <1>3. \A f \in RowFields \ RequeueFields : r[f] = row[f]
    BY <1>1 DEF Requeued, Shaped, RequeueFields
  <1>4. Shaped(row', RowFields)
    BY <1>2 DEF Shaped
  <1>5. \A f \in RowFields \ {"conflicts", "requeues", "prior", "supersedes"} : row'[f] = r[f]
    BY <1>2 DEF Shaped
  <1>6. Only(RequeueFields)
    BY <1>3, <1>4, <1>5 DEF Only, RequeueFields
  <1>7. row'.state = r.state /\ row'.attempt = r.attempt /\ row'.outcome = r.outcome /\ row'.stop = r.stop /\ row'.checks = r.checks
    BY <1>5 DEF RowFields
  <1> QED  BY <1>2, <1>6, <1>7 DEF RowRequeued

LEMMA RowAfterConflict ==
  ASSUME OwnerTypeOK, NEW a, RequeueAfterConflict(a)
  PROVE  UNCHANGED row \/ RowRequeued
  <1>1. \/ UNCHANGED row
        \/ requeueable(row) /\ row.attempt < MaxAttempt /\ row' = [Requeued(row) EXCEPT !.conflicts = @ + 1]
    BY DEF RequeueAfterConflict
  <1> QED  BY <1>1, RowIsRequeued

LEMMA RowAfterTransient ==
  ASSUME OwnerTypeOK, RequeueTransient
  PROVE  ~Rerunning /\ RowRequeued
  BY RowIsRequeued DEF RequeueTransient

LEMMA RowAfterRetry ==
  ASSUME OwnerTypeOK, RetryWithNote
  PROVE  UNCHANGED row \/ (~Rerunning /\ RowRequeued)
  <1>1. \/ UNCHANGED row
        \/ /\ ~Rerunning /\ requeueable(row) /\ row.attempt < MaxAttempt
           /\ row' = [Requeued(row) EXCEPT !.prior = row.settled > 0, !.supersedes = retrying.pr]
    BY DEF RetryWithNote, OwnerTypeOK
  <1> QED  BY <1>1, RowIsRequeued

LEMMA RowIsClaimed ==
  ASSUME OwnerTypeOK, ClaimAgain
  PROVE  Only({"state", "claimed"}) /\ row'.state = "claimed" /\ row.state = "queued" /\ jobs[row.attempt - 1].pc = "ended"
  BY DEF OwnerTypeOK, Only, Shaped, ClaimAgain, RowFields

LEMMA RowIsMarked ==
  ASSUME OwnerTypeOK
  PROVE  /\ cancelRun => Only({"cancelled"}) /\ row'.cancelled = TRUE
         /\ RecordTicketsClosed => Only({"closed"})
         /\ \A a : MeasureMerged(a) => Only({"measured"})
         /\ \A fails \in BOOLEAN : RecordMerge(fails) => UNCHANGED row \/ (Only({"merged"}) /\ row'.merged = TRUE)
  <1>0. Shaped(row, RowFields)
    BY DEF OwnerTypeOK
  <1>1. cancelRun => Only({"cancelled"}) /\ row'.cancelled = TRUE
    BY <1>0 DEF Only, Shaped, cancelRun, RowFields
  <1>2. RecordTicketsClosed => Only({"closed"})
    BY <1>0 DEF Only, Shaped, RecordTicketsClosed
  <1>3. \A a : MeasureMerged(a) => Only({"measured"})
    BY <1>0 DEF Only, Shaped, MeasureMerged
  <1>4. \A fails \in BOOLEAN : RecordMerge(fails) => UNCHANGED row \/ (Only({"merged"}) /\ row'.merged = TRUE)
    BY <1>0 DEF Only, Shaped, RecordMerge, RowFields
  <1> QED  BY <1>1, <1>2, <1>3, <1>4

LEMMA RowChecked ==
  ASSUME OwnerTypeOK, RecordChecks
  PROVE  \/ UNCHANGED row
         \/ /\ Only({"checks", "checksOf"}) /\ TakesChecks(row, checking.pr)
            /\ row'.checks = checking.result /\ row'.checksOf = checking.pr
  BY DEF OwnerTypeOK, Only, Shaped, RecordChecks, RowFields

(* The steps that write the row. *)
LEMMA RowStep ==
  ASSUME [OwnerNext]_ownerVars
  PROVE  \/ UNCHANGED row
         \/ \E a \in OwnerAttempts, m \in OwnerCases, fails \in BOOLEAN : SetWaitReason(a, m, fails)
         \/ \E a \in OwnerAttempts, end \in {"settled", "not settled", "not put"}, fault \in BOOLEAN : FinalizePut(a, end, fault)
         \/ \E a \in OwnerAttempts : RequeueAfterConflict(a) \/ MeasureMerged(a)
         \/ RequeueTransient \/ RetryWithNote \/ ClaimAgain \/ RecordChecks \/ cancelRun \/ RecordTicketsClosed
         \/ \E fails \in BOOLEAN : RecordMerge(fails)
  <1>1. ASSUME NEW a \in OwnerAttempts, JobStep(a)
        PROVE  \/ UNCHANGED row
               \/ \E m \in OwnerCases, fails \in BOOLEAN : SetWaitReason(a, m, fails)
               \/ \E end \in {"settled", "not settled", "not put"}, fault \in BOOLEAN : FinalizePut(a, end, fault)
               \/ RequeueAfterConflict(a)
    BY <1>1 DEF JobStep, BuildEnds, PRJob, FinalizeRead, raiseSystemic, Trip, RecordEnds, RerunRecord
  <1>2. \/ UNCHANGED row \/ (\E a \in OwnerAttempts : JobStep(a) \/ MeasureMerged(a))
        \/ RequeueTransient \/ RetryWithNote \/ ClaimAgain \/ RecordChecks \/ cancelRun \/ RecordTicketsClosed
        \/ \E fails \in BOOLEAN : RecordMerge(fails)
    BY DEF OwnerNext, ownerVars, Reset, RetryReads, draftToSupersede, mergeRun, PullState, ChecksGreen, Merge,
       settleRunChecks, settleChecks, MarkedReady, CIFinishes, EndedElsewhere
  <1> QED  BY <1>1, <1>2

(* Merge and cancel marks are only taken off by a requeue, which lets a    *)
(* cancelled run be retried, or by a put built on a row read before the    *)
(* mark (RecordMerge, RecordCancel and Finalize's carry-over).             *)
THEOREM MarksAreKept == OwnerSpec => MarksStand
  <1> DEFINE overtaken(mark) == \E a \in OwnerAttempts :
               jobs[a].pc = "put" /\ jobs'[a].pc # "put" /\ ~jobs[a].seen[mark]
             Kept == /\ row.merged /\ ~row'.merged => overtaken("merged")
                     /\ row.cancelled /\ ~row'.cancelled => overtaken("cancelled") \/ row'.attempt > row.attempt
  <1>1. ASSUME OwnerTypeOK, [OwnerNext]_ownerVars PROVE Kept
    <2>1. ASSUME NEW fields, Only(fields), "merged" \notin fields, "cancelled" \notin fields PROVE Kept
      BY <2>1 DEF Only, RowFields
    <2>2. CASE UNCHANGED row
      BY <2>2
    <2>3. ASSUME NEW a \in OwnerAttempts, NEW m, NEW fails \in BOOLEAN, SetWaitReason(a, m, fails) PROVE Kept
      <3>1. Only({"wait"})
        BY <1>1, <2>3, RowWaits
      <3> QED  BY <2>1, <3>1
    <2>4. ASSUME NEW a \in OwnerAttempts, NEW end, NEW fault \in BOOLEAN, FinalizePut(a, end, fault) PROVE Kept
      <3>1. jobs[a].pc = "put" /\ jobs'[a].pc = "notice"
        BY <1>1, <2>4, FinalizePutGoes DEF FinalizePut, JobGoes
      <3>2. \/ UNCHANGED row
            \/ row'.merged = jobs[a].seen.merged /\ row'.cancelled = jobs[a].seen.cancelled
        BY <1>1, <2>4, RowIsPut
      <3> QED  BY <3>1, <3>2
    <2>5. ASSUME RowRequeued PROVE Kept
      <3>1. Only(RequeueFields) /\ row'.attempt = row.attempt + 1 /\ row.attempt \in Nat
        BY <1>1, <2>5, AttemptsAreNat DEF RowRequeued, OwnerTypeOK
      <3>2. row'.merged = row.merged
        BY <3>1 DEF Only, RowFields, RequeueFields
      <3> QED  BY <3>1, <3>2
    <2>6. CASE ClaimAgain
      BY <1>1, <2>1, <2>6, RowIsClaimed
    <2>7. CASE RecordChecks
      BY <1>1, <2>1, <2>2, <2>7, RowChecked
    <2>8. CASE cancelRun
      <3>1. Only({"cancelled"}) /\ row'.cancelled = TRUE
        BY <1>1, <2>8, RowIsMarked
      <3> QED  BY <3>1 DEF Only, RowFields
    <2>9. ASSUME NEW fails \in BOOLEAN, RecordMerge(fails) PROVE Kept
      <3>1. UNCHANGED row \/ (Only({"merged"}) /\ row'.merged = TRUE)
        BY <1>1, <2>9, RowIsMarked
      <3> QED  BY <3>1 DEF Only, RowFields
    <2>10. ASSUME NEW a, RecordTicketsClosed \/ MeasureMerged(a) PROVE Kept
      <3>1. Only({"closed"}) \/ Only({"measured"})
        BY <1>1, <2>10, RowIsMarked
      <3> QED  BY <2>1, <3>1
    <2> HIDE DEF Kept
    <2>11. CASE RequeueTransient \/ RetryWithNote \/ \E a \in OwnerAttempts : RequeueAfterConflict(a)
      BY <1>1, <2>2, <2>5, <2>11, RowAfterConflict, RowAfterTransient, RowAfterRetry
    <2> QED  BY <1>1, RowStep, <2>2, <2>3, <2>4, <2>6, <2>7, <2>8, <2>9, <2>10, <2>11
  <1>2. OwnerTypeOK /\ [OwnerNext]_ownerVars => OwnerTypeOK'
    BY OwnerTypeNext
  <1>3. OwnerTypeOK /\ [OwnerNext]_ownerVars => [Kept]_ownerVars
    BY <1>1
  <1> QED  BY OwnerTypeInit, <1>2, <1>3, PTL DEF OwnerSpec, MarksStand

-----------------------------------------------------------------------------
(* The checks a row shows *)

(* The part of the row the invariant speaks of stays.                      *)
KeepsRow ==
  /\ row'.state = row.state /\ row'.attempt = row.attempt /\ row'.outcome = row.outcome /\ row'.stop = row.stop
  /\ row'.pr = row.pr /\ row'.checks = row.checks /\ row'.checksOf = row.checksOf

LEMMA OnlyKeepsRow ==
  ASSUME NEW fields, Only(fields),
         fields \cap {"state", "attempt", "outcome", "stop", "pr", "checks", "checksOf"} = {}
  PROVE  KeepsRow
  BY DEF Only, KeepsRow, RowFields

(* What an opened pull request's checks came to stands.                    *)
LEMMA OpenedChecksStand ==
  ASSUME OwnerIInv, [OwnerNext]_ownerVars, NEW b \in OwnerAttempts, jobs[b].pr = "opened"
  PROVE  pulls'[b].ci = pulls[b].ci \/ pulls[b].ci = "pending"
  <1>1. jobs[b].pc # "pr"
    BY DEF OwnerIInv, PullsAreOfJobs
  <1> QED  BY <1>1, PullsStep DEF OwnerIInv

(* The rest of PullsAreOfJobs, and the property, where the row and the     *)
(* poll stay and no opened pull request is forgotten.                      *)
PullsOfRow ==
  /\ row.pr # NoPR => row.pr \in OwnerAttempts /\ jobs[row.pr].pr = "opened"
  /\ row.outcome = "pr-opened" => row.pr = row.attempt
  /\ row.checks # "" => row.pr = row.attempt
  /\ row.checks # "pending"
PullsOfPoll ==
  /\ checking.pc # "idle" => checking.pr \in OwnerAttempts /\ jobs[checking.pr].pr = "opened"
  /\ checking.pc = "record" => /\ checking.result \in {"unresolved", pulls[checking.pr].ci}
                               /\ checking.result # "pending"
JobsInOrder ==
  \A b \in OwnerAttempts :
       /\ jobs[b].pr = "opened" => jobs[b].pc \notin {"waiting", "build", "meta", "pr"}
       /\ jobs[b].pc \notin {"waiting", "build"} => jobs[b].end \in Ends
LEMMA PullsParts == /\ PullsAreOfJobs <=> JobsInOrder /\ PullsOfRow /\ PullsOfPoll
                    /\ PullsAreOfJobs' <=> JobsInOrder' /\ PullsOfRow' /\ PullsOfPoll'
  BY DEF PullsAreOfJobs, JobsInOrder, PullsOfRow, PullsOfPoll

LEMMA PollKeeps ==
  ASSUME OwnerIInv, [OwnerNext]_ownerVars, UNCHANGED checking,
         \A b \in OwnerAttempts : jobs[b].pr = "opened" => jobs'[b].pr = "opened"
  PROVE  PullsOfPoll'
  <1>1. PullsOfPoll
    BY PullsParts DEF OwnerIInv
  <1>2. checking.pc # "idle" => pulls'[checking.pr].ci = pulls[checking.pr].ci \/ pulls[checking.pr].ci = "pending"
    BY <1>1, OpenedChecksStand DEF PullsOfPoll
  <1> QED  BY <1>1, <1>2 DEF PullsOfPoll

LEMMA RowKeeps ==
  ASSUME OwnerIInv, [OwnerNext]_ownerVars, KeepsRow,
         \A b \in OwnerAttempts : jobs[b].pr = "opened" => jobs'[b].pr = "opened"
  PROVE  PullsOfRow' /\ ChecksAreOfThisPR'
  <1>1. PullsOfRow /\ ChecksAreOfThisPR
    BY PullsParts DEF OwnerIInv
  <1>2. row.attempt \in OwnerAttempts /\ row.attempt \in Nat
    BY AttemptsAreNat DEF OwnerIInv, OwnerTypeOK
  <1>3. PullsOfRow'
    BY <1>1 DEF PullsOfRow, KeepsRow
  <1>4. row.checks # "" => row.pr # NoPR
    <2>1. row.attempt # NoPR
      BY <1>2 DEF NoPR
    <2> QED  BY <1>1, <2>1 DEF PullsOfRow
  <1>5. row.checks # "" => pulls'[row.pr].ci = pulls[row.pr].ci \/ pulls[row.pr].ci = "pending"
    BY <1>1, <1>4, OpenedChecksStand DEF PullsOfRow
  <1> QED  BY <1>1, <1>3, <1>5 DEF PullsOfRow, ChecksAreOfThisPR, KeepsRow

(* Where the job of attempt a may go while the row stays.                  *)
MayGo(a, pc, end, pr, reruns) ==
  /\ pc # "waiting" /\ jobs[a].pc # "waiting"
  /\ pc \in {"build", "meta", "pr", "read", "put"} => a = row.attempt /\ row.state = "claimed"
  /\ pc # "ended" => a = row.attempt \/ (a = row.attempt - 1 /\ row.state = "queued")
  /\ hasEnded(row) /\ a = row.attempt => pc \notin {"build", "meta", "pr"} /\ (pc \in {"read", "put"} => reruns > 0)
  /\ pr = "opened" => pc \notin {"build", "meta", "pr"}
  /\ pc # "build" => end \in Ends
  /\ jobs[a].pr = "opened" => pr = "opened"
OwnerGoal == AttemptsInOrder' /\ PullsAreOfJobs' /\ ChecksAreOfThisPR'

LEMMA JobOnly ==
  ASSUME OwnerIInv, [OwnerNext]_ownerVars, KeepsRow, UNCHANGED checking, NEW a \in OwnerAttempts,
         NEW pc, NEW end, NEW pr, NEW stop, NEW lost, NEW reruns,
         JobGoes(a, pc, end, pr, stop, lost, reruns), MayGo(a, pc, end, pr, reruns)
  PROVE  OwnerGoal
  <1>1. AttemptsInOrder'
    <2>1. row.attempt \in OwnerAttempts /\ AttemptsInOrder
      BY DEF OwnerIInv, OwnerTypeOK
    <2>2. hasEnded(row') <=> hasEnded(row)
      BY DEF KeepsRow, hasEnded
    <2>3. hasEnded(row') =>
             /\ row'.state = "claimed"
             /\ jobs'[row'.attempt].pc \notin {"waiting", "build", "meta", "pr"}
             /\ jobs'[row'.attempt].pc \in {"read", "put"} => jobs'[row'.attempt].reruns > 0
      BY <2>1, <2>2 DEF AttemptsInOrder, KeepsRow, JobGoes, MayGo
    <2>4. \A b \in OwnerAttempts :
             /\ b > row'.attempt \/ (b = row'.attempt /\ row'.state = "queued") => jobs'[b].pc = "waiting"
             /\ jobs'[b].pc \in {"build", "meta", "pr", "read", "put"} => b = row'.attempt /\ row'.state = "claimed"
             /\ jobs'[b].pc \notin {"waiting", "ended"} => b = row'.attempt \/ (b = row'.attempt - 1 /\ row'.state = "queued")
      BY <2>1 DEF AttemptsInOrder, KeepsRow, JobGoes, MayGo
    <2> QED  BY <2>3, <2>4 DEF AttemptsInOrder
  <1>2. \A b \in OwnerAttempts : jobs[b].pr = "opened" => jobs'[b].pr = "opened"
    BY DEF JobGoes, MayGo
  <1>3. JobsInOrder'
    BY PullsParts DEF OwnerIInv, JobsInOrder, JobGoes, MayGo
  <1> QED  BY <1>1, <1>2, <1>3, PollKeeps, RowKeeps, PullsParts DEF OwnerGoal

(* A step that moves no job and leaves this part of the row.               *)
LEMMA NoJob ==
  ASSUME OwnerIInv, [OwnerNext]_ownerVars, KeepsRow, UNCHANGED <<jobs, checking>>
  PROVE  OwnerGoal
  <1>1. AttemptsInOrder'
    <2>1. hasEnded(row') <=> hasEnded(row)
      BY DEF KeepsRow, hasEnded
    <2> QED  BY <2>1 DEF OwnerIInv, AttemptsInOrder, KeepsRow
  <1>2. JobsInOrder'
    BY PullsParts DEF OwnerIInv, JobsInOrder
  <1> QED  BY <1>1, <1>2, PollKeeps, RowKeeps, PullsParts DEF OwnerGoal

(* The jobs go on. *)
LEMMA JobsOwnerIInv ==
  ASSUME OwnerIInv, [OwnerNext]_ownerVars, NEW a \in OwnerAttempts, JobStep(a),
         KeepsRow, ~RequeueAfterConflict(a)
  PROVE  OwnerGoal
  <1>0. OwnerTypeOK /\ AttemptsInOrder /\ JobsInOrder /\ row.attempt \in Nat /\ a \in Nat
    BY PullsParts, AttemptsAreNat DEF OwnerIInv, OwnerTypeOK
  <1>a. /\ a > row.attempt \/ (a = row.attempt /\ row.state = "queued") => jobs[a].pc = "waiting"
        /\ jobs[a].pc \in {"build", "meta", "pr", "read", "put"} => a = row.attempt /\ row.state = "claimed"
        /\ jobs[a].pc \notin {"waiting", "ended"} => a = row.attempt \/ (a = row.attempt - 1 /\ row.state = "queued")
    BY <1>0 DEF AttemptsInOrder
  <1>b. hasEnded(row) /\ a = row.attempt =>
          /\ jobs[a].pc \notin {"waiting", "build", "meta", "pr"}
          /\ jobs[a].pc \in {"read", "put"} => jobs[a].reruns > 0
    BY <1>0 DEF AttemptsInOrder
  <1>c. /\ jobs[a].pr = "opened" => jobs[a].pc \notin {"waiting", "build", "meta", "pr"}
        /\ jobs[a].pc \notin {"waiting", "build"} => jobs[a].end \in Ends
    BY <1>0 DEF JobsInOrder
  <1>1. ASSUME NEW end \in Ends, BuildEnds(a, end) PROVE OwnerGoal
    <2>1. jobs[a].pc = "build" /\ UNCHANGED checking
      BY <1>1 DEF BuildEnds
    <2>2. MayGo(a, IF end = "built" THEN "meta" ELSE "read", end, jobs[a].pr, jobs[a].reruns)
      BY <1>1, <1>a, <1>b, <1>c, <2>1 DEF MayGo
    <2> QED  BY <1>0, <1>1, <2>1, <2>2, BuildEndsGoes, JobOnly
  <1>2. ASSUME NEW m, NEW fails \in BOOLEAN, SetWaitReason(a, m, fails) PROVE OwnerGoal
    <2>1. jobs[a].pc = "meta" /\ UNCHANGED checking
      BY <1>2 DEF SetWaitReason
    <2>2. MayGo(a, "pr", jobs[a].end, jobs[a].pr, jobs[a].reruns)
      BY <1>a, <1>b, <1>c, <2>1 DEF MayGo
    <2> QED  BY <1>0, <1>2, <2>1, <2>2, SetWaitReasonGoes, JobOnly
  <1>3. ASSUME NEW end, PRJob(a, end) PROVE OwnerGoal
    <2>1. jobs[a].pc = "pr" /\ UNCHANGED checking
      BY <1>3 DEF PRJob
    <2>2. MayGo(a, "read", jobs[a].end, end, jobs[a].reruns)
      BY <1>a, <1>b, <1>c, <2>1 DEF MayGo
    <2> QED  BY <1>0, <1>3, <2>1, <2>2, PRJobGoes, JobOnly
  <1>4. ASSUME NEW fails \in BOOLEAN, FinalizeRead(a, fails) PROVE OwnerGoal
    <2>1. jobs[a].pc = "read" /\ UNCHANGED checking
      BY <1>4 DEF FinalizeRead
    <2>2. MayGo(a, IF fails THEN "ended" ELSE "put", jobs[a].end, jobs[a].pr, jobs[a].reruns)
      BY <1>a, <1>b, <1>c, <2>1 DEF MayGo
    <2> QED  BY <1>0, <1>4, <2>1, <2>2, FinalizeReadGoes, JobOnly
  <1>5. ASSUME NEW end, NEW fault \in BOOLEAN, FinalizePut(a, end, fault) PROVE OwnerGoal
    <2>1. jobs[a].pc = "put" /\ UNCHANGED checking
      BY <1>5 DEF FinalizePut
    <2>2. MayGo(a, "notice", jobs[a].end, jobs[a].pr, jobs[a].reruns)
      BY <1>a, <1>b, <1>c, <2>1 DEF MayGo
    <2> QED  BY <1>0, <1>5, <2>1, <2>2, FinalizePutGoes, JobOnly
  <1>6. ASSUME NEW fails \in BOOLEAN, raiseSystemic(a, fails) PROVE OwnerGoal
    <2>1. jobs[a].pc = "notice" /\ UNCHANGED checking /\ AfterNotice(a, fails) \in {"trip", "provider"}
      BY <1>6 DEF raiseSystemic, AfterNotice
    <2>2. MayGo(a, AfterNotice(a, fails), jobs[a].end, jobs[a].pr, jobs[a].reruns)
      BY <1>a, <1>b, <1>c, <2>1 DEF MayGo
    <2> QED  BY <1>0, <1>6, <2>1, <2>2, raiseSystemicGoes, JobOnly
  <1>7. ASSUME NEW fails \in BOOLEAN, Trip(a, fails) PROVE OwnerGoal
    <2>1. jobs[a].pc = "trip" /\ UNCHANGED checking
      BY <1>7 DEF Trip
    <2>2. MayGo(a, "provider", jobs[a].end, jobs[a].pr, jobs[a].reruns)
      BY <1>a, <1>b, <1>c, <2>1 DEF MayGo
    <2> QED  BY <1>0, <1>7, <2>1, <2>2, TripGoes, JobOnly
  <1>8. CASE RecordEnds(a)
    <2>1. jobs[a].pc = "provider" /\ UNCHANGED checking
      BY <1>8 DEF RecordEnds
    <2>2. PICK pc \in {"conflict", "ended"} : JobGoes(a, pc, jobs[a].end, jobs[a].pr, jobs[a].stop, jobs[a].lost, jobs[a].reruns)
      BY <1>0, <1>8, RecordEndsGoes
    <2>3. MayGo(a, pc, jobs[a].end, jobs[a].pr, jobs[a].reruns)
      BY <1>a, <1>b, <1>c, <2>1, <2>2 DEF MayGo
    <2> QED  BY <2>1, <2>2, <2>3, JobOnly
  <1>9. CASE RerunRecord(a)
    <2>1. jobs[a].pc = "ended" /\ row.attempt = a /\ row.state = "claimed" /\ UNCHANGED checking
      BY <1>9 DEF RerunRecord
    <2>2. MayGo(a, "read", jobs[a].end, jobs[a].pr, 1)
      BY <1>a, <1>b, <1>c, <2>1 DEF MayGo
    <2> QED  BY <1>0, <1>9, <2>1, <2>2, RerunRecordGoes, JobOnly
  <1> QED  BY <1>1, <1>2, <1>3, <1>4, <1>5, <1>6, <1>7, <1>8, <1>9 DEF JobStep

(* Only a build that opened its pull request puts pr-opened on the row.    *)
LEMMA OpenedOutcome ==
  ASSUME NEW a \in OwnerAttempts, jobs[a].end \in Ends, Outcome(a).outcome = "pr-opened"
  PROVE  jobs[a].pr = "opened"
  <1>1. jobs[a].end \in {"built", "no changes", "exit", "outage", "allowance", "identity", "no summary"}
    BY OwnerAssumption
  <1>2. CASE jobs[a].end # "built"
    BY <1>1, <1>2 DEF Outcome, Ending
  <1>3. CASE jobs[a].end = "built"
    BY <1>3 DEF Outcome
  <1> QED  BY <1>2, <1>3

(* The record put: the attempt's own, so the checks already on the row are *)
(* those of the pull request it names again.                               *)
LEMMA PutOwnerIInv ==
  ASSUME OwnerIInv, [OwnerNext]_ownerVars, NEW a \in OwnerAttempts, NEW end, NEW fault \in BOOLEAN,
         FinalizePut(a, end, fault), ~UNCHANGED row
  PROVE  OwnerGoal
  <1>0. /\ OwnerTypeOK /\ AttemptsInOrder /\ JobsInOrder /\ PullsOfRow /\ ChecksAreOfThisPR
        /\ row.attempt \in OwnerAttempts /\ row.attempt \in Nat
    BY PullsParts, AttemptsAreNat DEF OwnerIInv, OwnerTypeOK
  <1>1. jobs[a].pc = "put" /\ UNCHANGED checking
    BY DEF FinalizePut
  <1>2. a = row.attempt /\ row.state = "claimed" /\ jobs[a].end \in Ends
    BY <1>0, <1>1 DEF AttemptsInOrder, JobsInOrder
  <1>3. JobGoes(a, "notice", jobs[a].end, jobs[a].pr, Outcome(a).stop, jobs[a].lost, jobs[a].reruns)
    BY <1>0, FinalizePutGoes
  <1>4. Only(PutFields) /\ row'.outcome = Outcome(a).outcome /\ row'.pr = (IF jobs[a].pr = "opened" THEN a ELSE NoPR)
    BY <1>0, RowIsPut
  <1>5. /\ row'.state = row.state /\ row'.attempt = row.attempt
        /\ row'.checks = row.checks /\ row'.checksOf = row.checksOf
    BY <1>4 DEF Only, PutFields, RowFields
  <1>6. \A b \in OwnerAttempts : /\ jobs[b].pr = "opened" => jobs'[b].pr = "opened"
                                 /\ jobs'[b].pc = (IF b = a THEN "notice" ELSE jobs[b].pc)
    BY <1>3 DEF JobGoes
  <1>7. AttemptsInOrder'
    BY <1>0, <1>2, <1>5, <1>6 DEF AttemptsInOrder
  <1>8. JobsInOrder'
    BY <1>0, <1>1, <1>2, <1>3 DEF JobsInOrder, JobGoes
  <1>9. row.attempt # NoPR
    BY <1>0 DEF NoPR
  <1>10. row.checks # "" => row.pr = a /\ jobs[a].pr = "opened" /\ row'.pr = row.pr
    BY <1>0, <1>2, <1>4, <1>9 DEF PullsOfRow
  <1>11. PullsOfRow'
    <2>1. row'.pr # NoPR => row'.pr \in OwnerAttempts /\ jobs'[row'.pr].pr = "opened"
      BY <1>4, <1>6
    <2>2. row'.outcome = "pr-opened" => row'.pr = row'.attempt
      BY <1>2, <1>4, <1>5, OpenedOutcome
    <2>3. (row'.checks # "" => row'.pr = row'.attempt) /\ row'.checks # "pending"
      BY <1>0, <1>2, <1>5, <1>10 DEF PullsOfRow
    <2> QED  BY <2>1, <2>2, <2>3 DEF PullsOfRow
  <1>12. ChecksAreOfThisPR'
    <2>1. row.checks # "" => pulls'[row.pr].ci = pulls[row.pr].ci \/ pulls[row.pr].ci = "pending"
      BY <1>10, OpenedChecksStand
    <2> QED  BY <1>0, <1>5, <1>10, <2>1 DEF ChecksAreOfThisPR, PullsOfRow
  <1> QED  BY <1>1, <1>6, <1>7, <1>8, <1>11, <1>12, PollKeeps, PullsParts DEF OwnerGoal

(* A requeue: no job of the attempt it ends is before its put.             *)
LEMMA RequeueOwnerIInv ==
  ASSUME OwnerIInv, [OwnerNext]_ownerVars, RowRequeued, UNCHANGED checking,
         \A b \in OwnerAttempts :
           /\ jobs'[b].pr = jobs[b].pr /\ jobs'[b].end = jobs[b].end
           /\ jobs'[b].pc = jobs[b].pc \/ (jobs[b].pc = "conflict" /\ jobs'[b].pc = "ended"),
         ~Rerunning \/ \E b \in OwnerAttempts : jobs[b].pc = "conflict"
  PROVE  OwnerGoal
  <1>0. /\ OwnerTypeOK /\ AttemptsInOrder /\ JobsInOrder /\ PullsOfRow
        /\ row.attempt \in OwnerAttempts /\ row.attempt \in Nat /\ \A b \in OwnerAttempts : b \in Nat
    BY PullsParts, AttemptsAreNat DEF OwnerIInv, OwnerTypeOK
  <1>1. /\ row.state = "claimed" /\ hasEnded(row)
        /\ row'.state = "queued" /\ row'.attempt = row.attempt + 1
        /\ row'.outcome = "" /\ row'.stop = "" /\ row'.checks = ""
    BY DEF RowRequeued, requeueable
  <1>2. row'.pr = row.pr
    BY DEF RowRequeued, Only, RowFields, RequeueFields
  <1>3. ASSUME NEW b \in OwnerAttempts PROVE jobs[b].pc \notin {"build", "meta", "pr", "read", "put"}
    <2>1. CASE b = row.attempt
      <3>1. jobs[b].pc \notin {"build", "meta", "pr"} /\ (jobs[b].pc \in {"read", "put"} => jobs[b].reruns > 0)
        BY <1>0, <1>1, <2>1 DEF AttemptsInOrder
      <3>2. ~Rerunning => ~(jobs[b].reruns > 0 /\ jobs[b].pc \in {"read", "put"})
        BY DEF Rerunning
      <3>3. (\E c \in OwnerAttempts : jobs[c].pc = "conflict") => jobs[b].pc = "conflict"
        BY <1>0, <1>1, <2>1 DEF AttemptsInOrder
      <3> QED  BY <3>1, <3>2, <3>3
    <2>2. CASE b # row.attempt
      BY <1>0, <2>2 DEF AttemptsInOrder
    <2> QED  BY <2>1, <2>2
  <1>4. AttemptsInOrder'
    <2>1. ~hasEnded(row')
      BY <1>1 DEF hasEnded
    <2>2. ASSUME NEW b \in OwnerAttempts
          PROVE
             /\ b > row'.attempt \/ (b = row'.attempt /\ row'.state = "queued") => jobs'[b].pc = "waiting"
             /\ jobs'[b].pc \in {"build", "meta", "pr", "read", "put"} => b = row'.attempt /\ row'.state = "claimed"
             /\ jobs'[b].pc \notin {"waiting", "ended"} => b = row'.attempt \/ (b = row'.attempt - 1 /\ row'.state = "queued")
      <3>1. /\ b > row.attempt => jobs[b].pc = "waiting"
            /\ jobs[b].pc \notin {"waiting", "ended"} => b = row.attempt
        BY <1>0, <1>1 DEF AttemptsInOrder
      <3>2. (b > row'.attempt \/ b = row'.attempt => b > row.attempt) /\ row'.attempt - 1 = row.attempt
        <4>1. \A x, y, z \in Nat : y = x + 1 => (z > y \/ z = y => z > x) /\ y - 1 = x
          OBVIOUS
        <4>2. row.attempt \in Nat /\ b \in Nat
          BY <1>0
        <4>3. row'.attempt = row.attempt + 1
          BY <1>1
        <4>4. row'.attempt \in Nat
          BY <4>2, <4>3
        <4> QED  BY <4>1, <4>2, <4>3, <4>4
      <3>3. jobs[b].pc \notin {"build", "meta", "pr", "read", "put"} /\ row'.state = "queued"
        BY <1>1, <1>3
      <3> QED  BY <3>1, <3>2, <3>3
    <2> QED  BY <2>1, <2>2 DEF AttemptsInOrder
  <1>5. JobsInOrder'
    BY <1>0 DEF JobsInOrder
  <1>6. PullsOfRow' /\ ChecksAreOfThisPR'
    BY <1>0, <1>1, <1>2 DEF PullsOfRow, ChecksAreOfThisPR
  <1> QED  BY <1>4, <1>5, <1>6, PollKeeps, PullsParts DEF OwnerGoal

LEMMA ClaimOwnerIInv ==
  ASSUME OwnerIInv, [OwnerNext]_ownerVars, ClaimAgain
  PROVE  OwnerGoal
  <1>0. /\ OwnerTypeOK /\ AttemptsInOrder /\ JobsInOrder /\ PullsOfRow /\ ChecksAreOfThisPR
        /\ row.attempt \in OwnerAttempts /\ row.attempt \in Nat /\ \A b \in OwnerAttempts : b \in Nat
    BY PullsParts, AttemptsAreNat DEF OwnerIInv, OwnerTypeOK
  <1>1. PICK a \in OwnerAttempts : a = row.attempt
    BY <1>0
  <1>2. /\ Only({"state", "claimed"}) /\ row'.state = "claimed" /\ row.state = "queued"
        /\ jobs[row.attempt - 1].pc = "ended" /\ UNCHANGED checking
    BY <1>0, RowIsClaimed DEF ClaimAgain
  <1>3. /\ row'.attempt = row.attempt /\ row'.outcome = row.outcome /\ row'.stop = row.stop /\ row'.pr = row.pr
        /\ row'.checks = row.checks /\ row'.checksOf = row.checksOf
    BY <1>2 DEF Only, RowFields
  <1>4. JobGoes(a, "build", jobs[a].end, jobs[a].pr, jobs[a].stop, jobs[a].lost, jobs[a].reruns)
    BY <1>0, <1>1, ClaimAgainGoes
  <1>5. jobs[a].pc = "waiting" /\ ~hasEnded(row) /\ jobs[a].pr # "opened"
    BY <1>0, <1>1, <1>2 DEF AttemptsInOrder, JobsInOrder
  <1>6. AttemptsInOrder'
    <2>1. ~hasEnded(row')
      BY <1>3, <1>5 DEF hasEnded
    <2>2. ASSUME NEW b \in OwnerAttempts
          PROVE  /\ b > row'.attempt \/ (b = row'.attempt /\ row'.state = "queued") => jobs'[b].pc = "waiting"
                 /\ jobs'[b].pc \in {"build", "meta", "pr", "read", "put"} => b = row'.attempt /\ row'.state = "claimed"
                 /\ jobs'[b].pc \notin {"waiting", "ended"} => b = row'.attempt \/ (b = row'.attempt - 1 /\ row'.state = "queued")
      <3>1. CASE b = a
        <4>1. jobs'[b].pc = "build" /\ b = row'.attempt /\ row'.attempt \in Nat
          BY <1>0, <1>1, <1>3, <1>4, <3>1 DEF JobGoes
        <4> QED  BY <1>2, <4>1
      <3>2. CASE b # a
        <4>1. jobs'[b].pc = jobs[b].pc
          BY <1>4, <3>2 DEF JobGoes
        <4>2. /\ b > row.attempt => jobs[b].pc = "waiting"
              /\ jobs[b].pc \notin {"build", "meta", "pr", "read", "put"}
              /\ jobs[b].pc \notin {"waiting", "ended"} => b = row.attempt - 1
          BY <1>0, <1>1, <1>2, <3>2 DEF AttemptsInOrder
        <4> QED  BY <1>2, <1>3, <4>1, <4>2
      <3> QED  BY <3>1, <3>2
    <2> QED  BY <2>1, <2>2 DEF AttemptsInOrder
  <1>7. \A b \in OwnerAttempts : jobs'[b].pr = jobs[b].pr
    BY <1>4 DEF JobGoes
  <1>8. JobsInOrder'
    BY <1>0, <1>4, <1>5 DEF JobsInOrder, JobGoes
  <1>9. PullsOfRow'
    BY <1>0, <1>3, <1>7 DEF PullsOfRow
  <1>10. row.attempt # NoPR
    BY <1>0 DEF NoPR
  <1>11. row.checks # "" => pulls'[row.pr].ci = pulls[row.pr].ci \/ pulls[row.pr].ci = "pending"
    BY <1>0, <1>10, OpenedChecksStand DEF PullsOfRow
  <1>12. ChecksAreOfThisPR'
    BY <1>0, <1>3, <1>11 DEF PullsOfRow, ChecksAreOfThisPR
  <1> QED  BY <1>2, <1>6, <1>7, <1>8, <1>9, <1>12, PollKeeps, PullsParts DEF OwnerGoal

(* The poll that settles the checks. *)
LEMMA PollOwnerIInv ==
  ASSUME OwnerIInv, [OwnerNext]_ownerVars,
         settleChecks \/ RecordChecks \/ \E unresolved \in BOOLEAN : settleRunChecks(unresolved)
  PROVE  OwnerGoal
  <1>0. /\ OwnerTypeOK /\ AttemptsInOrder /\ JobsInOrder /\ PullsOfRow /\ PullsOfPoll /\ ChecksAreOfThisPR
        /\ Shaped(checking, {"pc", "pr", "result"}) /\ row.attempt \in Nat
    BY PullsParts, AttemptsAreNat DEF OwnerIInv, OwnerTypeOK
  <1>1. UNCHANGED jobs /\ UNCHANGED pulls
    BY DEF settleChecks, RecordChecks, settleRunChecks
  <1>2. JobsInOrder'
    BY <1>0, <1>1 DEF JobsInOrder
  <1>3. ASSUME UNCHANGED row PROVE AttemptsInOrder' /\ PullsOfRow' /\ ChecksAreOfThisPR'
    BY <1>0, <1>1, <1>3 DEF AttemptsInOrder, PullsOfRow, ChecksAreOfThisPR
  <1>4. CASE settleChecks
    <2>1. UNCHANGED row /\ checking' = [pc |-> "settle", pr |-> row.pr, result |-> ""] /\ row.pr # NoPR
      BY <1>4 DEF settleChecks, UnsettledRuns
    <2>2. PullsOfPoll'
      BY <1>0, <1>1, <2>1 DEF PullsOfRow, PullsOfPoll
    <2> QED  BY <1>2, <1>3, <2>1, <2>2, PullsParts DEF OwnerGoal
  <1>5. ASSUME NEW unresolved \in BOOLEAN, settleRunChecks(unresolved) PROVE OwnerGoal
    <2> DEFINE result == ChecksOutcome(pulls[checking.pr], unresolved)
    <2>1. /\ UNCHANGED row /\ checking.pc = "settle"
          /\ checking' = IF result = "pending" THEN NoPollStep ELSE [checking EXCEPT !.pc = "record", !.result = result]
      BY <1>5 DEF settleRunChecks
    <2>2. result \in {"unresolved", pulls[checking.pr].ci}
      BY DEF ChecksOutcome
    <2> HIDE DEF result
    <2>4. CASE result # "pending" /\ checking' = [checking EXCEPT !.pc = "record", !.result = result]
      <3>1. checking'.pc = "record" /\ checking'.pr = checking.pr /\ checking'.result = result
        BY <1>0, <2>4 DEF Shaped
      <3>2. PullsOfPoll'
        BY <1>0, <1>1, <2>1, <2>2, <2>4, <3>1 DEF PullsOfPoll
      <3> QED  BY <1>2, <1>3, <2>1, <3>2, PullsParts DEF OwnerGoal
    <2>5. CASE checking' = NoPollStep
      <3>1. PullsOfPoll'
        BY <2>5 DEF NoPollStep, PullsOfPoll
      <3> QED  BY <1>2, <1>3, <2>1, <3>1, PullsParts DEF OwnerGoal
    <2> QED  BY <2>1, <2>4, <2>5
  <1>6. CASE RecordChecks
    <2>1. checking.pc = "record" /\ checking' = NoPollStep
      BY <1>6 DEF RecordChecks
    <2>2. PullsOfPoll'
      BY <2>1 DEF NoPollStep, PullsOfPoll
    <2>3. CASE ~UNCHANGED row
      <3>1. /\ Only({"checks", "checksOf"}) /\ row.pr = checking.pr /\ row.outcome = "pr-opened"
            /\ row'.checks = checking.result /\ row'.checksOf = checking.pr
        BY <1>0, <1>6, <2>3, RowChecked DEF TakesChecks
      <3>2. /\ row'.state = row.state /\ row'.attempt = row.attempt /\ row'.outcome = row.outcome
            /\ row'.stop = row.stop /\ row'.pr = row.pr
        BY <3>1 DEF Only, RowFields
      <3>3. AttemptsInOrder'
        <4>1. hasEnded(row') <=> hasEnded(row)
          BY <3>2 DEF hasEnded
        <4> QED  BY <1>0, <1>1, <3>2, <4>1 DEF AttemptsInOrder
      <3>4. PullsOfRow'
        BY <1>0, <1>1, <2>1, <3>1, <3>2 DEF PullsOfRow, PullsOfPoll
      <3>5. ChecksAreOfThisPR'
        BY <1>0, <1>1, <2>1, <3>1, <3>2 DEF ChecksAreOfThisPR, PullsOfPoll
      <3> QED  BY <1>2, <2>2, <3>3, <3>4, <3>5, PullsParts DEF OwnerGoal
    <2> QED  BY <1>2, <1>3, <2>2, <2>3, PullsParts DEF OwnerGoal
  <1> QED  BY <1>4, <1>5, <1>6

LEMMA OwnerIInvNext ==
  ASSUME OwnerIInv, [OwnerNext]_ownerVars
  PROVE  OwnerIInv'
  <1>0. OwnerTypeOK /\ Shaped(row, RowFields)
    BY DEF OwnerIInv, OwnerTypeOK
  <1>1. ASSUME UNCHANGED row PROVE KeepsRow
    BY <1>1 DEF KeepsRow
  <1>2. ASSUME NEW a \in OwnerAttempts, JobStep(a) PROVE OwnerGoal
    <2>1. CASE RequeueAfterConflict(a)
      <3>1. jobs[a].pc = "conflict" /\ UNCHANGED checking
        BY <2>1 DEF RequeueAfterConflict
      <3>2. JobGoes(a, "ended", jobs[a].end, jobs[a].pr, jobs[a].stop, jobs[a].lost, jobs[a].reruns)
        BY <1>0, <2>1, RequeueAfterConflictGoes
      <3>3. CASE UNCHANGED row
        <4>1. JobsInOrder
          BY PullsParts DEF OwnerIInv
        <4>2. MayGo(a, "ended", jobs[a].end, jobs[a].pr, jobs[a].reruns)
          BY <3>1, <4>1 DEF JobsInOrder, MayGo
        <4> QED  BY <1>1, <3>1, <3>2, <3>3, <4>2, JobOnly
      <3>4. CASE RowRequeued
        <4>1. \A b \in OwnerAttempts :
                /\ jobs'[b].pr = jobs[b].pr /\ jobs'[b].end = jobs[b].end
                /\ jobs'[b].pc = jobs[b].pc \/ (jobs[b].pc = "conflict" /\ jobs'[b].pc = "ended")
          BY <3>1, <3>2 DEF JobGoes
        <4> QED  BY <3>1, <3>4, <4>1, RequeueOwnerIInv
      <3> QED  BY <1>0, <2>1, <3>3, <3>4, RowAfterConflict
    <2>2. ASSUME NEW m, NEW fails \in BOOLEAN, SetWaitReason(a, m, fails) PROVE KeepsRow
      <3>1. Only({"wait"})
        BY <1>0, <2>2, RowWaits
      <3> QED  BY <3>1, OnlyKeepsRow
    <2>3. ASSUME NEW end, NEW fault \in BOOLEAN, FinalizePut(a, end, fault), ~UNCHANGED row PROVE OwnerGoal
      BY <2>3, PutOwnerIInv
    <2>4. \/ UNCHANGED row
          \/ \E m \in OwnerCases, fails \in BOOLEAN : SetWaitReason(a, m, fails)
          \/ \E end \in {"settled", "not settled", "not put"}, fault \in BOOLEAN : FinalizePut(a, end, fault)
          \/ RequeueAfterConflict(a)
      BY <1>2 DEF JobStep, BuildEnds, PRJob, FinalizeRead, raiseSystemic, Trip, RecordEnds, RerunRecord
    <2> QED  BY <1>1, <1>2, <2>1, <2>2, <2>3, <2>4, JobsOwnerIInv
  <1>3. ASSUME RowRequeued, UNCHANGED <<jobs, checking>>, ~Rerunning PROVE OwnerGoal
    BY <1>3, RequeueOwnerIInv
  <1>4. ASSUME RequeueTransient PROVE OwnerGoal
    <2>1. UNCHANGED <<jobs, checking>>
      BY <1>4 DEF RequeueTransient
    <2> QED  BY <1>0, <1>3, <1>4, <2>1, RowAfterTransient
  <1>5. ASSUME RetryWithNote PROVE OwnerGoal
    <2>1. UNCHANGED <<jobs, checking>>
      BY <1>5 DEF RetryWithNote
    <2> QED  BY <1>0, <1>1, <1>3, <1>5, <2>1, RowAfterRetry, NoJob
  <1>6. ASSUME cancelRun \/ RecordTicketsClosed PROVE OwnerGoal
    <2>1. UNCHANGED <<jobs, checking>>
      BY <1>6 DEF cancelRun, RecordTicketsClosed
    <2>2. Only({"cancelled"}) \/ Only({"closed"})
      BY <1>0, <1>6, RowIsMarked
    <2> QED  BY <2>1, <2>2, OnlyKeepsRow, NoJob
  <1>7. ASSUME NEW a \in OwnerAttempts, MeasureMerged(a) PROVE OwnerGoal
    <2>1. UNCHANGED <<jobs, checking>>
      BY <1>7 DEF MeasureMerged
    <2>2. Only({"measured"})
      BY <1>0, <1>7, RowIsMarked
    <2> QED  BY <2>1, <2>2, OnlyKeepsRow, NoJob
  <1>8. ASSUME NEW fails \in BOOLEAN, RecordMerge(fails) PROVE OwnerGoal
    <2>1. UNCHANGED <<jobs, checking>>
      BY <1>8 DEF RecordMerge
    <2>2. UNCHANGED row \/ Only({"merged"})
      BY <1>0, <1>8, RowIsMarked
    <2> QED  BY <1>1, <2>1, <2>2, OnlyKeepsRow, NoJob
  <1>9. ASSUME Reset \/ RetryReads \/ draftToSupersede \/ mergeRun \/ PullState \/ ChecksGreen \/ UNCHANGED ownerVars
        PROVE  OwnerGoal
    <2>1. UNCHANGED <<row, jobs, checking>>
      BY <1>9 DEF Reset, RetryReads, draftToSupersede, mergeRun, PullState, ChecksGreen, ownerVars
    <2> QED  BY <1>1, <2>1, NoJob
  <1>10. ASSUME NEW ok \in BOOLEAN, Merge(ok) PROVE OwnerGoal
    <2>1. UNCHANGED <<row, jobs, checking>>
      BY <1>10 DEF Merge
    <2> QED  BY <1>1, <2>1, NoJob
  <1>11. ASSUME NEW a \in OwnerAttempts, NEW end, MarkedReady(a) \/ CIFinishes(a, end) \/ EndedElsewhere(a, end)
         PROVE  OwnerGoal
    <2>1. UNCHANGED <<row, jobs, checking>>
      BY <1>11 DEF MarkedReady, CIFinishes, EndedElsewhere
    <2> QED  BY <1>1, <2>1, NoJob
  <1>12. OwnerGoal
    BY <1>2, <1>4, <1>5, <1>6, <1>7, <1>8, <1>9, <1>10, <1>11, ClaimOwnerIInv, PollOwnerIInv DEF OwnerNext
  <1> QED  BY <1>0, <1>12, OwnerTypeNext DEF OwnerGoal, OwnerIInv

LEMMA OwnerIInvInit == OwnerInit => OwnerIInv
  <1> SUFFICES ASSUME OwnerInit PROVE OwnerIInv
    OBVIOUS
  <1>1. OwnerTypeOK
    BY OwnerTypeInit
  <1>2. /\ row.attempt = 0 /\ row.state = "claimed" /\ row.outcome = "" /\ row.stop = "" /\ row.pr = NoPR /\ row.checks = ""
    <2>1. row = NewOwnerRow
      BY DEF OwnerInit
    <2> QED  BY <2>1 DEF NewOwnerRow
  <1>3. \A a \in OwnerAttempts : jobs[a].pc = (IF a = 0 THEN "build" ELSE "waiting") /\ jobs[a].pr = ""
    <2>1. jobs = [a \in OwnerAttempts |-> IF a = 0 THEN [NewJob EXCEPT !.pc = "build"] ELSE NewJob]
      BY DEF OwnerInit
    <2>2. /\ [NewJob EXCEPT !.pc = "build"].pc = "build" /\ [NewJob EXCEPT !.pc = "build"].pr = ""
          /\ NewJob.pc = "waiting" /\ NewJob.pr = ""
      BY DEF NewJob
    <2> QED  BY <2>1, <2>2
  <1>4. checking.pc = "idle"
    <2>1. checking = NoPollStep
      BY DEF OwnerInit
    <2> QED  BY <2>1 DEF NoPollStep
  <1>5. AttemptsInOrder
    <2>1. ~hasEnded(row)
      BY <1>2 DEF hasEnded
    <2>2. ASSUME NEW b \in OwnerAttempts
          PROVE  /\ b > 0 => jobs[b].pc = "waiting"
                 /\ jobs[b].pc # "waiting" => b = 0
      <3>1. b \in Nat
        BY AttemptsAreNat
      <3>2. b > 0 => b # 0
        BY <3>1
      <3> QED  BY <1>3, <3>2
    <2> QED  BY <1>2, <2>1, <2>2 DEF AttemptsInOrder
  <1>6. PullsAreOfJobs /\ ChecksAreOfThisPR
    BY <1>2, <1>3, <1>4 DEF PullsAreOfJobs, ChecksAreOfThisPR
  <1> QED  BY <1>1, <1>5, <1>6 DEF OwnerIInv

(* The checks a row shows are those of the pull request it names, although *)
(* the poll that read them may span a requeue and a new attempt's record   *)
(* (settleRunChecks, RecordChecks).                                        *)
THEOREM ChecksFollowThePR == OwnerSpec => []ChecksAreOfThisPR
  <1>1. OwnerIInv /\ [OwnerNext]_ownerVars => OwnerIInv'
    BY OwnerIInvNext
  <1>2. OwnerIInv => ChecksAreOfThisPR
    BY DEF OwnerIInv
  <1> QED  BY OwnerIInvInit, <1>1, <1>2, PTL DEF OwnerSpec

-----------------------------------------------------------------------------
(* The way to a merge *)

(* What pr-meta marks, of a case it does not refuse, the owner need not    *)
(* see: every reason makes the PR wait, or a draft, or refused.            *)
LEMMA MarkedNeedsNoOwner ==
  ASSUME NEW case \in Cases, NEW accepted \in BOOLEAN, NEW switch \in BOOLEAN,
         autoMerge(switch, buildSummary(case, accepted)), ~refuseWorkflowPush(buildSummary(case, accepted))
  PROVE  OwnersReasons(case) = {}
  <1>0. Shaped(case, CaseFields) /\ case.unread \subseteq {"changed", "flight", "prefixes", "provisional"}
    BY DeliveryAssumption
  <1>1. ASSUME NEW m, autoMerge(switch, m)
        PROVE  /\ m.ready /\ clear(prCheck(m)) /\ ~unconfirmed(m) /\ prCheck(m).frontEnd = {}
               /\ m.size \in {"S", "M"} /\ ~m.sampled /\ m.stop # "workflow" /\ ~m.gate /\ prCheck(m).planned
    <2>1. waitReason(m) = "" /\ m.stop # "workflow" /\ ~m.gate /\ prCheck(m).planned
      BY <1>1 DEF autoMerge, ownerAttention
    <2>2. ~unconfirmed(m)
      BY <2>1 DEF waitReason
    <2>3. ~draftPR(m)
      BY <2>1, <2>2 DEF waitReason
    <2>4. prCheck(m).frontEnd = {} /\ m.size \in {"S", "M"} /\ ~m.sampled
      BY <2>1, <2>2, <2>3 DEF waitReason
    <2> QED  BY <2>1, <2>2, <2>3, <2>4 DEF draftPR
  <1>2. accepted
    <2> SUFFICES ASSUME ~accepted PROVE FALSE
      OBVIOUS
    <2>1. buildSummary(case, accepted).ready = FALSE
      BY <1>0 DEF buildSummary, Shaped, CaseFields
    <2> QED  BY <1>1, <2>1
  <1>3. buildSummary(case, accepted) = case
    BY <1>2 DEF buildSummary
  <1>4. /\ case.ready /\ clear(prCheck(case)) /\ ~unconfirmed(case) /\ prCheck(case).frontEnd = {}
        /\ case.size \in {"S", "M"} /\ ~case.sampled /\ case.stop # "workflow" /\ ~case.gate /\ prCheck(case).planned
    BY <1>1, <1>3
  <1>5. /\ prCheck(case).planned = (case.plan # {}) /\ prCheck(case).outOfPlan = outOfPlan(case)
        /\ prCheck(case).unread = (Unread(case, "changed") \/ Unread(case, "flight"))
        /\ prCheck(case).overlap = planOverlap(case) /\ prCheck(case).frontEnd = frontEnd(case)
    BY DEF prCheck
  <1>6. case.unread = {} /\ case.plan # {} /\ case.changed \subseteq case.plan
    <2>1. ~Unread(case, "changed") /\ ~Unread(case, "flight") /\ ~Unread(case, "provisional")
      BY <1>4, <1>5 DEF clear, unconfirmed
    <2>2. ~Unread(case, "prefixes")
      BY <1>4, <1>5 DEF frontEnd
    <2>3. outOfPlan(case) = {} /\ case.plan # {}
      BY <1>4, <1>5 DEF clear
    <2>4. case.changed \ case.plan = {}
      BY <2>3 DEF outOfPlan
    <2> QED  BY <1>0, <2>1, <2>2, <2>3, <2>4 DEF Unread
  <1>7. ~case.labelled /\ {p \in case.prefixes : Under[p] \cap case.changed # {}} = {}
    <2>1. frontEnd(case) = {}
      BY <1>4, <1>5
    <2> QED  BY <1>6, <2>1 DEF frontEnd, Unread
  <1>8. planOverlap(case) = {}
    BY <1>4, <1>5 DEF clear
  <1>9. case.changed \cap WorkflowDir = {}
    BY <1>3 DEF refuseWorkflowPush, WorkflowFiles
  <1>10. ~([confirmed |-> FALSE] \in case.provisional)
    BY <1>4 DEF unconfirmed
  <1>11. ~(case.size = "S" /\ \E f \in case.flight : f.repo = case.repo /\ f.size # "S" /\ f.files \cap case.changed # {})
    BY <1>8 DEF planOverlap
  <1>12. ~(case.labelled \/ \E p \in DOMAIN Under : p \in case.prefixes /\ Under[p] \cap case.changed # {})
    BY <1>7
  <1>13. ~("provisional" \in case.unread \/ [confirmed |-> FALSE] \in case.provisional)
    BY <1>6, <1>10
  <1> SUFFICES ASSUME NEW why \in OwnersReasons(case) PROVE FALSE
    OBVIOUS
  <1>14. why \in {"decision", "draft", "unread", "plan", "overlap", "front end", "size", "sample", "gate"}
    BY DEF OwnersReasons
  <1>15. CASE why = "decision"
    BY <1>13, <1>15 DEF OwnersReasons
  <1>16. CASE why = "draft"
    BY <1>4, <1>16 DEF OwnersReasons
  <1>17. CASE why = "unread"
    BY <1>6, <1>17 DEF OwnersReasons
  <1>18. CASE why = "plan"
    BY <1>6, <1>18 DEF OwnersReasons
  <1>19. CASE why = "overlap"
    BY <1>11, <1>19 DEF OwnersReasons
  <1>20. CASE why = "front end"
    BY <1>12, <1>20 DEF OwnersReasons
  <1>21. CASE why = "size"
    BY <1>4, <1>21 DEF OwnersReasons
  <1>22. CASE why = "sample"
    BY <1>4, <1>22 DEF OwnersReasons
  <1>23. CASE why = "gate"
    BY <1>4, <1>9, <1>23 DEF OwnersReasons
  <1> QED  BY <1>14, <1>15, <1>16, <1>17, <1>18, <1>19, <1>20, <1>21, <1>22, <1>23

RunFields == {"pc", "draft", "eligible", "mustSee"}
PRFields == {"state", "draft", "head", "label", "request"}
ReviewFields == {"pc", "sha", "skip", "context", "at", "verdict", "post"}

(* A review not begun, or begun again, has no verdict.                     *)
LEMMA FreshReview ==
  /\ Shaped(NoReview, ReviewFields) /\ NoReview.pc = "idle"
  /\ Shaped(Restarted, ReviewFields) /\ Restarted.pc = "context" /\ Restarted.verdict = "absent"
  BY DEF NoReview, Restarted, Shaped, ReviewFields

LEMMA DeliveryShapes == DeliveryTypeOK <=> Shaped(delivery, RunFields) /\ Shaped(pull, PRFields) /\ Shaped(review, ReviewFields)
  BY DEF DeliveryTypeOK, RunFields, PRFields, ReviewFields

LEMMA prMetaDelivery ==
  ASSUME DeliveryIInv, NEW case \in Cases, NEW accepted \in BOOLEAN, NEW on \in BOOLEAN, NEW readable \in BOOLEAN,
         prMeta(case, accepted, on, readable)
  PROVE  DeliveryIInv'
  <1> DEFINE m == buildSummary(case, accepted)
  <1>1. /\ delivery.pc = "meta" /\ UNCHANGED <<pull, ci, status, review, clean, withdraw>>
        /\ Shaped(delivery', RunFields)
        /\ delivery'.pc = (IF refuseWorkflowPush(m) THEN "refused" ELSE "open")
        /\ delivery'.eligible = autoMerge(autoMergeSwitchOn(on, readable), m)
        /\ delivery'.mustSee = (OwnersReasons(case) # {})
    BY DEF prMeta, Shaped, RunFields
  <1>2. delivery'.pc = "open" /\ delivery'.eligible => ~delivery'.mustSee
    <2>1. autoMergeSwitchOn(on, readable) \in BOOLEAN
      BY DEF autoMergeSwitchOn
    <2> QED  BY <1>1, <2>1, MarkedNeedsNoOwner
  <1> HIDE DEF m
  <1>3. pull.state = "none" /\ ~pull.label /\ pull.request = NoHead /\ review.pc = "idle"
    BY <1>1 DEF DeliveryIInv, OpenedByTheRun
  <1>4. delivery'.pc # "label" /\ delivery'.pc # "meta"
    BY <1>1
  <1>5. DeliveryTypeOK'
    BY <1>1, DeliveryShapes DEF DeliveryIInv, DeliveryTypeOK, RunFields
  <1>6. OpenedByTheRun' /\ MarkIsEarned' /\ VerdictIsOfHead' /\ RequestIsOfHead'
    BY <1>1, <1>2, <1>3, <1>4 DEF OpenedByTheRun, MarkIsEarned, VerdictIsOfHead, RequestIsOfHead
  <1> QED  BY <1>5, <1>6 DEF DeliveryIInv

LEMMA OpenPRDelivery ==
  ASSUME DeliveryIInv, OpenPR
  PROVE  DeliveryIInv'
  <1>1. Shaped(delivery, RunFields) /\ Shaped(pull, PRFields) /\ Shaped(review, ReviewFields)
    BY DeliveryShapes DEF DeliveryIInv
  <1>2. /\ delivery.pc = "open" /\ UNCHANGED <<ci, status, clean, withdraw>>
        /\ review' = review \/ review' = Restarted
    BY DEF OpenPR, Restarted
  <1>3. /\ Shaped(pull', PRFields) /\ pull'.state = "open" /\ pull'.label = pull.label /\ pull'.request = pull.request
    BY <1>1 DEF OpenPR, Shaped, PRFields
  <1>4. /\ Shaped(delivery', RunFields) /\ delivery'.pc = (IF delivery.eligible THEN "label" ELSE "done")
        /\ delivery'.mustSee = delivery.mustSee
    BY <1>1 DEF OpenPR, Shaped, RunFields
  <1>5. ~pull.label /\ pull.request = NoHead /\ review.pc = "idle"
    BY <1>2 DEF DeliveryIInv, OpenedByTheRun
  <1>6. delivery.eligible => ~delivery.mustSee
    BY <1>2 DEF DeliveryIInv, MarkIsEarned
  <1>7. Shaped(review', ReviewFields) /\ (review'.pc = "idle" \/ (review'.pc = "context" /\ review'.verdict = "absent"))
    BY <1>1, <1>2, <1>5, FreshReview
  <1>8. DeliveryTypeOK'
    BY <1>3, <1>4, <1>7 DEF DeliveryTypeOK, RunFields, PRFields, ReviewFields
  <1>9. OpenedByTheRun' /\ MarkIsEarned' /\ VerdictIsOfHead' /\ RequestIsOfHead'
    BY <1>3, <1>4, <1>5, <1>6, <1>7 DEF OpenedByTheRun, MarkIsEarned, VerdictIsOfHead, RequestIsOfHead
  <1> QED  BY <1>8, <1>9 DEF DeliveryIInv

LEMMA LabelPRDelivery ==
  ASSUME DeliveryIInv, LabelPR
  PROVE  DeliveryIInv'
  <1>1. Shaped(delivery, RunFields) /\ Shaped(pull, PRFields) /\ Shaped(review, ReviewFields)
    BY DeliveryShapes DEF DeliveryIInv
  <1>2. delivery.pc = "label" /\ UNCHANGED <<ci, status, review, clean, withdraw>>
    BY DEF LabelPR
  <1>3. /\ Shaped(pull', PRFields) /\ pull'.state = pull.state /\ pull'.head = pull.head /\ pull'.request = pull.request
    BY <1>1 DEF LabelPR, Shaped, PRFields
  <1>4. Shaped(delivery', RunFields) /\ delivery'.pc = "done" /\ delivery'.mustSee = delivery.mustSee
    BY <1>1 DEF LabelPR, Shaped, RunFields
  <1>5. ~delivery.mustSee
    BY <1>2 DEF DeliveryIInv, MarkIsEarned
  <1>6. DeliveryTypeOK'
    BY <1>1, <1>2, <1>3, <1>4 DEF DeliveryTypeOK, RunFields, PRFields, ReviewFields
  <1>7. OpenedByTheRun' /\ MarkIsEarned'
    BY <1>4, <1>5 DEF OpenedByTheRun, MarkIsEarned
  <1>8. VerdictIsOfHead'
    BY <1>2 DEF DeliveryIInv, VerdictIsOfHead
  <1>9. RequestIsOfHead'
    BY <1>2, <1>3, <1>4 DEF DeliveryIInv, RequestIsOfHead
  <1> QED  BY <1>6, <1>7, <1>8, <1>9 DEF DeliveryIInv

(* The review workflow alone: what it may become while the pull request    *)
(* stays as it is.                                                         *)
LEMMA ReviewGoesOn ==
  ASSUME DeliveryIInv, UNCHANGED <<delivery, pull, withdraw>>, clean \subseteq clean', Shaped(review', ReviewFields),
         review.pc # "idle" \/ review'.pc = "idle",
         review'.pc \in {"context", "review"} => review'.verdict = "absent",
         review'.pc = "post" /\ review'.verdict = "clean" => review'.sha \in clean',
         review'.pc = "status" /\ review'.post.clean => review'.sha \in clean',
         review'.pc \in {"merge", "request"} => review'.sha \in clean',
         review'.pc = "request" => pull.label
  PROVE  DeliveryIInv'
  <1>1. DeliveryTypeOK'
    BY DeliveryShapes DEF DeliveryIInv, DeliveryTypeOK, ReviewFields
  <1>2. OpenedByTheRun' /\ MarkIsEarned'
    BY DEF DeliveryIInv, OpenedByTheRun, MarkIsEarned
  <1>3. VerdictIsOfHead'
    BY DEF VerdictIsOfHead
  <1>4. RequestIsOfHead'
    BY DEF DeliveryIInv, RequestIsOfHead
  <1> QED  BY <1>1, <1>2, <1>3, <1>4 DEF DeliveryIInv

LEMMA ReviewDelivery ==
  ASSUME DeliveryIInv,
         \/ \E end \in {"failed", "skipped", "read"} : writePRReviewContext(end)
         \/ \E answer \in Answers : runPRReview(answer)
         \/ \E valid, fails \in BOOLEAN : upsertComment(valid, fails)
         \/ \E fails \in BOOLEAN : setStatus(fails)
         \/ prReviewPost
  PROVE  DeliveryIInv'
  <1>1. Shaped(review, ReviewFields) /\ VerdictIsOfHead
    BY DeliveryShapes DEF DeliveryIInv
  <1>2. ASSUME NEW end \in {"failed", "skipped", "read"}, writePRReviewContext(end) PROVE DeliveryIInv'
    <2>1. /\ review.pc = "context" /\ UNCHANGED <<delivery, pull, withdraw, clean>>
          /\ Shaped(review', ReviewFields) /\ review'.pc \in {"review", "post"} /\ review'.verdict = review.verdict
      BY <1>1, <1>2 DEF writePRReviewContext, Shaped, ReviewFields
    <2>2. review'.verdict = "absent"
      BY <1>1, <2>1 DEF VerdictIsOfHead
    <2> QED  BY <2>1, <2>2, ReviewGoesOn
  <1>3. ASSUME NEW answer \in Answers, runPRReview(answer) PROVE DeliveryIInv'
    <2>1. review.pc = "review" /\ UNCHANGED <<delivery, pull, withdraw>> /\ review.verdict = "absent"
      BY <1>1, <1>3 DEF runPRReview, VerdictIsOfHead
    <2>2. clean \subseteq clean' /\ (answer = "clean" => review.sha \in clean')
      BY <1>3 DEF runPRReview
    <2>3. /\ Shaped(review', ReviewFields) /\ review'.sha = review.sha
          /\ \/ review'.pc = "post" /\ review'.verdict \in {answer, "no-verdict", "absent"}
             \/ review'.pc = "review" /\ review'.verdict = "absent"
      <3>1. \/ review' = [review EXCEPT !.pc = "post"]
            \/ review' = [review EXCEPT !.pc = "post", !.verdict = answer]
            \/ review' = [review EXCEPT !.pc = "post", !.verdict = "no-verdict"]
            \/ review' = [review EXCEPT !.at = @ + 1]
        BY <1>3 DEF runPRReview, ReviewPR
      <3>2. CASE review' = [review EXCEPT !.pc = "post"]
        BY <1>1, <2>1, <3>2 DEF Shaped, ReviewFields
      <3>3. CASE review' = [review EXCEPT !.pc = "post", !.verdict = answer]
        BY <1>1, <3>3 DEF Shaped, ReviewFields
      <3>4. CASE review' = [review EXCEPT !.pc = "post", !.verdict = "no-verdict"]
        BY <1>1, <3>4 DEF Shaped, ReviewFields
      <3>5. CASE review' = [review EXCEPT !.at = @ + 1]
        BY <1>1, <2>1, <3>5 DEF Shaped, ReviewFields
      <3> QED  BY <3>1, <3>2, <3>3, <3>4, <3>5
    <2> QED  BY <2>1, <2>2, <2>3, ReviewGoesOn
  <1>4. ASSUME NEW valid \in BOOLEAN, NEW fails \in BOOLEAN, upsertComment(valid, fails) PROVE DeliveryIInv'
    <2> DEFINE post == planPost(review, valid)
    <2>1. /\ review.pc = "post" /\ UNCHANGED <<delivery, pull, withdraw, clean>>
          /\ review' = IF fails THEN NoReview ELSE [NoReview EXCEPT !.pc = "status", !.sha = review.sha, !.post = post]
      BY <1>4 DEF upsertComment
    <2>2. post.clean => review.sha \in clean
      <3>1. post.clean => review.verdict = "clean"
        BY DEF planPost, readVerdict
      <3> QED  BY <1>1, <2>1, <3>1 DEF VerdictIsOfHead
    <2> HIDE DEF post
    <2>3. CASE review' = NoReview
      BY <2>1, <2>3, FreshReview, ReviewGoesOn
    <2>4. CASE review' = [NoReview EXCEPT !.pc = "status", !.sha = review.sha, !.post = post]
      <3>1. Shaped(review', ReviewFields) /\ review'.pc = "status" /\ review'.sha = review.sha /\ review'.post = post
        BY <2>4, FreshReview DEF Shaped, ReviewFields
      <3> QED  BY <2>1, <2>2, <3>1, ReviewGoesOn
    <2> QED  BY <2>1, <2>3, <2>4
  <1>5. ASSUME NEW fails \in BOOLEAN, setStatus(fails) PROVE DeliveryIInv'
    <2>1. /\ review.pc = "status" /\ UNCHANGED <<delivery, pull, withdraw, clean>>
          /\ \/ review' = NoReview
             \/ review.post.clean /\ review' = [review EXCEPT !.pc = "merge"]
      BY <1>5 DEF setStatus
    <2>2. CASE review' = NoReview
      BY <2>1, <2>2, FreshReview, ReviewGoesOn
    <2>3. CASE review.post.clean /\ review' = [review EXCEPT !.pc = "merge"]
      <3>1. Shaped(review', ReviewFields) /\ review'.pc = "merge" /\ review'.sha = review.sha
        BY <1>1, <2>3 DEF Shaped, ReviewFields
      <3>2. review.sha \in clean
        BY <1>1, <2>1, <2>3 DEF VerdictIsOfHead
      <3> QED  BY <2>1, <3>1, <3>2, ReviewGoesOn
    <2> QED  BY <2>1, <2>2, <2>3
  <1>6. CASE prReviewPost
    <2>1. /\ review.pc = "merge" /\ UNCHANGED <<delivery, pull, withdraw, clean>>
          /\ \/ review' = NoReview
             \/ pull.label /\ review' = [review EXCEPT !.pc = "request"]
      BY <1>6 DEF prReviewPost, mergeReady
    <2>2. CASE review' = NoReview
      BY <2>1, <2>2, FreshReview, ReviewGoesOn
    <2>3. CASE pull.label /\ review' = [review EXCEPT !.pc = "request"]
      <3>1. Shaped(review', ReviewFields) /\ review'.pc = "request" /\ review'.sha = review.sha
        BY <1>1, <2>3 DEF Shaped, ReviewFields
      <3>2. review.sha \in clean
        BY <1>1, <2>1 DEF VerdictIsOfHead
      <3> QED  BY <2>1, <2>3, <3>1, <3>2, ReviewGoesOn
    <2> QED  BY <2>1, <2>2, <2>3
  <1> QED  BY <1>2, <1>3, <1>4, <1>5, <1>6

(* The pull request: its label is only taken off, and a review goes on, is *)
(* over or is begun again.                                                 *)
LEMMA PullGoesOn ==
  ASSUME DeliveryIInv, UNCHANGED <<delivery, clean>>, Shaped(pull', PRFields), pull'.label => pull.label,
         review' = review \/ review' = NoReview \/ review' = Restarted,
         OpenedByTheRun', RequestIsOfHead'
  PROVE  DeliveryIInv'
  <1>1. Shaped(review', ReviewFields) /\ (review' = review \/ review'.pc = "idle" \/ (review'.pc = "context" /\ review'.verdict = "absent"))
    BY FreshReview, DeliveryShapes DEF DeliveryIInv
  <1>2. DeliveryTypeOK'
    BY <1>1, DeliveryShapes DEF DeliveryIInv, DeliveryTypeOK, ReviewFields, PRFields
  <1>3. MarkIsEarned'
    BY <1>1 DEF DeliveryIInv, MarkIsEarned
  <1>4. VerdictIsOfHead'
    BY <1>1 DEF DeliveryIInv, VerdictIsOfHead
  <1> QED  BY <1>2, <1>3, <1>4 DEF DeliveryIInv

LEMMA PullDelivery ==
  ASSUME DeliveryIInv,
         \/ \E fails \in BOOLEAN : RequestAutoMerge(fails) \/ Withdraw(fails)
         \/ MarkReady \/ CloseOrReopen \/ Push \/ GitHubMerges
  PROVE  DeliveryIInv'
  <1>0. Shaped(pull, PRFields) /\ OpenedByTheRun /\ MarkIsEarned /\ VerdictIsOfHead /\ RequestIsOfHead
    BY DeliveryShapes DEF DeliveryIInv
  <1>1. ASSUME NEW fails \in BOOLEAN, RequestAutoMerge(fails) PROVE DeliveryIInv'
    <2>1. /\ review.pc = "request" /\ review' = NoReview /\ UNCHANGED <<delivery, clean, withdraw>>
          /\ \/ UNCHANGED pull
             \/ pull.state = "open" /\ pull.head = review.sha /\ pull' = [pull EXCEPT !.request = review.sha]
      BY <1>1 DEF RequestAutoMerge
    <2>2. review.sha \in clean /\ ~delivery.mustSee /\ delivery.pc \notin {"meta", "refused", "open"}
      BY <1>0, <2>1 DEF VerdictIsOfHead, MarkIsEarned, OpenedByTheRun
    <2>3. OpenedByTheRun'
      BY <2>1, <2>2 DEF OpenedByTheRun
    <2>4. CASE UNCHANGED pull
      <3>1. RequestIsOfHead'
        BY <1>0, <2>1, <2>4 DEF RequestIsOfHead
      <3> QED  BY <1>0, <2>1, <2>3, <2>4, <3>1, PullGoesOn
    <2>5. CASE pull.state = "open" /\ pull.head = review.sha /\ pull' = [pull EXCEPT !.request = review.sha]
      <3>1. /\ Shaped(pull', PRFields) /\ pull'.request = review.sha /\ pull'.state = pull.state /\ pull'.head = pull.head
            /\ pull'.label = pull.label
        BY <1>0, <2>5 DEF Shaped, PRFields
      <3>2. RequestIsOfHead'
        BY <2>1, <2>2, <2>5, <3>1 DEF RequestIsOfHead
      <3> QED  BY <2>1, <2>3, <3>1, <3>2, PullGoesOn
    <2> QED  BY <2>1, <2>4, <2>5
  <1>2. ASSUME NEW fails \in BOOLEAN, Withdraw(fails) PROVE DeliveryIInv'
    <2>1. /\ UNCHANGED <<delivery, clean, review>>
          /\ \/ UNCHANGED pull /\ withdraw' # "none"
             \/ pull' = [pull EXCEPT !.label = FALSE] /\ withdraw' # "none"
             \/ pull.state = "open" /\ pull' = [pull EXCEPT !.request = NoHead]
             \/ pull.state # "open" /\ UNCHANGED pull
      BY <1>2 DEF Withdraw
    <2>2. CASE UNCHANGED pull /\ (withdraw' # "none" \/ pull.state # "open")
      <3>1. OpenedByTheRun' /\ RequestIsOfHead'
        BY <1>0, <2>1, <2>2 DEF OpenedByTheRun, RequestIsOfHead
      <3> QED  BY <1>0, <2>1, <2>2, <3>1, PullGoesOn
    <2>3. CASE pull' = [pull EXCEPT !.label = FALSE] /\ withdraw' # "none"
      <3>1. /\ Shaped(pull', PRFields) /\ pull'.request = pull.request /\ pull'.state = pull.state /\ pull'.head = pull.head
            /\ pull'.label = FALSE
        BY <1>0, <2>3 DEF Shaped, PRFields
      <3>2. OpenedByTheRun' /\ RequestIsOfHead'
        BY <1>0, <2>1, <2>3, <3>1 DEF OpenedByTheRun, RequestIsOfHead
      <3> QED  BY <2>1, <3>1, <3>2, PullGoesOn
    <2>4. CASE pull' = [pull EXCEPT !.request = NoHead]
      <3>1. /\ Shaped(pull', PRFields) /\ pull'.request = NoHead /\ pull'.state = pull.state /\ pull'.label = pull.label
        BY <1>0, <2>4 DEF Shaped, PRFields
      <3>2. OpenedByTheRun' /\ RequestIsOfHead'
        BY <1>0, <2>1, <3>1 DEF OpenedByTheRun, RequestIsOfHead
      <3> QED  BY <2>1, <3>1, <3>2, PullGoesOn
    <2> QED  BY <2>1, <2>2, <2>3, <2>4
  <1>3. ASSUME UNCHANGED <<delivery, clean>>, pull.state \in {"open", "closed"},
               review' = review \/ review' = NoReview \/ review' = Restarted,
               Shaped(pull', PRFields), pull'.label = pull.label, RequestIsOfHead'
        PROVE  DeliveryIInv'
    <2>1. OpenedByTheRun'
      BY <1>0, <1>3 DEF OpenedByTheRun
    <2> QED  BY <1>3, <2>1, PullGoesOn
  <1>4. ASSUME MarkReady PROVE DeliveryIInv'
    <2>1. /\ pull.state = "open" /\ UNCHANGED <<delivery, clean, withdraw>> /\ review' = Restarted
          /\ pull' = [pull EXCEPT !.draft = FALSE]
      BY <1>4 DEF MarkReady
    <2>2. /\ Shaped(pull', PRFields) /\ pull'.request = pull.request /\ pull'.state = pull.state /\ pull'.head = pull.head
          /\ pull'.label = pull.label
      BY <1>0, <2>1 DEF Shaped, PRFields
    <2>3. RequestIsOfHead'
      BY <1>0, <2>1, <2>2 DEF RequestIsOfHead
    <2> QED  BY <1>3, <2>1, <2>2, <2>3
  <1>5. ASSUME CloseOrReopen PROVE DeliveryIInv'
    <2>1. /\ UNCHANGED <<delivery, clean, withdraw>>
          /\ \/ pull.state = "open" /\ pull' = [pull EXCEPT !.state = "closed", !.request = NoHead] /\ UNCHANGED review
             \/ /\ pull.state = "closed" /\ pull' = [pull EXCEPT !.state = "open"]
                /\ review' = review \/ review' = Restarted
      BY <1>5 DEF CloseOrReopen
    <2>2. CASE pull.state = "open" /\ pull' = [pull EXCEPT !.state = "closed", !.request = NoHead] /\ UNCHANGED review
      <3>1. Shaped(pull', PRFields) /\ pull'.request = NoHead /\ pull'.label = pull.label
        BY <1>0, <2>2 DEF Shaped, PRFields
      <3>2. RequestIsOfHead'
        BY <3>1 DEF RequestIsOfHead
      <3> QED  BY <1>3, <2>1, <2>2, <3>1, <3>2
    <2>3. CASE /\ pull.state = "closed" /\ pull' = [pull EXCEPT !.state = "open"]
               /\ review' = review \/ review' = Restarted
      <3>1. Shaped(pull', PRFields) /\ pull'.request = pull.request /\ pull'.label = pull.label
        BY <1>0, <2>3 DEF Shaped, PRFields
      <3>2. pull.request = NoHead
        BY <1>0, <2>3 DEF RequestIsOfHead
      <3>3. RequestIsOfHead'
        BY <3>1, <3>2 DEF RequestIsOfHead
      <3> QED  BY <1>3, <2>1, <2>3, <3>1, <3>3
    <2> QED  BY <2>1, <2>2, <2>3
  <1>6. ASSUME Push PROVE DeliveryIInv'
    <2>1. /\ pull.state = "open" /\ UNCHANGED <<delivery, clean, review>> /\ withdraw' = "label"
          /\ pull' = [pull EXCEPT !.head = @ + 1]
      BY <1>6 DEF Push
    <2>2. /\ Shaped(pull', PRFields) /\ pull'.request = pull.request /\ pull'.state = pull.state /\ pull'.label = pull.label
      BY <1>0, <2>1 DEF Shaped, PRFields
    <2>3. RequestIsOfHead'
      BY <1>0, <2>1, <2>2 DEF RequestIsOfHead
    <2> QED  BY <1>3, <2>1, <2>2, <2>3
  <1>7. ASSUME GitHubMerges PROVE DeliveryIInv'
    <2>1. /\ pull.state = "open" /\ UNCHANGED <<delivery, clean, review>> /\ pull' = [pull EXCEPT !.state = "merged"]
      BY <1>7 DEF GitHubMerges
    <2>2. /\ Shaped(pull', PRFields) /\ pull'.request = pull.request /\ pull'.state = "merged" /\ pull'.label = pull.label
      BY <1>0, <2>1 DEF Shaped, PRFields
    <2>3. RequestIsOfHead'
      BY <1>0, <2>1, <2>2 DEF RequestIsOfHead
    <2> QED  BY <1>3, <2>1, <2>2, <2>3
  <1> QED  BY <1>1, <1>2, <1>4, <1>5, <1>6, <1>7

LEMMA DeliveryIInvNext ==
  ASSUME DeliveryIInv, [DeliveryNext]_deliveryVars
  PROVE  DeliveryIInv'
  <1>1. ASSUME UNCHANGED <<delivery, pull, review, clean, withdraw>> PROVE DeliveryIInv'
    BY <1>1 DEF DeliveryIInv, DeliveryTypeOK, OpenedByTheRun, MarkIsEarned, VerdictIsOfHead, RequestIsOfHead
  <1>2. ASSUME NEW h, NEW end, ChecksFinish(h, end) PROVE DeliveryIInv'
    BY <1>1, <1>2 DEF ChecksFinish
  <1>3. ASSUME UNCHANGED deliveryVars PROVE DeliveryIInv'
    BY <1>1, <1>3 DEF deliveryVars
  <1> QED  BY <1>2, <1>3, prMetaDelivery, OpenPRDelivery, LabelPRDelivery, ReviewDelivery, PullDelivery DEF DeliveryNext

(* GitHub's merge is the only step that makes a pull request merged.       *)
LEMMA OnlyGitHubMerges ==
  ASSUME DeliveryIInv, [DeliveryNext]_deliveryVars, pull.state = "open", pull'.state = "merged"
  PROVE  GitHubMerges
  <1>0. Shaped(pull, PRFields)
    BY DeliveryShapes DEF DeliveryIInv
  <1>1. UNCHANGED pull => FALSE
    OBVIOUS
  <1>2. OpenPR => FALSE
    BY <1>0 DEF OpenPR, Shaped, PRFields
  <1>3. LabelPR => FALSE
    BY <1>0 DEF LabelPR, Shaped, PRFields
  <1>4. ASSUME NEW fails \in BOOLEAN, RequestAutoMerge(fails) PROVE FALSE
    BY <1>0, <1>4 DEF RequestAutoMerge, Shaped, PRFields
  <1>5. ASSUME NEW fails \in BOOLEAN, Withdraw(fails) PROVE FALSE
    BY <1>0, <1>5 DEF Withdraw, Shaped, PRFields
  <1>6. MarkReady \/ CloseOrReopen \/ Push => FALSE
    BY <1>0 DEF MarkReady, CloseOrReopen, Push, Shaped, PRFields
  <1>7. \/ UNCHANGED pull \/ OpenPR \/ LabelPR \/ MarkReady \/ CloseOrReopen \/ Push \/ GitHubMerges
        \/ \E fails \in BOOLEAN : RequestAutoMerge(fails) \/ Withdraw(fails)
    BY DEF DeliveryNext, deliveryVars, prMeta, writePRReviewContext, runPRReview, upsertComment, setStatus, prReviewPost,
       ChecksFinish
  <1> QED  BY <1>1, <1>2, <1>3, <1>4, <1>5, <1>6, <1>7

(* A merge is asked for only of a head a review found clean and of a run   *)
(* the owner need not see, and what is merged is that head unless a later  *)
(* push was still to be answered (prMeta, prReviewPost, RequestAutoMerge). *)
THEOREM AutoMergesAreEarned == DeliverySpec => AutoMergeIsEarned
  <1> DEFINE Earned ==
        /\ pull'.request # NoHead => pull'.request \in clean' /\ ~delivery.mustSee
        /\ pull.state = "open" /\ pull'.state = "merged" => pull.head = pull.request \/ withdraw # "none"
  <1>1. DeliveryInit => DeliveryIInv
    <2> SUFFICES ASSUME DeliveryInit PROVE DeliveryIInv
      OBVIOUS
    <2>1. Shaped(delivery, RunFields) /\ delivery.pc = "meta"
      BY DEF DeliveryInit, Shaped, RunFields
    <2>2. /\ Shaped(pull, PRFields) /\ pull.state = "none" /\ pull.label = FALSE /\ pull.request = NoHead
      BY DEF DeliveryInit, NewPull, Shaped, PRFields
    <2>3. Shaped(review, ReviewFields) /\ review.pc = "idle"
      BY FreshReview DEF DeliveryInit
    <2> QED  BY <2>1, <2>2, <2>3, DeliveryShapes DEF DeliveryIInv, OpenedByTheRun, MarkIsEarned, VerdictIsOfHead, RequestIsOfHead
  <1>2. DeliveryIInv /\ [DeliveryNext]_deliveryVars => DeliveryIInv'
    BY DeliveryIInvNext
  <1>3. DeliveryIInv /\ DeliveryIInv' /\ [DeliveryNext]_deliveryVars => [Earned]_deliveryVars
    <2> SUFFICES ASSUME DeliveryIInv, DeliveryIInv', [DeliveryNext]_deliveryVars PROVE Earned
      OBVIOUS
    <2>1. pull'.request # NoHead => pull'.request \in clean' /\ ~delivery'.mustSee
      BY DEF DeliveryIInv, RequestIsOfHead
    <2>2. pull'.request # NoHead => delivery'.mustSee = delivery.mustSee
      <3>1. ASSUME NEW case, NEW accepted, NEW on, NEW readable, prMeta(case, accepted, on, readable)
            PROVE  pull'.request = NoHead
        BY <3>1 DEF prMeta, DeliveryIInv, OpenedByTheRun
      <3>2. Shaped(delivery, RunFields)
        BY DeliveryShapes DEF DeliveryIInv
      <3>3. OpenPR \/ LabelPR => delivery'.mustSee = delivery.mustSee
        BY <3>2 DEF OpenPR, LabelPR, Shaped, RunFields
      <3>4. \/ \E case \in Cases, accepted, on, readable \in BOOLEAN : prMeta(case, accepted, on, readable)
            \/ OpenPR \/ LabelPR \/ UNCHANGED delivery
        BY DEF DeliveryNext, deliveryVars, writePRReviewContext, runPRReview, upsertComment, setStatus, prReviewPost,
           ChecksFinish, RequestAutoMerge, Withdraw, MarkReady, CloseOrReopen, Push, GitHubMerges
      <3> QED  BY <3>1, <3>3, <3>4
    <2>3. pull.state = "open" /\ pull'.state = "merged" => pull.head = pull.request \/ withdraw # "none"
      <3> SUFFICES ASSUME pull.state = "open", pull'.state = "merged" PROVE pull.head = pull.request \/ withdraw # "none"
        OBVIOUS
      <3>1. pull.request # NoHead
        BY OnlyGitHubMerges DEF GitHubMerges
      <3> QED  BY <3>1 DEF DeliveryIInv, RequestIsOfHead
    <2> QED  BY <2>1, <2>2, <2>3
  <1> QED  BY <1>1, <1>2, <1>3, PTL DEF DeliverySpec, AutoMergeIsEarned

-----------------------------------------------------------------------------
(* The screenshots *)

LEMMA ShotFilesOfFolder ==
  ASSUME NEW p \in PRs
  PROVE  /\ ShotFiles(p) \subseteq AllShots
         /\ \A f \in ShotFiles(p) : f.folder = p
         /\ {f.page : f \in ShotFiles(p)} = {f.page : f \in {g \in Artifact[p] : g.png}}
  <1>1. ShotFiles(p) \subseteq AllShots
    BY DEF AllShots
  <1>2. \A f \in ShotFiles(p) : f.folder = p
    BY DEF ShotFiles, evidencePath
  <1>3. {f.page : f \in ShotFiles(p)} = {f.page : f \in {g \in Artifact[p] : g.png}}
    <2>1. \A f \in {g \in Artifact[p] : g.png} : evidencePath(p, "head", f).page = f.page
      BY DEF evidencePath
    <2> QED  BY <2>1 DEF ShotFiles
  <1> QED  BY <1>1, <1>2, <1>3

LEMMA TreeTyped ==
  ASSUME EvidenceTypeOK
  PROVE  Tree \subseteq AllShots /\ Len(branch) \in Nat
  BY DEF EvidenceTypeOK, Tree, Last

(* A job's own step that leaves the branch.                                *)
LEMMA JobLeavesBranch ==
  ASSUME EvidenceIInv, UNCHANGED branch, NEW p \in PRs, NEW j, Shaped(j, PushFields),
         push' = [push EXCEPT ![p] = j],
         j.pc \in {"tip", "move"} => j.files = ShotFiles(p),
         j.pc = "move" => j.tip \in 0..Len(branch) /\ (j.tip = Len(branch) => j.commit = Tree \cup ShotFiles(p)),
         j.pc \in {"body", "shown"} => push[p].pc = "body",
         j.pc \notin {"body", "shown", "failed"} => push[p].pc \notin {"body", "shown", "failed"}
  PROVE  EvidenceIInv'
  <1>0. Shaped(push, PRs) /\ \A q \in PRs : Shaped(push[q], PushFields)
    BY DEF EvidenceIInv, EvidenceTypeOK
  <1>1. Tree' = Tree
    BY DEF Tree
  <1>2. Shaped(push', PRs) /\ \A q \in PRs : push'[q] = IF q = p THEN j ELSE push[q]
    BY <1>0 DEF Shaped
  <1>3. EvidenceTypeOK'
    BY <1>0, <1>2 DEF EvidenceIInv, EvidenceTypeOK
  <1>4. CommitIsOfTip'
    BY <1>1, <1>2 DEF EvidenceIInv, CommitIsOfTip
  <1>5. FoldersAreWhole'
    BY <1>1, <1>2 DEF EvidenceIInv, FoldersAreWhole
  <1> QED  BY <1>3, <1>4, <1>5 DEF EvidenceIInv

LEMMA EvidenceIInvNext ==
  ASSUME EvidenceIInv, [EvidenceNext]_evidenceVars
  PROVE  EvidenceIInv'
  <1>0. Shaped(push, PRs) /\ \A p \in PRs : Shaped(push[p], PushFields)
    BY DEF EvidenceIInv, EvidenceTypeOK
  <1>1. ASSUME NEW p \in PRs, publishScreenshots(p) PROVE EvidenceIInv'
    <2> DEFINE read == ReadShots(Artifact[p])
               placed == PlaceShots(read.shots, p, "head")
    <2>1. placed.files = ShotFiles(p)
      BY DEF PlaceShots, ReadShots, ShotFiles
    <2>2. /\ push[p].pc = "read" /\ UNCHANGED branch
          /\ \/ push' = [push EXCEPT ![p] = [push[p] EXCEPT !.pc = "none"]]
             \/ push' = [push EXCEPT ![p] = [push[p] EXCEPT !.pc = "tip", !.files = ShotFiles(p)]]
      BY <1>0, <1>1, <2>1 DEF publishScreenshots, Shaped
    <2>3. CASE push' = [push EXCEPT ![p] = [push[p] EXCEPT !.pc = "none"]]
      <3>1. PICK j : j = [push[p] EXCEPT !.pc = "none"]
        OBVIOUS
      <3>2. Shaped(j, PushFields) /\ j.pc = "none"
        BY <1>0, <3>1 DEF Shaped, PushFields
      <3> QED  BY <2>2, <2>3, <3>1, <3>2, JobLeavesBranch
    <2>4. CASE push' = [push EXCEPT ![p] = [push[p] EXCEPT !.pc = "tip", !.files = ShotFiles(p)]]
      <3>1. PICK j : j = [push[p] EXCEPT !.pc = "tip", !.files = ShotFiles(p)]
        OBVIOUS
      <3>2. Shaped(j, PushFields) /\ j.pc = "tip" /\ j.files = ShotFiles(p)
        BY <1>0, <3>1 DEF Shaped, PushFields
      <3> QED  BY <2>2, <2>4, <3>1, <3>2, JobLeavesBranch
    <2> QED  BY <2>2, <2>3, <2>4
  <1>2. ASSUME NEW p \in PRs, evidenceTip(p) PROVE EvidenceIInv'
    <2>1. PICK j : j = [push[p] EXCEPT !.pc = "move", !.tip = Len(branch), !.commit = evidenceBaseTree(push[p].files)]
      OBVIOUS
    <2>2. push[p].pc = "tip" /\ UNCHANGED branch /\ push' = [push EXCEPT ![p] = j]
      BY <1>0, <1>2, <2>1 DEF evidenceTip, Shaped
    <2>3. push[p].files = ShotFiles(p)
      BY <2>2 DEF EvidenceIInv, CommitIsOfTip
    <2>4. evidenceBaseTree(push[p].files) = Tree \cup ShotFiles(p)
      BY <2>3 DEF evidenceBaseTree, Tree
    <2>5. Shaped(j, PushFields) /\ j.pc = "move" /\ j.files = push[p].files /\ j.tip = Len(branch)
          /\ j.commit = evidenceBaseTree(push[p].files)
      BY <1>0, <2>1 DEF Shaped, PushFields
    <2>6. j.tip \in 0..Len(branch)
      BY <2>5, TreeTyped DEF EvidenceIInv
    <2> QED  BY <2>2, <2>3, <2>4, <2>5, <2>6, JobLeavesBranch
  <1>3. ASSUME NEW p \in PRs, commitEvidence(p), refRace(p) PROVE EvidenceIInv'
    <2>1. PICK pc \in {"tip", "failed"} : pc = IF push[p].tries + 1 < evidencePushAttempts THEN "tip" ELSE "failed"
      OBVIOUS
    <2>2. PICK j : j = [push[p] EXCEPT !.tries = push[p].tries + 1, !.pc = pc]
      OBVIOUS
    <2>3. push[p].pc = "move" /\ UNCHANGED branch /\ push' = [push EXCEPT ![p] = j]
      <3>1. /\ push[p].pc = "move" /\ UNCHANGED branch
            /\ push' = [push EXCEPT ![p] = [push[p] EXCEPT !.tries = push[p].tries + 1,
                          !.pc = IF push[p].tries + 1 < evidencePushAttempts THEN "tip" ELSE "failed"]]
        BY <1>3 DEF commitEvidence
      <3>2. push' = [push EXCEPT ![p] = [push[p] EXCEPT !.tries = push[p].tries + 1, !.pc = pc]]
        BY <2>1, <3>1
      <3> QED  BY <2>2, <3>1, <3>2
    <2>4. push[p].files = ShotFiles(p)
      BY <2>3 DEF EvidenceIInv, CommitIsOfTip
    <2>5. Shaped(j, PushFields) /\ j.pc = pc /\ j.files = push[p].files
      BY <1>0, <2>2 DEF Shaped, PushFields
    <2> QED  BY <2>1, <2>3, <2>4, <2>5, JobLeavesBranch
  <1>4. ASSUME NEW p \in PRs, commitEvidence(p), ~refRace(p) PROVE EvidenceIInv'
    <2>1. /\ push[p].pc = "move" /\ push' = [push EXCEPT ![p].pc = "body"]
          /\ branch' = Append(branch, push[p].commit) /\ push[p].tip = Len(branch)
      BY <1>4 DEF commitEvidence, refRace
    <2>2. push[p].commit = Tree \cup ShotFiles(p)
      BY <2>1 DEF EvidenceIInv, CommitIsOfTip
    <2>3. Len(branch) \in Nat /\ push[p].commit \in SUBSET AllShots /\ branch \in Seq(SUBSET AllShots)
      BY <2>2, TreeTyped, ShotFilesOfFolder DEF EvidenceIInv, EvidenceTypeOK
    <2>4. branch' \in Seq(SUBSET AllShots) /\ Len(branch') = Len(branch) + 1 /\ Tree' = push[p].commit
      <3>1. branch' \in Seq(SUBSET AllShots) /\ Len(branch') = Len(branch) + 1 /\ branch'[Len(branch) + 1] = push[p].commit
        BY <2>1, <2>3
      <3>2. branch' # <<>>
        BY <2>3, <3>1
      <3> QED  BY <3>1, <3>2 DEF Tree, Last
    <2>5. Shaped(push', PRs) /\ \A q \in PRs : push'[q] = IF q = p THEN [push[p] EXCEPT !.pc = "body"] ELSE push[q]
      BY <1>0, <2>1 DEF Shaped
    <2>6. Shaped(push'[p], PushFields) /\ push'[p].pc = "body"
      BY <1>0, <2>5 DEF Shaped, PushFields
    <2>7. EvidenceTypeOK'
      BY <1>0, <2>4, <2>5, <2>6 DEF EvidenceTypeOK
    <2>8. CommitIsOfTip'
      <3> SUFFICES ASSUME NEW q \in PRs
                   PROVE  /\ push'[q].pc \in {"tip", "move"} => push'[q].files = ShotFiles(q)
                          /\ push'[q].pc = "move" => /\ push'[q].tip \in 0..Len(branch')
                                                     /\ push'[q].tip = Len(branch') => push'[q].commit = Tree' \cup ShotFiles(q)
        BY DEF CommitIsOfTip
      <3>1. CASE q = p
        BY <2>6, <3>1
      <3>2. CASE q # p
        <4>1. /\ push[q].pc \in {"tip", "move"} => push[q].files = ShotFiles(q)
              /\ push[q].pc = "move" => push[q].tip \in 0..Len(branch)
          BY DEF EvidenceIInv, CommitIsOfTip
        <4>2. push[q].tip \in 0..Len(branch) => push[q].tip \in 0..Len(branch') /\ push[q].tip # Len(branch')
          BY <2>3, <2>4
        <4> QED  BY <2>5, <3>2, <4>1, <4>2
      <3> QED  BY <3>1, <3>2
    <2>9. FoldersAreWhole'
      <3> SUFFICES ASSUME NEW q \in PRs
                   PROVE  /\ push'[q].pc \in {"body", "shown"} => {f \in Tree' : f.folder = q} = ShotFiles(q)
                          /\ push'[q].pc \notin {"body", "shown", "failed"} => {f \in Tree' : f.folder = q} = {}
        BY DEF FoldersAreWhole
      <3>1. Tree' = Tree \cup ShotFiles(p) /\ \A f \in ShotFiles(p) : f.folder = p
        BY <2>2, <2>4, ShotFilesOfFolder
      <3>2. /\ push[q].pc \in {"body", "shown"} => {f \in Tree : f.folder = q} = ShotFiles(q)
            /\ push[q].pc \notin {"body", "shown", "failed"} => {f \in Tree : f.folder = q} = {}
        BY DEF EvidenceIInv, FoldersAreWhole
      <3>3. CASE q = p
        BY <2>1, <2>6, <3>1, <3>2, <3>3
      <3>4. CASE q # p
        <4>1. {f \in Tree' : f.folder = q} = {f \in Tree : f.folder = q}
          BY <3>1, <3>4
        <4> QED  BY <2>5, <3>2, <3>4, <4>1
      <3> QED  BY <3>3, <3>4
    <2> QED  BY <2>7, <2>8, <2>9 DEF EvidenceIInv
  <1>5. ASSUME NEW p \in PRs, NEW pc \in {"failed", "shown"}, pc = "shown" => push[p].pc = "body",
               UNCHANGED branch, push' = [push EXCEPT ![p].pc = pc]
        PROVE  EvidenceIInv'
    <2>1. PICK j : j = [push[p] EXCEPT !.pc = pc]
      OBVIOUS
    <2>2. push' = [push EXCEPT ![p] = j]
      BY <1>5, <2>1
    <2>3. Shaped(j, PushFields) /\ j.pc = pc
      BY <1>0, <2>1 DEF Shaped, PushFields
    <2> QED  BY <1>5, <2>2, <2>3, JobLeavesBranch
  <1>6. ASSUME NEW p \in PRs, PushFails(p) \/ editBody(p) PROVE EvidenceIInv'
    BY <1>5, <1>6 DEF PushFails, editBody
  <1>7. ASSUME UNCHANGED evidenceVars PROVE EvidenceIInv'
    BY <1>7 DEF evidenceVars, EvidenceIInv, EvidenceTypeOK, CommitIsOfTip, FoldersAreWhole, Tree
  <1> QED  BY <1>1, <1>2, <1>3, <1>4, <1>6, <1>7 DEF EvidenceNext

(* Screenshots once on the evidence branch stay there whole, whatever      *)
(* races its runs lose (evidenceTip, commitEvidence).                      *)
THEOREM ScreenshotsAreKept == EvidenceSpec => []ScreenshotsStay
  <1>1. EvidenceInit => EvidenceIInv
    <2> SUFFICES ASSUME EvidenceInit PROVE EvidenceIInv
      OBVIOUS
    <2>1. branch = <<>> /\ Tree = {} /\ \A p \in PRs : push[p] = NoPush
      BY DEF EvidenceInit, Tree
    <2>2. Shaped(NoPush, PushFields) /\ NoPush.pc = "read"
      BY DEF NoPush, Shaped, PushFields
    <2>3. EvidenceTypeOK
      <3>1. Shaped(push, PRs) /\ branch \in Seq(SUBSET AllShots)
        BY DEF EvidenceInit, Shaped
      <3> QED  BY <2>1, <2>2, <3>1 DEF EvidenceTypeOK
    <2> QED  BY <2>1, <2>2, <2>3 DEF EvidenceIInv, CommitIsOfTip, FoldersAreWhole
  <1>2. EvidenceIInv /\ [EvidenceNext]_evidenceVars => EvidenceIInv'
    BY EvidenceIInvNext
  <1>3. EvidenceIInv => ScreenshotsStay
    <2> SUFFICES ASSUME EvidenceIInv, NEW p \in PRs
                 PROVE  LET shown == IF branch = <<>> THEN {} ELSE {f \in Last(branch) : f.folder = p} IN
                        IF push[p].pc \in {"body", "shown"}
                        THEN {f.page : f \in shown} = {f.page : f \in {g \in Artifact[p] : g.png}}
                        ELSE push[p].pc # "failed" => shown = {}
      BY DEF ScreenshotsStay
    <2>1. (IF branch = <<>> THEN {} ELSE {f \in Last(branch) : f.folder = p}) = {f \in Tree : f.folder = p}
      BY DEF Tree
    <2>2. /\ push[p].pc \in {"body", "shown"} => {f \in Tree : f.folder = p} = ShotFiles(p)
          /\ push[p].pc \notin {"body", "shown", "failed"} => {f \in Tree : f.folder = p} = {}
      BY DEF EvidenceIInv, FoldersAreWhole
    <2> QED  BY <2>1, <2>2, ShotFilesOfFolder
  <1> QED  BY <1>1, <1>2, <1>3, PTL DEF EvidenceSpec
=============================================================================
