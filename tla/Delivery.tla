------------------------------ MODULE Delivery ------------------------------
(***************************************************************************)
(* A run's pull request from pr-meta to its merge: the pr job opens and    *)
(* labels it, the pr-review workflow reviews the head it read and asks     *)
(* GitHub to merge a clean one, and GitHub merges what was asked for once  *)
(* the required checks are green.  Meanwhile anyone may push, the owner    *)
(* may mark the PR ready, close or reopen it, and a push is answered by a  *)
(* withdrawal, some time later.                                            *)
(*                                                                         *)
(* The workflow files, GitHub and the people around it are external; what  *)
(* their jobs run is the code modelled here.                               *)
(***************************************************************************)
EXTENDS PRMeta, Sequences

CONSTANTS Cases,         \* what pr-meta may read
          ReviewModels,  \* the review models, in order
          MaxPush        \* pushes to the PR's branch after it opened

ASSUME DeliveryAssumption ==
  /\ ReviewModels \in Seq(STRING) /\ MaxPush \in Nat
  /\ \A m \in Cases : Shaped(m, CaseFields) /\ m.unread \subseteq {"changed", "flight", "prefixes", "provisional"}

VARIABLES delivery,   \* the run's own jobs: their step and outputs
          pull,       \* the pull request on GitHub
          ci,         \* the required checks of each head
          status,     \* the wingman-review status of each head
          review,     \* the pr-review workflow's current run
          clean,      \* the heads some review found clean
          withdraw    \* the workflow that answers a push

deliveryVars == <<delivery, pull, ci, status, review, clean, withdraw>>

-----------------------------------------------------------------------------
(* State *)

Heads == 0..MaxPush
NoHead == -1
NewPull == [state |-> "none", draft |-> FALSE, head |-> 0, label |-> FALSE, request |-> NoHead]
NoPost == [comment |-> FALSE, status |-> "none", clean |-> FALSE]
NoReview == [pc |-> "idle", sha |-> NoHead, skip |-> "", context |-> "", at |-> 1, verdict |-> "absent", post |-> NoPost]
Answers == {"clean", "findings", "timed out", "findings unreadable", "agent failed", "job failed"}

DeliveryInit ==
  /\ delivery = [pc |-> "meta", draft |-> FALSE, eligible |-> FALSE, mustSee |-> FALSE]
  /\ pull = NewPull
  /\ ci = [h \in Heads |-> "pending"]
  /\ status = [h \in Heads |-> "none"]
  /\ review = NoReview
  /\ clean = {}
  /\ withdraw = "none"

(* What the owner must see before a merge, read straight off the case.     *)
OwnersReasons(m) ==
  {why \in {"decision", "draft", "unread", "plan", "overlap", "front end", "size", "sample", "gate"} :
     CASE why = "decision"  -> "provisional" \in m.unread \/ [confirmed |-> FALSE] \in m.provisional
       [] why = "draft"     -> ~m.ready
       [] why = "unread"    -> m.unread # {}
       [] why = "plan"      -> ~ (m.plan # {} /\ m.changed \subseteq m.plan)
       [] why = "overlap"   -> m.size = "S" /\ \E f \in m.flight : f.repo = m.repo /\ f.size # "S" /\ f.files \cap m.changed # {}
       [] why = "front end" -> m.labelled \/ \E p \in DOMAIN Under : p \in m.prefixes /\ Under[p] \cap m.changed # {}
       [] why = "size"      -> m.size = "L"
       [] why = "sample"    -> m.sampled
       [] why = "gate"      -> m.gate \/ m.stop = "workflow" \/ m.changed \cap WorkflowDir # {}}

-----------------------------------------------------------------------------
(* The run's jobs *)

(* The summary may be rejected and the owner's switch unread.  What the     *)
(* owner must see of the case is kept for the property alone.              *)
prMeta(case, accepted, on, readable) ==
  LET m == buildSummary(case, accepted) IN
  /\ delivery.pc = "meta"
  /\ delivery' = [pc       |-> IF refuseWorkflowPush(m) THEN "refused" ELSE "open",
                  draft    |-> draftPR(m),
                  eligible |-> autoMerge(autoMergeSwitchOn(on, readable), m),
                  mustSee  |-> OwnersReasons(case) # {}]
  /\ UNCHANGED <<pull, ci, status, review, clean, withdraw>>

(* The pr job.  A ready pull request starts a review at once; the label    *)
(* follows, or fails and leaves the PR for the owner.                      *)
OpenPR ==
  /\ delivery.pc = "open"
  /\ pull' = [pull EXCEPT !.state = "open", !.draft = delivery.draft]
  /\ delivery' = [delivery EXCEPT !.pc = IF delivery.eligible THEN "label" ELSE "done"]
  /\ review' = IF delivery.draft THEN review ELSE [NoReview EXCEPT !.pc = "context"]
  /\ UNCHANGED <<ci, status, clean, withdraw>>
LabelPR ==
  /\ delivery.pc = "label"
  /\ delivery' = [delivery EXCEPT !.pc = "done"]
  /\ \E taken \in BOOLEAN : pull' = [pull EXCEPT !.label = taken]
  /\ UNCHANGED <<ci, status, review, clean, withdraw>>

-----------------------------------------------------------------------------
(* The pr-review workflow *)

(* The context read fails, skips the review (no ticket named, a diff too   *)
(* large, no such issue) or pins it to the head it read.                   *)
writePRReviewContext(end) ==
  /\ review.pc = "context"
  /\ review' = [review EXCEPT !.context = IF end = "failed" THEN "failure" ELSE "success",
                              !.skip = IF end = "skipped" THEN "reason" ELSE "",
                              !.sha = pull.head,
                              !.pc = IF end = "read" THEN "review" ELSE "post"]
  /\ UNCHANGED <<delivery, pull, ci, status, clean, withdraw>>

(* One model's attempt.  A model that times out, fails or answers what     *)
(* cannot be read leaves it to the next.                                   *)
ReviewPR(r, answer) ==
  IF answer \in {"clean", "findings"} THEN [r EXCEPT !.pc = "post", !.verdict = answer]
  ELSE IF r.at = Len(ReviewModels) THEN [r EXCEPT !.pc = "post", !.verdict = "no-verdict"]
  ELSE [r EXCEPT !.at = @ + 1]
(* A job that dies leaves no verdict.                                      *)
runPRReview(answer) ==
  /\ review.pc = "review"
  /\ review' = IF answer = "job failed" THEN [review EXCEPT !.pc = "post"] ELSE ReviewPR(review, answer)
  /\ clean' = IF answer = "clean" THEN clean \cup {review.sha} ELSE clean
  /\ UNCHANGED <<delivery, pull, ci, status, withdraw>>

(* An absent or rejected verdict is no verdict.                            *)
readVerdict(verdict, valid) == IF valid /\ verdict # "absent" THEN verdict ELSE "no-verdict"
planPost(r, valid) ==
  IF r.skip # "" \/ r.context # "success"
  THEN [comment |-> FALSE, status |-> "error", clean |-> FALSE]
  ELSE LET v == readVerdict(r.verdict, valid) IN
       [comment |-> TRUE, status |-> IF v = "clean" THEN "success" ELSE "failure", clean |-> v = "clean"]

(* The marked comment, then the status, then the pull request read again:  *)
(* each may fail, and ends the job.                                        *)
upsertComment(valid, fails) ==
  LET post == planPost(review, valid) IN
  /\ review.pc = "post"
  /\ fails => post.comment
  /\ review' = IF fails THEN NoReview ELSE [NoReview EXCEPT !.pc = "status", !.sha = review.sha, !.post = post]
  /\ UNCHANGED <<delivery, pull, ci, status, clean, withdraw>>
setStatus(fails) ==
  /\ review.pc = "status"
  /\ status' = IF fails THEN status ELSE [status EXCEPT ![review.sha] = review.post.status]
  /\ review' = IF ~fails /\ review.post.clean THEN [review EXCEPT !.pc = "merge"] ELSE NoReview
  /\ UNCHANGED <<delivery, pull, ci, clean, withdraw>>

MergeUnlabelled(p, sha) == p.state = "open" /\ ~p.draft /\ p.head = sha
(* The head's branch must be a run's own as well: this PR is one that the  *)
(* run's pr job opened, on its own branch, and GitHub renames no head.     *)
mergeReady(p, sha) == p.state = "open" /\ ~p.draft /\ p.label /\ p.head = sha
prReviewPost ==
  /\ review.pc = "merge"
  /\ review' = IF mergeReady(pull, review.sha) THEN [review EXCEPT !.pc = "request"] ELSE NoReview
  /\ UNCHANGED <<delivery, pull, ci, status, clean, withdraw>>

(* GitHub takes a request that names the head the PR is still at.          *)
RequestAutoMerge(fails) ==
  /\ review.pc = "request"
  /\ review' = NoReview
  /\ pull' = IF ~fails /\ pull.state = "open" /\ ~pull.draft /\ pull.head = review.sha
             THEN [pull EXCEPT !.request = review.sha] ELSE pull
  /\ UNCHANGED <<delivery, ci, status, clean, withdraw>>

-----------------------------------------------------------------------------
(* GitHub and the people *)

(* A review already running is cancelled by the next.                      *)
Restarted == [NoReview EXCEPT !.pc = "context"]

MarkReady ==
  /\ pull.state = "open" /\ pull.draft
  /\ pull' = [pull EXCEPT !.draft = FALSE]
  /\ review' = Restarted
  /\ UNCHANGED <<delivery, ci, status, clean, withdraw>>
CloseOrReopen ==
  /\ \/ pull.state = "open" /\ pull' = [pull EXCEPT !.state = "closed", !.request = NoHead] /\ UNCHANGED review
     \/ /\ pull.state = "closed" /\ pull' = [pull EXCEPT !.state = "open"]
        /\ review' = IF pull.draft THEN review ELSE Restarted
  /\ UNCHANGED <<delivery, ci, status, clean, withdraw>>
Push ==
  /\ pull.state = "open" /\ pull.head < MaxPush
  /\ pull' = [pull EXCEPT !.head = @ + 1]
  /\ withdraw' = "label"
  /\ UNCHANGED <<delivery, ci, status, review, clean>>
(* The label is taken off, then a request made meanwhile is withdrawn.     *)
Withdraw(fails) ==
  /\ withdraw \in {"label", "request"}
  /\ withdraw' = IF fails THEN "failed" ELSE IF withdraw = "label" THEN "request" ELSE "none"
  /\ pull' = IF fails THEN pull
             ELSE IF withdraw = "label" THEN [pull EXCEPT !.label = FALSE]
             ELSE IF pull.state = "open" THEN [pull EXCEPT !.request = NoHead] ELSE pull
  /\ UNCHANGED <<delivery, ci, status, review, clean>>
ChecksFinish(h, end) ==
  /\ pull.state = "open" /\ h <= pull.head /\ ci[h] = "pending"
  /\ ci' = [ci EXCEPT ![h] = end]
  /\ UNCHANGED <<delivery, pull, status, review, clean, withdraw>>
GitHubMerges ==
  /\ pull.state = "open" /\ ~pull.draft /\ pull.request # NoHead /\ ci[pull.head] = "green"
  /\ pull' = [pull EXCEPT !.state = "merged"]
  /\ UNCHANGED <<delivery, ci, status, review, clean, withdraw>>
DeliveryNext ==
  \/ \E case \in Cases, accepted, on, readable \in BOOLEAN : prMeta(case, accepted, on, readable)
  \/ OpenPR
  \/ LabelPR
  \/ \E end \in {"failed", "skipped", "read"} : writePRReviewContext(end)
  \/ \E answer \in Answers : runPRReview(answer)
  \/ \E valid, fails \in BOOLEAN : upsertComment(valid, fails)
  \/ \E fails \in BOOLEAN : setStatus(fails) \/ RequestAutoMerge(fails) \/ Withdraw(fails)
  \/ prReviewPost
  \/ MarkReady
  \/ CloseOrReopen
  \/ Push
  \/ \E h \in Heads, end \in {"green", "failing"} : ChecksFinish(h, end)
  \/ GitHubMerges

DeliverySpec == DeliveryInit /\ [][DeliveryNext]_deliveryVars

-----------------------------------------------------------------------------
(* Properties *)

(* A merge is asked of GitHub only for a head that a review found clean,   *)
(* of a run nothing of which the owner must see, whatever was pushed,      *)
(* relabelled, closed, reopened or reviewed again between pr-meta's        *)
(* verdict, the review's read, the post's second read and the request; and *)
(* what GitHub then merges is that head, unless a later push had not been  *)
(* answered by its withdrawal when the checks turned green.                *)
AutoMergeIsEarned ==
  [][/\ pull'.request # NoHead => pull'.request \in clean' /\ ~delivery.mustSee
     /\ pull.state = "open" /\ pull'.state = "merged" => pull.head = pull.request \/ withdraw # "none"]_deliveryVars

-----------------------------------------------------------------------------
(* What keeps it true *)

DeliveryTypeOK ==
  /\ Shaped(delivery, {"pc", "draft", "eligible", "mustSee"})
  /\ Shaped(pull, {"state", "draft", "head", "label", "request"})
  /\ Shaped(review, {"pc", "sha", "skip", "context", "at", "verdict", "post"})
(* Nothing is on GitHub before the pr job opens the pull request.          *)
OpenedByTheRun ==
  delivery.pc \in {"meta", "refused", "open"} =>
    pull.state = "none" /\ ~pull.label /\ pull.request = NoHead /\ review.pc = "idle"
(* The mark goes from pr-meta to the label to the request.                 *)
MarkIsEarned ==
  /\ delivery.pc = "open" /\ delivery.eligible => ~delivery.mustSee
  /\ delivery.pc = "label" \/ pull.label \/ review.pc = "request" => ~delivery.mustSee
(* A verdict is of the head the review is pinned to.                       *)
VerdictIsOfHead ==
  /\ review.pc \in {"context", "review"} => review.verdict = "absent"
  /\ review.pc = "post" /\ review.verdict = "clean" => review.sha \in clean
  /\ review.pc = "status" /\ review.post.clean => review.sha \in clean
  /\ review.pc \in {"merge", "request"} => review.sha \in clean
(* A request is dropped by a close, and is of the head the pull request is *)
(* at until a push that is still to be answered.                           *)
RequestIsOfHead ==
  /\ pull.request # NoHead => pull.request \in clean /\ ~delivery.mustSee
  /\ pull.state \in {"none", "closed"} => pull.request = NoHead
  /\ pull.state = "open" /\ pull.request # NoHead /\ withdraw = "none" => pull.request = pull.head
DeliveryIInv == DeliveryTypeOK /\ OpenedByTheRun /\ MarkIsEarned /\ VerdictIsOfHead /\ RequestIsOfHead
=============================================================================
