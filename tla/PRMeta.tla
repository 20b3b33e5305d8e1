------------------------------- MODULE PRMeta -------------------------------
(***************************************************************************)
(* What the pr-meta job decides about a run's pull request: whether it is  *)
(* refused, opens as a draft, waits for the owner, or is marked eligible   *)
(* for auto-merge.                                                         *)
(*                                                                         *)
(* A case is all the job reads: the ticket (size, front-end label), the    *)
(* run id's place in the review sample, the recorded plan's files, the     *)
(* branch's changed files, the planned write sets of the runs in flight,   *)
(* the front-end setting, the decisions auto-pilot took (each confirmed or *)
(* not), the build's summary, the check job's report, and which of these   *)
(* reads failed.  The PR's title, body and log lines are left out.         *)
(***************************************************************************)
EXTENDS Integers, FiniteSets, FiniteSetsExt, Shapes

CONSTANTS WorkflowDir,  \* the files under .github/workflows
          Under         \* [declared prefixes -> the files under each]

CaseFields == {"size", "repo", "sampled", "labelled", "plan", "changed", "flight", "prefixes", "provisional", "ready",
               "stop", "gate", "unread"}

(* The reads the job goes on without: unknown, where what is read is empty. *)
Unread(m, what) == what \in m.unread
WorkflowFiles(files) == files \cap WorkflowDir

(* A run with no recorded plan has nothing to be outside of.               *)
outOfPlan(m) == IF m.plan = {} THEN {} ELSE m.changed \ m.plan

(* Only an S run asks, and only of the M and L runs in its repository.     *)
planOverlap(m) ==
  {f \in m.flight :
     /\ m.size = "S"
     /\ f.repo = m.repo /\ f.size # "S"
     /\ f.files \cap m.changed # {}}

(* A setting that cannot be read marks every change.                       *)
frontEnd(m) ==
  (IF m.labelled THEN {"label"} ELSE {}) \cup
  (IF Unread(m, "prefixes") THEN {"setting"} ELSE {p \in m.prefixes : Under[p] \cap m.changed # {}})

prCheck(m) ==
  [planned     |-> m.plan # {},
   unread      |-> Unread(m, "changed") \/ Unread(m, "flight"),
   outOfPlan   |-> outOfPlan(m),
   overlap     |-> planOverlap(m),
   frontEnd    |-> frontEnd(m)]

unconfirmed(m) == Unread(m, "provisional") \/ \E d \in m.provisional : ~d.confirmed
clear(check) == ~check.unread /\ check.outOfPlan = {} /\ check.overlap = {}

draftPR(m) == ~m.ready \/ ~clear(prCheck(m))

(* The first that holds names the wait: the two that block a merge first.  *)
waitReason(m) ==
  CASE unconfirmed(m) -> "unconfirmed-decision"
    [] ~unconfirmed(m) /\ draftPR(m) -> "draft"
    [] OTHER -> IF prCheck(m).frontEnd # {} THEN "front-end"
                ELSE IF m.size \notin {"S", "M"} THEN "size-l"
                ELSE IF m.sampled THEN "sampled" ELSE ""

ownerAttention(m) ==
  \/ waitReason(m) # ""
  \/ m.stop = "workflow"
  \/ m.gate
  \/ ~prCheck(m).planned

(* A switch that cannot be read is off.  The rewrite rate is logged and    *)
(* not consulted.                                                          *)
autoMergeSwitchOn(on, readable) == readable /\ on
autoMerge(switchOn, m) == switchOn /\ ~ownerAttention(m)

(* The run's App cannot push a workflow file; where the write set is       *)
(* unread, the build's own stop is what is left to go on.                  *)
refuseWorkflowPush(m) ==
  \/ WorkflowFiles(m.changed) # {}
  \/ prCheck(m).unread /\ m.stop = "workflow"

(* A summary that is rejected reads as the zero summary, which is not      *)
(* ready and names no stop.                                                *)
buildSummary(m, accepted) == IF accepted THEN m ELSE [m EXCEPT !.ready = FALSE, !.stop = "none"]
=============================================================================
