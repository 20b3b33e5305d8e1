------------------------------ MODULE Notices ------------------------------
(***************************************************************************)
(* The notices waiting to be posted: the dispatch/notice-<id> documents,   *)
(* and the polls that claim them under a lease, post them to Slack and     *)
(* mark them posted.                                                       *)
(*                                                                         *)
(* Times are ages, counted in ticks: how long ago a notice was claimed and *)
(* how long a poll has run.  An age past the lease stays there.            *)
(***************************************************************************)
EXTENDS Integers, FiniteSets

CONSTANTS Ids,         \* notice ids, in document order
          Pollers,     \* polls that may overlap
          ClaimLimit,  \* noticeClaimLimit
          Lease,       \* noticeLease
          JobTimeout   \* the dispatcher job's timeout

(* "noticeLease must outlast the job's 600s timeout." *)
ASSUME NoticesAssumption ==
  /\ Ids \subseteq Nat /\ ClaimLimit \in Nat /\ Lease \in Nat /\ JobTimeout \in Nat
  /\ JobTimeout < Lease

VARIABLES notices,  \* the documents
          polls,    \* the age of each poll, -1 for one that is not running
          hold,     \* what each poll knows of the notices it claimed
          posts,    \* history: how often Slack has taken each notice, up to 2
          unsure    \* history: has a poll lost its hold of a notice it may have posted?

vars == <<notices, polls, hold, posts, unsure>>

NoticeStates == {"absent", "pending", "claimed", "posted"}

(* age is that of claimed_at, -1 when the field is absent. *)
Notice == [state: NoticeStates, age: -1..(Lease + 1)]

(* A poll's hold of a notice: claimed, taken by Slack, refused by Slack. *)
Holds == {"no", "claimed", "taken", "refused"}

Init ==
  /\ notices = [n \in Ids |-> [state |-> "absent", age |-> -1]]
  /\ polls = [p \in Pollers |-> -1]
  /\ hold = [p \in Pollers |-> [n \in Ids |-> "no"]]
  /\ posts = [n \in Ids |-> 0]
  /\ unsure = [n \in Ids |-> FALSE]

Live(p) == polls[p] # -1
HoldsNone(p) == \A n \in Ids : hold[p][n] = "no"

-----------------------------------------------------------------------------
(* A notice is created once; its id names the run, attempt or window it is *)
(* about, so raising it again does nothing.                                *)
Raise(n) ==
  /\ notices[n].state = "absent"
  /\ notices' = [notices EXCEPT ![n].state = "pending"]
  /\ UNCHANGED <<polls, hold, posts, unsure>>

PollStarts(p) ==
  /\ ~Live(p)
  /\ polls' = [polls EXCEPT ![p] = 0]
  /\ UNCHANGED <<notices, hold, posts, unsure>>

(* What a query with a limit returns: the first of those that match. *)
FirstOf(S) == {n \in S : Cardinality({m \in S : m < n}) < ClaimLimit}

Pending == {n \in Ids : notices[n].state = "pending"}
(* The claims older than the lease; the variants take any claim as stale,  *)
(* and none.                                                               *)
AnyClaimed == {n \in Ids : notices[n].age >= 0}
NoneStale  == {}
Stale      == {n \in Ids : notices[n].age > Lease}

(* One transaction.  The stale ones a query's limit cuts off are any, for  *)
(* they come in the order they were claimed.                               *)
Claim(p) ==
  /\ Live(p) /\ HoldsNone(p)
  /\ \E stale \in SUBSET Stale :
       /\ Cardinality(stale) <= ClaimLimit
       /\ stale = Stale \/ Cardinality(stale) = ClaimLimit
       /\ LET claimed == FirstOf(Pending) \cup stale
          IN /\ claimed # {}
             /\ notices' = [n \in Ids |-> IF n \in claimed THEN [state |-> "claimed", age |-> 0]
                                          ELSE notices[n]]
             /\ hold' = [hold EXCEPT ![p] = [n \in Ids |-> IF n \in claimed THEN "claimed" ELSE "no"]]
  /\ UNCHANGED <<polls, posts, unsure>>

(* Slack took the notice. *)
Post(p, n) ==
  /\ hold[p][n] = "claimed"
  /\ hold' = [hold EXCEPT ![p][n] = "taken"]
  /\ posts' = [posts EXCEPT ![n] = IF @ < 2 THEN @ + 1 ELSE 2]
  /\ UNCHANGED <<notices, polls, unsure>>

(* Slack refused it, could not be reached, or took it and the answer was   *)
(* lost; or the poster could not be opened.                                *)
PostFailed(p, n) ==
  /\ hold[p][n] = "claimed"
  /\ hold' = [hold EXCEPT ![p][n] = "refused"]
  /\ \/ UNCHANGED <<posts, unsure>>
     \/ /\ posts' = [posts EXCEPT ![n] = IF @ < 2 THEN @ + 1 ELSE 2]
        /\ unsure' = [unsure EXCEPT ![n] = TRUE]
  /\ UNCHANGED <<notices, polls>>

(* What marking a posted notice writes; the variant leaves it claimable. *)
PostedPending == [state |-> "pending", age |-> -1]
PostedNotice  == [state |-> "posted", age |-> -1]

Posted(p, n) ==
  /\ hold[p][n] = "taken"
  /\ notices' = [notices EXCEPT ![n] = PostedNotice]
  /\ hold' = [hold EXCEPT ![p][n] = "no"]
  /\ UNCHANGED <<polls, posts, unsure>>

(* What a notice that was not posted goes back to; the variant marks it as *)
(* the one that was.                                                       *)
UnclaimPosted   == [state |-> "posted", age |-> -1]
UnclaimedNotice == [state |-> "pending", age |-> -1]

Unclaim(p, n) ==
  /\ hold[p][n] = "refused"
  /\ notices' = [notices EXCEPT ![n] = UnclaimedNotice]
  /\ hold' = [hold EXCEPT ![p][n] = "no"]
  /\ UNCHANGED <<polls, posts, unsure>>

(* The write that settles the claim failed: the poll goes on to the next.  *)
SettleFailed(p, n) ==
  /\ hold[p][n] \in {"taken", "refused"}
  /\ unsure' = [unsure EXCEPT ![n] = @ \/ hold[p][n] = "taken"]
  /\ hold' = [hold EXCEPT ![p][n] = "no"]
  /\ UNCHANGED <<notices, polls, posts>>

(* The poll ends, is cut off by its timeout or dies. *)
PollEnds(p) ==
  /\ Live(p)
  /\ polls' = [polls EXCEPT ![p] = -1]
  /\ hold' = [hold EXCEPT ![p] = [n \in Ids |-> "no"]]
  /\ unsure' = [n \in Ids |-> unsure[n] \/ hold[p][n] = "taken"]
  /\ UNCHANGED <<notices, posts>>

(* Time passes, no further than the timeout of a poll that runs; the       *)
(* variant lets a poll run for as long as the lease.                       *)
InLease  == \A p \in Pollers : polls[p] < Lease
InTime   == \A p \in Pollers : polls[p] < JobTimeout

Tick ==
  /\ InTime
  /\ polls' = [p \in Pollers |-> IF Live(p) THEN polls[p] + 1 ELSE -1]
  /\ notices' = [n \in Ids |-> IF notices[n].age \in 0..Lease
                               THEN [notices[n] EXCEPT !.age = @ + 1] ELSE notices[n]]
  /\ UNCHANGED <<hold, posts, unsure>>

Next ==
  \/ \E n \in Ids : Raise(n)
  \/ \E p \in Pollers : PollStarts(p) \/ Claim(p) \/ PollEnds(p)
  \/ \E p \in Pollers, n \in Ids :
       Post(p, n) \/ PostFailed(p, n) \/ Posted(p, n) \/ Unclaim(p, n) \/ SettleFailed(p, n)
  \/ Tick

Spec == Init /\ [][Next]_vars

-----------------------------------------------------------------------------
(* The documents and the polls keep their types, and no poll outlives its   *)
(* timeout.                                                                 *)
TypeOK ==
  /\ notices \in [Ids -> Notice]
  /\ polls \in [Pollers -> -1..JobTimeout]
  /\ hold \in [Pollers -> [Ids -> Holds]]
  /\ posts \in [Ids -> 0..2]
  /\ unsure \in [Ids -> BOOLEAN]

(* "A live poll's claim is never taken from it": two polls never hold one   *)
(* notice at the same time (Claim, noticeLease).                            *)
OneHolder ==
  \A p, q \in Pollers, n \in Ids : hold[p][n] # "no" /\ hold[q][n] # "no" => p = q

(* A notice is posted a second time only after a poll lost its hold of it   *)
(* with the post made and not marked: what "at least once" allows           *)
(* (postNotices, Posted).                                                   *)
RepeatHasACause ==
  \A n \in Ids : posts[n] = 2 => unsure[n]

(* A notice marked posted has reached Slack: a failed post never ends it    *)
(* (postNotices, Unclaim).                                                  *)
PostedReachedSlack ==
  \A n \in Ids : notices[n].state = "posted" => posts[n] > 0

(* What keeps those true: a poll holds only claims it made since it began,  *)
(* of notices nobody else has taken since, and an unsettled post is in the  *)
(* hands of the poll that made it.                                          *)
HoldIsYoung ==
  \A p \in Pollers, n \in Ids :
    hold[p][n] # "no" => /\ notices[n].state = "claimed" /\ notices[n].age \in 0..polls[p]
                         /\ Live(p)

ClaimsHaveAges ==
  \A n \in Ids : notices[n].age >= 0 <=> notices[n].state = "claimed"

PostIsAccounted ==
  \A n \in Ids :
    /\ posts[n] > 0 /\ ~unsure[n]
         => notices[n].state = "posted" \/ \E p \in Pollers : hold[p][n] = "taken"
    /\ \A p \in Pollers : hold[p][n] = "taken" => posts[n] > 0

IInv == /\ TypeOK /\ OneHolder /\ RepeatHasACause /\ PostedReachedSlack
        /\ HoldIsYoung /\ ClaimsHaveAges /\ PostIsAccounted

(* Fairness: a poll is scheduled every fifteen minutes and gets as far as   *)
(* its claim, time passes, and neither Slack nor Firestore refuses for ever. *)
Fairness ==
  /\ WF_vars(Tick)
  /\ \A p \in Pollers : WF_vars(PollStarts(p)) /\ WF_vars(PollEnds(p)) /\ SF_vars(Claim(p))
  /\ \A n \in Ids : /\ SF_vars(\E p \in Pollers : Post(p, n))
                   /\ SF_vars(\E p \in Pollers : Posted(p, n))

FairSpec == Spec /\ Fairness

(* Every notice raised is posted in the end, whichever poll dies holding it *)
(* and however many wait beside it ("Delivery is at least once").           *)
RaisedIsPosted ==
  \A n \in Ids : notices[n].state # "absent" ~> notices[n].state = "posted"
=============================================================================
