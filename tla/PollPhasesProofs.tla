-------------------------- MODULE PollPhasesProofs --------------------------
(***************************************************************************)
(* Proofs about two phases of a poll: about Notices, for every set of      *)
(* notices and polls, every claim limit and every lease that outlasts the  *)
(* job's timeout; and about Rewrites, for any runs, pull requests and      *)
(* overlapping polls.  Then about Figures, the page drawn of what a poll   *)
(* measured, for any merges however measured, windows and bars.            *)
(***************************************************************************)
EXTENDS Notices, Rewrites, Figures, Aggregates, Shapes, FiniteSetTheorems, SequenceTheorems, TLAPS

(* Every step keeps the types. *)
LEMMA TypeInductive ==
  ASSUME TypeOK, [Next]_vars
  PROVE  TypeOK'
<1> USE NoticesAssumption DEF TypeOK, Notice, NoticeStates, Holds
<1>1. ASSUME NEW n \in Ids, Raise(n)
      PROVE  TypeOK'
  BY <1>1 DEF Raise
<1>2. ASSUME NEW p \in Pollers, PollStarts(p)
      PROVE  TypeOK'
  BY <1>2 DEF PollStarts
<1>3. ASSUME NEW p \in Pollers, Claim(p)
      PROVE  TypeOK'
  BY <1>3 DEF Claim
<1>4. ASSUME NEW p \in Pollers, PollEnds(p)
      PROVE  TypeOK'
  BY <1>4 DEF PollEnds
<1>5. ASSUME NEW p \in Pollers, NEW n \in Ids, Post(p, n) \/ PostFailed(p, n)
      PROVE  TypeOK'
  <2>1. (IF posts[n] < 2 THEN posts[n] + 1 ELSE 2) \in 0..2
    OBVIOUS
  <2>2. hold' \in [Pollers -> [Ids -> Holds]]
    BY <1>5 DEF Post, PostFailed
  <2>3. posts' \in [Ids -> 0..2]
    BY <1>5, <2>1 DEF Post, PostFailed
  <2>4. unsure' \in [Ids -> BOOLEAN]
    BY <1>5 DEF Post, PostFailed
  <2> QED
    BY <1>5, <2>2, <2>3, <2>4 DEF Post, PostFailed
<1>6. ASSUME NEW p \in Pollers, NEW n \in Ids,
             Posted(p, n) \/ Unclaim(p, n) \/ SettleFailed(p, n)
      PROVE  TypeOK'
  <2>1. hold' \in [Pollers -> [Ids -> Holds]]
    BY <1>6 DEF Posted, Unclaim, SettleFailed
  <2>2. notices' \in [Ids -> Notice]
    BY <1>6 DEF Posted, PostedNotice, Unclaim, UnclaimedNotice, SettleFailed
  <2>3. (unsure[n] \/ hold[p][n] = "taken") \in BOOLEAN
    OBVIOUS
  <2>4. unsure' \in [Ids -> BOOLEAN]
    BY <1>6, <2>3 DEF Posted, Unclaim, SettleFailed
  <2> QED
    BY <1>6, <2>1, <2>2, <2>4 DEF Posted, Unclaim, SettleFailed
<1>7. CASE Tick
  <2>1. \A p \in Pollers : Live(p) => polls[p] + 1 \in -1..JobTimeout
    BY <1>7 DEF Tick, InTime, Live
  <2>2. \A n \in Ids : notices[n].age \in 0..Lease => notices[n].age + 1 \in -1..(Lease + 1)
    OBVIOUS
  <2> QED
    BY <1>7, <2>1, <2>2 DEF Tick, Live
<1>8. CASE UNCHANGED vars
  BY <1>8 DEF vars
<1> QED
  BY <1>1, <1>2, <1>3, <1>4, <1>5, <1>6, <1>7, <1>8 DEF Next

(* The types hold, and no poll outlives its timeout. *)
THEOREM TypeCorrect == Spec => []TypeOK
<1>1. Init => TypeOK
  BY NoticesAssumption DEF Init, TypeOK, Notice, NoticeStates, Holds
<1> QED
  BY <1>1, TypeInductive, PTL DEF Spec

(***************************************************************************)
(* The lease                                                               *)
(***************************************************************************)

LeaseInv == OneHolder /\ HoldIsYoung /\ ClaimsHaveAges

(* A notice a claim may take is in no poll's hands: a pending one is not   *)
(* claimed, and a stale claim is older than any poll that runs.            *)
LEMMA ClaimableIsFree ==
  ASSUME TypeOK, HoldIsYoung, NEW n \in Pending \cup Stale, NEW p \in Pollers
  PROVE  hold[p][n] = "no"
<1>1. n \in Ids /\ polls[p] \in -1..JobTimeout
  BY DEF TypeOK, Pending, Stale
<1>2. CASE n \in Pending
  BY <1>1, <1>2 DEF Pending, HoldIsYoung
<1>3. CASE n \in Stale
  BY <1>1, <1>3, NoticesAssumption DEF Stale, HoldIsYoung, TypeOK, Notice
<1> QED
  BY <1>2, <1>3

(* Every step keeps the lease: what a poll holds nobody else holds. *)
LEMMA LeaseInductive ==
  ASSUME TypeOK, LeaseInv, [Next]_vars
  PROVE  LeaseInv'
<1> USE DEF LeaseInv
<1>0. TypeOK'
  BY TypeInductive
<1>1. ASSUME NEW n \in Ids, Raise(n)
      PROVE  LeaseInv'
  BY <1>1, NoticesAssumption
     DEF Raise, OneHolder, HoldIsYoung, ClaimsHaveAges, Live, TypeOK, Notice
<1>2. ASSUME NEW p \in Pollers, PollStarts(p)
      PROVE  LeaseInv'
  BY <1>2, NoticesAssumption
     DEF PollStarts, OneHolder, HoldIsYoung, ClaimsHaveAges, Live, TypeOK, Notice
<1>3. ASSUME NEW p \in Pollers, Claim(p)
      PROVE  LeaseInv'
  <2>1. PICK stale \in SUBSET Stale :
          LET claimed == FirstOf(Pending) \cup stale
          IN /\ notices' = [n \in Ids |-> IF n \in claimed THEN [state |-> "claimed", age |-> 0]
                                          ELSE notices[n]]
             /\ hold' = [hold EXCEPT ![p] =
                           [n \in Ids |-> IF n \in claimed THEN "claimed" ELSE "no"]]
    BY <1>3 DEF Claim
  <2> DEFINE claimed == FirstOf(Pending) \cup stale
  <2>2. claimed \subseteq Pending \cup Stale
    BY <2>1 DEF FirstOf
  <2>3. \A q \in Pollers, n \in claimed : hold[q][n] = "no"
    BY <2>2, ClaimableIsFree
  <2>4. /\ \A n \in Ids : notices'[n] = IF n \in claimed THEN [state |-> "claimed", age |-> 0]
                                        ELSE notices[n]
        /\ \A n \in Ids : hold'[p][n] = IF n \in claimed THEN "claimed" ELSE "no"
        /\ \A q \in Pollers : q # p => hold'[q] = hold[q]
        /\ polls' = polls /\ polls[p] \in 0..JobTimeout
    BY <1>3, <2>1, NoticesAssumption DEF Claim, TypeOK, Live
  <2> HIDE DEF claimed
  <2>5. OneHolder'
    BY <2>3, <2>4 DEF OneHolder
  <2>6. HoldIsYoung'
    <3> SUFFICES ASSUME NEW q \in Pollers, NEW n \in Ids, hold'[q][n] # "no"
                 PROVE  /\ notices'[n].state = "claimed" /\ notices'[n].age \in 0..polls'[q]
                        /\ Live(q)'
      BY DEF HoldIsYoung
    <3>1. CASE q = p
      BY <2>4, <3>1 DEF Live
    <3>2. CASE q # p
      <4>1. hold[q][n] # "no" /\ n \notin claimed
        BY <2>3, <2>4, <3>2
      <4> QED BY <2>4, <4>1 DEF HoldIsYoung, Live
    <3> QED BY <3>1, <3>2
  <2>7. ClaimsHaveAges'
    BY <2>4 DEF ClaimsHaveAges
  <2> QED
    BY <2>5, <2>6, <2>7
<1>4. ASSUME NEW p \in Pollers, PollEnds(p)
      PROVE  LeaseInv'
  BY <1>4 DEF PollEnds, OneHolder, HoldIsYoung, ClaimsHaveAges, Live, TypeOK
<1>5. ASSUME NEW p \in Pollers, NEW n \in Ids,
             Post(p, n) \/ PostFailed(p, n) \/ SettleFailed(p, n)
      PROVE  LeaseInv'
  <2>1. /\ notices' = notices /\ polls' = polls
        /\ \A q \in Pollers, m \in Ids : hold'[q][m] # "no" => hold[q][m] # "no"
    BY <1>5 DEF Post, PostFailed, SettleFailed, TypeOK
  <2> QED
    BY <2>1 DEF OneHolder, HoldIsYoung, ClaimsHaveAges, Live
<1>6. ASSUME NEW p \in Pollers, NEW n \in Ids, Posted(p, n) \/ Unclaim(p, n)
      PROVE  LeaseInv'
  <2>1. /\ polls' = polls /\ \A m \in Ids : m # n => notices'[m] = notices[m]
        /\ notices'[n].age = -1 /\ notices'[n].state # "claimed"
        /\ hold[p][n] # "no" /\ hold'[p][n] = "no"
        /\ \A q \in Pollers, m \in Ids : hold'[q][m] # "no" => hold[q][m] # "no"
    BY <1>6 DEF Posted, PostedNotice, Unclaim, UnclaimedNotice, TypeOK
  <2>2. \A q \in Pollers : hold'[q][n] = "no"
    BY <2>1 DEF OneHolder
  <2> QED
    BY <2>1, <2>2 DEF OneHolder, HoldIsYoung, ClaimsHaveAges, Live
<1>7. CASE Tick
  <2>1. hold' = hold
    BY <1>7 DEF Tick
  <2>2. \A n \in Ids : /\ notices'[n].state = notices[n].state
                       /\ notices[n].age \in 0..Lease => notices'[n].age = notices[n].age + 1
                       /\ notices[n].age \notin 0..Lease => notices'[n].age = notices[n].age
                       /\ notices[n].age \in -1..(Lease + 1)
    BY <1>7, NoticesAssumption DEF Tick, TypeOK, Notice
  <2>3. \A p \in Pollers : /\ polls[p] \in -1..JobTimeout
                           /\ Live(p) => polls'[p] = polls[p] + 1
    BY <1>7 DEF Tick, TypeOK, Live
  <2>4. HoldIsYoung'
    <3> SUFFICES ASSUME NEW q \in Pollers, NEW n \in Ids, hold[q][n] # "no"
                 PROVE  /\ notices'[n].state = "claimed" /\ notices'[n].age \in 0..polls'[q]
                        /\ Live(q)'
      BY <2>1 DEF HoldIsYoung
    <3>1. notices[n].state = "claimed" /\ notices[n].age \in 0..polls[q] /\ Live(q)
      BY DEF HoldIsYoung
    <3>2. PICK age \in Nat, life \in Nat : /\ age = notices[n].age /\ life = polls[q]
                                          /\ age <= life /\ life <= JobTimeout
      BY <2>3, <3>1, NoticesAssumption
    <3>3. age \in 0..Lease
      BY <3>2, NoticesAssumption
    <3>4. notices'[n].age = age + 1 /\ notices'[n].state = "claimed" /\ polls'[q] = life + 1
      BY <2>2, <2>3, <3>1, <3>2, <3>3
    <3> QED BY <3>2, <3>4 DEF Live
  <2>5. ClaimsHaveAges'
    <3> SUFFICES ASSUME NEW n \in Ids
                 PROVE  notices'[n].age >= 0 <=> notices'[n].state = "claimed"
      BY DEF ClaimsHaveAges
    <3>1. PICK age \in -1..(Lease + 1) : age = notices[n].age
      BY <2>2
    <3>2. notices'[n].state = notices[n].state /\ (age >= 0 <=> notices[n].state = "claimed")
      BY <2>2, <3>1 DEF ClaimsHaveAges
    <3>3. notices'[n].age = IF age \in 0..Lease THEN age + 1 ELSE age
      BY <2>2, <3>1
    <3> QED BY <3>1, <3>2, <3>3, NoticesAssumption
  <2> QED
    BY <2>1, <2>4, <2>5 DEF OneHolder
<1>8. CASE UNCHANGED vars
  BY <1>8 DEF vars, OneHolder, HoldIsYoung, ClaimsHaveAges, Live
<1> QED
  BY <1>1, <1>2, <1>3, <1>4, <1>5, <1>6, <1>7, <1>8 DEF Next

(* The lease holds in every reachable state. *)
LEMMA LeaseHolds == Spec => [](TypeOK /\ LeaseInv)
<1>1. Init => LeaseInv
  BY DEF Init, LeaseInv, OneHolder, HoldIsYoung, ClaimsHaveAges
<1> QED
  BY <1>1, TypeCorrect, LeaseInductive, PTL DEF Spec

(* "A live poll's claim is never taken from it." *)
THEOREM ClaimsAreExclusive == Spec => []OneHolder
BY LeaseHolds, PTL DEF LeaseInv

(***************************************************************************)
(* Every post is accounted for                                             *)
(***************************************************************************)

AccountInv == RepeatHasACause /\ PostedReachedSlack /\ PostIsAccounted

(* A notice that has been posted, with no doubt about it, is marked posted *)
(* or in the hands of the poll that posted it, and of no other.            *)
LEMMA SurePost ==
  ASSUME TypeOK, LeaseInv, PostIsAccounted, NEW n \in Ids, posts[n] > 0, ~unsure[n]
  PROVE  \/ notices[n].state = "posted" /\ \A p \in Pollers : hold[p][n] = "no"
         \/ /\ notices[n].state = "claimed"
            /\ \A p \in Pollers : hold[p][n] \in {"no", "taken"}
            /\ \E p \in Pollers : hold[p][n] = "taken"
BY DEF LeaseInv, OneHolder, HoldIsYoung, PostIsAccounted

(* Every step keeps the account. *)
LEMMA AccountInductive ==
  ASSUME TypeOK, LeaseInv, AccountInv, [Next]_vars
  PROVE  AccountInv'
<1> USE DEF AccountInv
<1>0. TypeOK' /\ LeaseInv'
  BY TypeInductive, LeaseInductive
<1>1. ASSUME NEW n \in Ids, Raise(n)
      PROVE  AccountInv'
  <2>1. /\ hold' = hold /\ posts' = posts /\ unsure' = unsure
        /\ \A m \in Ids : notices'[m].state = "posted" <=> notices[m].state = "posted"
    BY <1>1 DEF Raise, TypeOK, Notice
  <2> QED
    BY <2>1 DEF RepeatHasACause, PostedReachedSlack, PostIsAccounted
<1>2. ASSUME NEW p \in Pollers, PollStarts(p)
      PROVE  AccountInv'
  BY <1>2 DEF PollStarts, RepeatHasACause, PostedReachedSlack, PostIsAccounted
<1>3. ASSUME NEW p \in Pollers, Claim(p)
      PROVE  AccountInv'
  <2>1. PICK stale \in SUBSET Stale :
          LET claimed == FirstOf(Pending) \cup stale
          IN /\ notices' = [n \in Ids |-> IF n \in claimed THEN [state |-> "claimed", age |-> 0]
                                          ELSE notices[n]]
             /\ hold' = [hold EXCEPT ![p] =
                           [n \in Ids |-> IF n \in claimed THEN "claimed" ELSE "no"]]
    BY <1>3 DEF Claim
  <2> DEFINE claimed == FirstOf(Pending) \cup stale
  <2>2. claimed \subseteq Pending \cup Stale
    BY <2>1 DEF FirstOf
  <2>3. \A q \in Pollers, n \in claimed : hold[q][n] = "no"
    BY <2>2, ClaimableIsFree DEF LeaseInv
  <2>4. \A n \in claimed : n \in Ids /\ notices[n].state # "posted"
    <3> SUFFICES ASSUME NEW n \in Pending \cup Stale
                 PROVE  n \in Ids /\ notices[n].state # "posted"
      BY <2>2
    <3>1. CASE n \in Pending
      BY <3>1 DEF Pending
    <3>2. CASE n \in Stale
      <4>1. n \in Ids /\ notices[n].age > Lease /\ notices[n].age \in Int
        BY <3>2, NoticesAssumption DEF Stale, TypeOK, Notice
      <4>2. notices[n].age >= 0
        BY <4>1, NoticesAssumption
      <4> QED
        BY <4>1, <4>2 DEF LeaseInv, ClaimsHaveAges
    <3> QED
      BY <3>1, <3>2
  <2>5. /\ \A n \in Ids : notices'[n].state = IF n \in claimed THEN "claimed" ELSE notices[n].state
        /\ \A n \in Ids : hold'[p][n] = IF n \in claimed THEN "claimed" ELSE "no"
        /\ \A q \in Pollers : q # p => hold'[q] = hold[q]
        /\ \A n \in Ids : hold[p][n] = "no"
        /\ posts' = posts /\ unsure' = unsure
    BY <1>3, <2>1 DEF Claim, HoldsNone, TypeOK
  <2> HIDE DEF claimed
  <2>6. \A n \in claimed : ~(posts[n] > 0 /\ ~unsure[n])
    BY <2>3, <2>4, SurePost
  <2>7. RepeatHasACause' /\ PostedReachedSlack'
    BY <2>5 DEF RepeatHasACause, PostedReachedSlack
  <2>8. PostIsAccounted'
    BY <2>5, <2>6 DEF PostIsAccounted
  <2> QED
    BY <2>7, <2>8
<1>4. ASSUME NEW p \in Pollers, PollEnds(p)
      PROVE  AccountInv'
  <2>1. /\ notices' = notices /\ posts' = posts
        /\ \A n \in Ids : hold'[p][n] = "no"
        /\ \A q \in Pollers : q # p => hold'[q] = hold[q]
        /\ \A n \in Ids : unsure'[n] <=> unsure[n] \/ hold[p][n] = "taken"
    BY <1>4 DEF PollEnds, TypeOK
  <2> QED
    BY <2>1 DEF RepeatHasACause, PostedReachedSlack, PostIsAccounted
<1>5. ASSUME NEW p \in Pollers, NEW n \in Ids, Post(p, n) \/ PostFailed(p, n)
      PROVE  AccountInv'
  <2>1. /\ notices' = notices /\ hold[p][n] = "claimed"
        /\ \A m \in Ids : m # n => posts'[m] = posts[m] /\ unsure'[m] = unsure[m]
        /\ posts[n] \in 0..2 /\ posts'[n] \in 0..2
        /\ \A q \in Pollers, m \in Ids : q # p \/ m # n => hold'[q][m] = hold[q][m]
        /\ unsure[n] => unsure'[n]
    BY <1>0, <1>5 DEF Post, PostFailed, TypeOK
  <2>2. notices[n].state = "claimed"
    BY <2>1 DEF LeaseInv, HoldIsYoung
  <2>3. posts[n] = 0 \/ unsure[n]
    BY <2>1, SurePost
  <2>4. \/ /\ hold'[p][n] = "taken" /\ unsure'[n] = unsure[n]
           /\ posts'[n] = IF posts[n] < 2 THEN posts[n] + 1 ELSE 2
        \/ /\ hold'[p][n] = "refused" /\ unsure'[n] = unsure[n] /\ posts'[n] = posts[n]
        \/ hold'[p][n] = "refused" /\ unsure'[n]
    BY <1>5 DEF Post, PostFailed, TypeOK
  <2>5. RepeatHasACause'
    BY <2>1, <2>3, <2>4 DEF RepeatHasACause
  <2>6. PostedReachedSlack'
    BY <2>1, <2>2 DEF PostedReachedSlack
  <2>7. PostIsAccounted'
    <3>1. \A m \in Ids : m # n => \A q \in Pollers : hold'[q][m] = hold[q][m]
      BY <2>1
    <3>2. hold'[p][n] = "taken" => posts'[n] > 0
      BY <2>1, <2>4
    <3>3. \A q \in Pollers : q # p => hold'[q][n] # "taken"
      BY <2>1 DEF LeaseInv, OneHolder
    <3>4. posts'[n] > 0 /\ ~unsure'[n] => hold'[p][n] = "taken"
      BY <2>1, <2>3, <2>4
    <3> QED
      BY <2>1, <3>1, <3>2, <3>3, <3>4 DEF PostIsAccounted
  <2> QED
    BY <2>5, <2>6, <2>7
<1>6. ASSUME NEW p \in Pollers, NEW n \in Ids,
             Posted(p, n) \/ Unclaim(p, n) \/ SettleFailed(p, n)
      PROVE  AccountInv'
  <2>1. /\ posts' = posts /\ hold'[p][n] = "no" /\ hold[p][n] \in {"taken", "refused"}
        /\ \A m \in Ids : m # n => notices'[m] = notices[m] /\ unsure'[m] = unsure[m]
        /\ \A q \in Pollers, m \in Ids : q # p \/ m # n => hold'[q][m] = hold[q][m]
    BY <1>6 DEF Posted, Unclaim, SettleFailed, TypeOK
  <2>2. \/ hold[p][n] = "taken" /\ notices'[n].state = "posted" /\ unsure'[n] = unsure[n]
        \/ hold[p][n] = "refused" /\ notices'[n].state # "posted" /\ unsure'[n] = unsure[n]
        \/ /\ notices'[n] = notices[n]
           /\ unsure'[n] <=> unsure[n] \/ hold[p][n] = "taken"
    <3>1. CASE Posted(p, n)
      BY <3>1 DEF Posted, PostedNotice, TypeOK
    <3>2. CASE Unclaim(p, n)
      BY <3>2 DEF Unclaim, UnclaimedNotice, TypeOK
    <3>3. CASE SettleFailed(p, n)
      BY <3>3, Zenon DEF SettleFailed, TypeOK
    <3> QED
      BY <1>6, <3>1, <3>2, <3>3
  <2>3. hold[p][n] = "refused" => posts[n] = 0 \/ unsure[n]
    BY SurePost DEF TypeOK
  <2>4. RepeatHasACause'
    BY <2>1, <2>2 DEF RepeatHasACause
  <2>5. PostedReachedSlack'
    BY <2>1, <2>2 DEF PostedReachedSlack, PostIsAccounted
  <2>6. PostIsAccounted'
    BY <2>1, <2>2, <2>3 DEF PostIsAccounted
  <2> QED
    BY <2>4, <2>5, <2>6
<1>7. CASE Tick
  <2>1. /\ hold' = hold /\ posts' = posts /\ unsure' = unsure
        /\ \A n \in Ids : notices'[n].state = notices[n].state
    BY <1>7 DEF Tick, TypeOK, Notice
  <2> QED
    BY <2>1 DEF RepeatHasACause, PostedReachedSlack, PostIsAccounted
<1>8. CASE UNCHANGED vars
  BY <1>8 DEF vars, RepeatHasACause, PostedReachedSlack, PostIsAccounted
<1> QED
  BY <1>1, <1>2, <1>3, <1>4, <1>5, <1>6, <1>7, <1>8 DEF Next

(* The account holds in every reachable state. *)
LEMMA AccountHolds == Spec => []AccountInv
<1>1. Init => AccountInv
  BY DEF Init, AccountInv, RepeatHasACause, PostedReachedSlack, PostIsAccounted
<1> QED
  BY <1>1, LeaseHolds, AccountInductive, PTL DEF Spec

(* A notice goes out twice only when a poll lost it with the post made. *)
THEOREM RepeatsHaveCauses == Spec => []RepeatHasACause
BY AccountHolds, PTL DEF AccountInv

(* No notice is marked posted that Slack never took. *)
THEOREM PostedNoticesReachedSlack == Spec => []PostedReachedSlack
BY AccountHolds, PTL DEF AccountInv
-----------------------------------------------------------------------------
(* The measuring phase *)

RunFields  == {"repo", "opened", "branch", "branches", "page", "number", "superseded", "measured", "reverted"}
PollFields == {"pc", "repo", "list", "at", "row"}

(* What the variables hold: merges have times, listings hold pull requests *)
(* that merged.                                                            *)
ListedMerged(list) == list \in Seq(Pulls) /\ \A i \in 1..Len(list) : merged[list[i]] # 0
MergesListed ==
  /\ merged \in [Pulls -> Nat]
  /\ Shaped(updated, RepoNames) /\ \A repo \in RepoNames : ListedMerged(updated[repo])

(* What a row says names a pull request names one of the run's own. *)
NamesOwn(r, row) ==
  /\ Shaped(row, RunFields)
  /\ row.opened \in Nat
  /\ row.branch # "none" => \E x \in OwnPulls(r) : row.branch = About[x].head
  /\ \A head \in row.branches : \E x \in OwnPulls(r) : head = About[x].head
  /\ row.page # NoPull => \E x \in OwnPulls(r) : row.page = PageOf(x)
  /\ row.number # 0 => \E x \in OwnPulls(r) : row.number = About[x].number
  /\ row.superseded # 0 => \E x \in OwnPulls(r) : row.superseded = About[x].number
  /\ \A x \in OwnPulls(r) : row.repo = About[x].repo
RowsNameOwn == Shaped(runRows, Runs) /\ \A r \in Runs : NamesOwn(r, runRows[r])

(* A poll works through merged pull requests, and is about to write a row  *)
(* of the run that opened the one it measures.                             *)
WritesOwn(poll) ==
  /\ Shaped(poll, PollFields) /\ poll.at \in Nat \ {0} /\ ListedMerged(poll.list)
  /\ (poll.pc = "write" /\ poll.at <= Len(poll.list)) =>
       poll.row \in Runs /\ poll.list[poll.at] \in OwnPulls(poll.row)
PollsWriteOwn == Shaped(measuring, Measurers) /\ \A p \in Measurers : WritesOwn(measuring[p])

MeasuringIInv == MergesListed /\ RowsNameOwn /\ PollsWriteOwn /\ MeasuredOnOwnRow

(* The same, of one row. *)
MeasuredOwn(r, row) ==
  /\ row.measured # 0 => \E x \in OwnPulls(r) : /\ merged[x] # 0 /\ merged[x] = row.measured
                                                /\ About[x].number = row.number
  /\ row.reverted => \E x \in OwnPulls(r) : merged[x] # 0

LEMMA MeasuredByRow == MeasuredOnOwnRow <=> \A r \in Runs : MeasuredOwn(r, runRows[r])
BY DEF MeasuredOnOwnRow, MeasuredOwn

LEMMA OwnPullsArePulls == \A r \in Runs : OwnPulls(r) \subseteq Pulls
BY RewritesAssumption DEF OwnPulls

LEMMA FirstWay ==
  ASSUME NEW S \in SUBSET (1..5), S # {}
  PROVE  Min(S) \in S
<1>1. \E m \in S : \A y \in S : m <= y
  <2>1. CASE 1 \in S
    BY <2>1
  <2>2. CASE 1 \notin S /\ 2 \in S
    BY <2>2
  <2>3. CASE 1 \notin S /\ 2 \notin S /\ 3 \in S
    BY <2>3
  <2>4. CASE 1 \notin S /\ 2 \notin S /\ 3 \notin S /\ 4 \in S
    BY <2>4
  <2>5. CASE 1 \notin S /\ 2 \notin S /\ 3 \notin S /\ 4 \notin S
    <3>1. \A y \in S : y = 5
      BY <2>5
    <3>2. 5 \in S
      BY <3>1, \E y : y \in S
    <3> QED BY <3>1, <3>2
  <2> QED BY <2>1, <2>2, <2>3, <2>4, <2>5
<1> QED BY <1>1 DEF Min

(* RunForMerged only ever names the run that opened the pull request: a    *)
(* branch carries the run's id, a page its repository, and a number counts *)
(* in its own repository only.                                             *)
LEMMA NamedRunIsTheOpener ==
  ASSUME RowsNameOwn, NEW x \in Pulls, NEW r \in RunForMerged(x)
  PROVE  r \in Runs /\ x \in OwnPulls(r)
<1> DEFINE ways == <<{q \in Runs : runRows[q].branch = About[x].head},
                     {q \in Runs : About[x].head \in runRows[q].branches},
                     {q \in Runs : runRows[q].page = PageOf(x)},
                     {q \in Runs : runRows[q].number = About[x].number /\ runRows[q].repo = About[x].repo},
                     {q \in Runs : runRows[q].superseded = About[x].number /\ runRows[q].repo = About[x].repo}>>
           found == {i \in DOMAIN ways : ways[i] # {}}
<1>1. RunForMerged(x) = IF found = {} THEN {} ELSE ways[Min(found)]
  BY DEF RunForMerged
<1>2. found \in SUBSET (1..5)
  OBVIOUS
<1>3. PICK i \in 1..5 : r \in ways[i]
  <2> HIDE DEF ways, found
  <2>1. found # {}
    BY <1>1
  <2>2. Min(found) \in found
    BY <1>2, <2>1, FirstWay
  <2> QED BY <1>1, <1>2, <2>1, <2>2
<1>4. /\ r \in Runs
      /\ \/ runRows[r].branch = About[x].head
         \/ About[x].head \in runRows[r].branches
         \/ runRows[r].page = PageOf(x)
         \/ runRows[r].number = About[x].number /\ runRows[r].repo = About[x].repo
         \/ runRows[r].superseded = About[x].number /\ runRows[r].repo = About[x].repo
  BY <1>3
<1>5. PICK row : row = runRows[r]
  OBVIOUS
<1>6. NamesOwn(r, row)
  BY <1>4, <1>5 DEF RowsNameOwn
<1>7. /\ About[x].number \in Nat \ {0} /\ About[x].head # "none"
      /\ \A y \in Pulls : About[x].repo = About[y].repo /\ About[x].number = About[y].number => x = y
      /\ \A y \in OwnPulls(r) : y \in Pulls /\ (About[x].head = About[y].head => x \in OwnPulls(r))
  BY <1>4, RewritesAssumption, OwnPullsArePulls
<1>8. CASE row.branch = About[x].head \/ About[x].head \in row.branches
  BY <1>4, <1>6, <1>7, <1>8 DEF NamesOwn
<1>9. CASE row.page = PageOf(x)
  <2>1. row.page # NoPull
    BY <1>7, <1>9 DEF PageOf, NoPull
  <2>2. PICK y \in OwnPulls(r) : row.page = PageOf(y)
    BY <2>1, <1>6 DEF NamesOwn
  <2>3. About[x].repo = About[y].repo /\ About[x].number = About[y].number
    BY <2>2, <1>9 DEF PageOf
  <2> QED BY <2>2, <2>3, <1>4, <1>7
<1>10. CASE row.repo = About[x].repo /\ (row.number = About[x].number \/ row.superseded = About[x].number)
  <2>1. PICK y \in OwnPulls(r) : About[y].number = About[x].number
    BY <1>6, <1>7, <1>10 DEF NamesOwn
  <2>2. About[y].repo = About[x].repo
    BY <2>1, <1>6, <1>10 DEF NamesOwn
  <2> QED BY <2>1, <2>2, <1>4, <1>7
<1> QED BY <1>4, <1>5, <1>8, <1>9, <1>10

(* What a poll has listed, and what a run's merges say, a later merge      *)
(* leaves true: a merge's time is given once.                              *)
MergesKept == /\ merged' \in [Pulls -> Nat]
              /\ \A x \in Pulls : merged[x] # 0 => merged'[x] = merged[x]

LEMMA ListedStays ==
  ASSUME MergesKept, NEW list, ListedMerged(list)
  PROVE  ListedMerged(list)'
<1>1. list \in Seq(Pulls) /\ \A i \in 1..Len(list) : merged[list[i]] # 0
  BY DEF ListedMerged
<1>2. \A i \in 1..Len(list) : list[i] \in Pulls
  BY <1>1
<1>3. \A i \in 1..Len(list) : merged'[list[i]] # 0
  BY <1>1, <1>2 DEF MergesKept
<1> QED BY <1>1, <1>3 DEF ListedMerged

LEMMA MeasuredStays ==
  ASSUME MergesKept, NEW r \in Runs, NEW row, MeasuredOwn(r, row)
  PROVE  MeasuredOwn(r, row)'
BY OwnPullsArePulls DEF MergesKept, MeasuredOwn

LEMMA MeasuringStays ==
  ASSUME MergesKept, MergesListed, UNCHANGED updated
  PROVE  MergesListed'
<1>1. \A repo \in RepoNames : ListedMerged(updated[repo])'
  BY ListedStays DEF MergesListed, ListedMerged
<1> QED BY <1>1 DEF MergesListed, MergesKept, Shaped

LEMMA PollsStay ==
  ASSUME MergesKept, PollsWriteOwn, UNCHANGED measuring
  PROVE  PollsWriteOwn'
<1>1. \A p \in Measurers : ListedMerged(measuring[p].list)'
  BY ListedStays DEF PollsWriteOwn, WritesOwn, ListedMerged
<1> QED BY <1>1 DEF PollsWriteOwn, WritesOwn

(* One poll p goes on as poll. *)
LEMMA PollGoesOn ==
  ASSUME MergesKept, PollsWriteOwn, NEW p \in Measurers, NEW poll,
         measuring' = [measuring EXCEPT ![p] = poll], WritesOwn(poll)'
  PROVE  PollsWriteOwn'
<1>1. \A q \in Measurers : measuring'[q] = IF q = p THEN poll ELSE measuring[q]
  BY DEF PollsWriteOwn, Shaped
<1>2. Shaped(measuring', Measurers)
  BY DEF PollsWriteOwn, Shaped
<1>3. \A q \in Measurers : WritesOwn(measuring[q]) => WritesOwn(measuring[q])'
  BY ListedStays DEF WritesOwn
<1> QED BY <1>1, <1>2, <1>3 DEF PollsWriteOwn

LEMMA InitMeasuring == RewritesInit => MeasuringIInv
<1> SUFFICES ASSUME RewritesInit PROVE MeasuringIInv
  OBVIOUS
<1>1. MergesListed
  <2>1. ListedMerged(<<>>)
    BY DEF ListedMerged
  <2>2. merged \in [Pulls -> Nat] /\ Shaped(updated, RepoNames) /\ \A repo \in RepoNames : updated[repo] = <<>>
    BY DEF RewritesInit, Shaped
  <2> QED BY <2>1, <2>2 DEF MergesListed
<1>2. \A r \in Runs : NamesOwn(r, NewRow(r)) /\ MeasuredOwn(r, NewRow(r))
  <2> SUFFICES ASSUME NEW r \in Runs PROVE NamesOwn(r, NewRow(r)) /\ MeasuredOwn(r, NewRow(r))
    OBVIOUS
  <2>1. PICK row : row = NewRow(r)
    OBVIOUS
  <2>2. /\ Shaped(row, RunFields) /\ row.opened = 0 /\ row.branch = "none" /\ row.branches = {}
        /\ row.page = NoPull /\ row.number = 0 /\ row.superseded = 0 /\ row.measured = 0
        /\ row.reverted = FALSE /\ row.repo = About[Attempts[r][1]].repo
    BY <2>1 DEF NewRow, Shaped, RunFields
  <2>3. \A x \in OwnPulls(r) : About[Attempts[r][1]].repo = About[x].repo
    <3> SUFFICES ASSUME NEW x \in OwnPulls(r) PROVE About[Attempts[r][1]].repo = About[x].repo
      OBVIOUS
    <3>1. Attempts[r][1] \in OwnPulls(r)
      BY RewritesAssumption DEF OwnPulls
    <3> QED BY <3>1, RewritesAssumption
  <2> QED BY <2>1, <2>2, <2>3 DEF NamesOwn, MeasuredOwn
<1>3. Shaped(runRows, Runs) /\ \A r \in Runs : runRows[r] = NewRow(r)
  BY DEF RewritesInit, Shaped
<1>4. WritesOwn(Idle)
  BY DEF WritesOwn, Idle, Shaped, PollFields, ListedMerged
<1>5. PollsWriteOwn
  BY <1>4 DEF RewritesInit, PollsWriteOwn, Shaped
<1> QED BY <1>1, <1>2, <1>3, <1>5, MeasuredByRow DEF MeasuringIInv, RowsNameOwn

LEMMA OpenKeepsMeasuring ==
  ASSUME MeasuringIInv, NEW r \in Runs, OpenPR(r)
  PROVE  MeasuringIInv'
<1> DEFINE x == Attempts[r][runRows[r].opened + 1]
<1>1. /\ runRows[r].opened < Len(Attempts[r]) /\ UNCHANGED <<merged, updated, measuring>>
      /\ runRows' = [runRows EXCEPT ![r] =
          [runRows[r] EXCEPT !.opened = runRows[r].opened + 1, !.branch = About[x].head,
                      !.branches = runRows[r].branches \cup {About[x].head},
                      !.page = PageOf(x), !.superseded = runRows[r].page.number]]
  BY DEF OpenPR
<1>2. NamesOwn(r, runRows[r]) /\ MeasuredOwn(r, runRows[r])
  BY MeasuredByRow DEF MeasuringIInv, RowsNameOwn
<1>3. x \in OwnPulls(r)
  <2>1. Attempts[r] \in Seq(Pulls) /\ runRows[r].opened \in Nat
    BY <1>2, RewritesAssumption DEF NamesOwn
  <2> QED BY <1>1, <2>1 DEF OwnPulls
<1>4. PICK y, row, old : /\ y = x /\ old = runRows[r]
                         /\ row = [old EXCEPT !.opened = old.opened + 1, !.branch = About[y].head,
                              !.branches = old.branches \cup {About[y].head},
                              !.page = PageOf(y), !.superseded = old.page.number]
  OBVIOUS
<1>5. runRows' = [runRows EXCEPT ![r] = row]
  BY <1>1, <1>4
<1> HIDE DEF x
<1>6. Shaped(old, RunFields)
  BY <1>2, <1>4 DEF NamesOwn
<1>7. /\ Shaped(row, RunFields) /\ row.opened = old.opened + 1 /\ row.branch = About[y].head
      /\ row.branches = old.branches \cup {About[y].head} /\ row.page = PageOf(y)
      /\ row.superseded = old.page.number /\ row.number = old.number /\ row.repo = old.repo
      /\ row.measured = old.measured /\ row.reverted = old.reverted
  BY <1>4, <1>6 DEF Shaped, RunFields
<1>8. NamesOwn(r, old) /\ MeasuredOwn(r, old) /\ y \in OwnPulls(r)
  BY <1>2, <1>3, <1>4
<1>9. NamesOwn(r, row)
  <2>1. row.opened \in Nat /\ \A head \in row.branches : \E z \in OwnPulls(r) : head = About[z].head
    BY <1>7, <1>8 DEF NamesOwn
  <2>2. row.superseded # 0 => \E z \in OwnPulls(r) : row.superseded = About[z].number
    <3>1. CASE old.page = NoPull
      <4>1. NoPull.number = 0
        BY DEF NoPull
      <4> QED BY <3>1, <4>1, <1>7
    <3>2. CASE old.page # NoPull
      <4>1. PICK z \in OwnPulls(r) : old.page = PageOf(z)
        BY <3>2, <1>8 DEF NamesOwn
      <4>2. old.page.number = About[z].number
        BY <4>1 DEF PageOf
      <4> QED BY <4>2, <1>7
    <3> QED BY <3>1, <3>2
  <2> QED BY <1>7, <1>8, <2>1, <2>2 DEF NamesOwn
<1>10. MeasuredOwn(r, row)
  BY <1>7, <1>8 DEF MeasuredOwn
<1>11. \A q \in Runs : NamesOwn(q, runRows[q]) /\ MeasuredOwn(q, runRows[q])
  BY MeasuredByRow DEF MeasuringIInv, RowsNameOwn
<1>12. Shaped(runRows', Runs) /\ \A q \in Runs : runRows'[q] = IF q = r THEN row ELSE runRows[q]
  BY <1>5 DEF MeasuringIInv, RowsNameOwn, Shaped
<1>13. RowsNameOwn'
  BY <1>9, <1>11, <1>12 DEF RowsNameOwn, NamesOwn
<1>14. \A q \in Runs : MeasuredOwn(q, runRows[q])'
  BY <1>1, <1>10, <1>11, <1>12 DEF MeasuredOwn
<1>15. MergesListed' /\ PollsWriteOwn'
  BY <1>1 DEF MeasuringIInv, MergesListed, PollsWriteOwn, WritesOwn, ListedMerged
<1>16. MeasuredOnOwnRow'
  BY <1>14 DEF MeasuredOwn, MeasuredOnOwnRow
<1> QED BY <1>13, <1>15, <1>16 DEF MeasuringIInv

LEMMA MergeKeepsMeasuring ==
  ASSUME MeasuringIInv, NEW x \in Pulls, MergePR(x)
  PROVE  MeasuringIInv'
<1>1. PICK t : t = 1 + Cardinality({y \in Pulls : merged[y] # 0})
  OBVIOUS
<1>2. t \in Nat \ {0}
  <2>1. IsFiniteSet({y \in Pulls : merged[y] # 0})
    BY FS_Subset, RewritesAssumption
  <2>2. Cardinality({y \in Pulls : merged[y] # 0}) \in Nat
    BY <2>1, FS_CardinalityType
  <2> QED BY <1>1, <2>2
<1>3. /\ merged[x] = 0 /\ merged' = [merged EXCEPT ![x] = t]
      /\ updated' = [updated EXCEPT ![About[x].repo] = <<x>> \o updated[About[x].repo]]
      /\ UNCHANGED <<runRows, measuring>>
  BY <1>1 DEF MergePR
<1>4. merged \in [Pulls -> Nat]
  BY DEF MeasuringIInv, MergesListed
<1>5. MergesKept /\ merged'[x] # 0
  BY <1>2, <1>3, <1>4 DEF MergesKept
<1>6. MergesListed'
  <2> DEFINE repo == About[x].repo
  <2>1. repo \in RepoNames
    BY DEF RepoNames
  <2>2. PICK old : old = updated[repo]
    OBVIOUS
  <2>3. ListedMerged(old)
    BY <2>1, <2>2 DEF MeasuringIInv, MergesListed
  <2>4. ListedMerged(old)'
    BY <1>5, <2>3, ListedStays
  <2>5. PICK new : new = <<x>> \o old
    OBVIOUS
  <2>6. old \in Seq(Pulls) /\ \A i \in 1..Len(old) : merged'[old[i]] # 0
    BY <2>4 DEF ListedMerged
  <2>7. new \in Seq(Pulls) /\ Len(new) = Len(old) + 1
    BY <2>5, <2>6
  <2>8. new[1] = x /\ \A i \in 2..Len(new) : new[i] = old[i - 1]
    BY <2>5, <2>6
  <2>9. \A i \in 1..Len(new) : merged'[new[i]] # 0
    <3> SUFFICES ASSUME NEW i \in 1..Len(new) PROVE merged'[new[i]] # 0
      OBVIOUS
    <3>1. CASE i = 1
      BY <3>1, <2>8, <1>5
    <3>2. CASE i # 1
      <4>1. Len(old) \in Nat
        BY <2>6
      <4>2. i \in 2..Len(new) /\ i - 1 \in 1..Len(old)
        BY <3>2, <4>1, <2>7
      <4> QED BY <4>2, <2>6, <2>8
    <3> QED BY <3>1, <3>2
  <2>10. ListedMerged(new)'
    BY <2>7, <2>9 DEF ListedMerged
  <2>11. updated' = [updated EXCEPT ![repo] = new]
    BY <1>3, <2>2, <2>5
  <2>12. Shaped(updated, RepoNames) /\ \A q \in RepoNames : ListedMerged(updated[q])
    BY DEF MeasuringIInv, MergesListed
  <2> HIDE DEF repo
  <2>13. Shaped(updated', RepoNames) /\ \A q \in RepoNames : updated'[q] = IF q = repo THEN new ELSE updated[q]
    BY <2>11, <2>12 DEF Shaped
  <2>14. \A q \in RepoNames : ListedMerged(updated[q])'
    <3> SUFFICES ASSUME NEW q \in RepoNames PROVE ListedMerged(updated[q])'
      OBVIOUS
    <3>1. PICK list : list = updated[q]
      OBVIOUS
    <3>2. ListedMerged(list)'
      BY <3>1, <2>12, <1>5, ListedStays
    <3> QED BY <3>1, <3>2, <2>10, <2>13 DEF ListedMerged
  <2> QED BY <1>5, <2>13, <2>14 DEF MergesListed, MergesKept
<1>7. PollsWriteOwn'
  BY <1>3, <1>5, PollsStay DEF MeasuringIInv
<1>8. RowsNameOwn'
  BY <1>3 DEF MeasuringIInv, RowsNameOwn, NamesOwn
<1>9. \A q \in Runs : MeasuredOwn(q, runRows[q])'
  BY <1>3, <1>5, MeasuredByRow, MeasuredStays DEF MeasuringIInv, MeasuredOwn
<1>10. MeasuredOnOwnRow'
  BY <1>9 DEF MeasuredOwn, MeasuredOnOwnRow
<1> QED BY <1>6, <1>7, <1>8, <1>10 DEF MeasuringIInv

(* A poll's own steps leave the rows and the merges alone. *)
LEMMA PollKeepsMeasuring ==
  ASSUME MeasuringIInv, NEW p \in Measurers, NEW poll, UNCHANGED <<merged, updated, runRows>>,
         measuring' = [measuring EXCEPT ![p] = poll], WritesOwn(poll)
  PROVE  MeasuringIInv'
<1>1. MergesKept
  BY DEF MergesKept, MeasuringIInv, MergesListed
<1>2. WritesOwn(poll)'
  BY DEF WritesOwn, ListedMerged
<1>3. PollsWriteOwn'
  BY <1>1, <1>2, PollGoesOn DEF MeasuringIInv
<1>4. MergesListed'
  BY DEF MeasuringIInv, MergesListed, ListedMerged
<1>5. RowsNameOwn' /\ MeasuredOnOwnRow'
  BY DEF MeasuringIInv, RowsNameOwn, NamesOwn, MeasuredOnOwnRow
<1> QED BY <1>3, <1>4, <1>5 DEF MeasuringIInv

LEMMA MovedOnWrites ==
  ASSUME NEW poll, WritesOwn(poll)
  PROVE  WritesOwn(MovedOn(poll))
<1>1. PICK next : next = MovedOn(poll)
  OBVIOUS
<1>2. Shaped(poll, PollFields) /\ poll.at \in Nat \ {0} /\ ListedMerged(poll.list)
  BY DEF WritesOwn
<1>3. /\ Shaped(next, PollFields) /\ next.pc = "measure" /\ next.at = poll.at + 1 /\ next.list = poll.list
  BY <1>1, <1>2 DEF MovedOn, Shaped, PollFields
<1>4. WritesOwn(next)
  BY <1>2, <1>3 DEF WritesOwn
<1> QED BY <1>1, <1>4

LEMMA AfterWrites == \A repo : WritesOwn(After(repo))
<1> SUFFICES ASSUME NEW repo PROVE WritesOwn(After(repo))
  OBVIOUS
<1>1. PICK poll : poll = After(repo)
  OBVIOUS
<1>2. /\ Shaped(poll, PollFields) /\ poll.pc # "write" /\ poll.at = 1 /\ poll.list = <<>>
  BY <1>1 DEF After, Idle, Shaped, PollFields
<1>3. ListedMerged(<<>>)
  BY DEF ListedMerged
<1>4. WritesOwn(poll)
  BY <1>2, <1>3 DEF WritesOwn
<1> QED BY <1>1, <1>4

LEMMA ListKeepsMeasuring ==
  ASSUME MeasuringIInv, NEW p \in Measurers, NEW repo \in DOMAIN Repos, ListClosed(p, repo)
  PROVE  MeasuringIInv'
<1>1. PICK all : all = Closed(Repos[repo])
  OBVIOUS
<1>2. PICK list : list = IF Len(all) <= ListCap THEN all ELSE SubSeq(all, 1, ListCap)
  OBVIOUS
<1>3. PICK poll : poll = [Idle EXCEPT !.pc = "measure", !.repo = repo, !.list = list]
  OBVIOUS
<1>4. measuring' = [measuring EXCEPT ![p] = poll] /\ UNCHANGED <<merged, updated, runRows>>
  BY <1>1, <1>2, <1>3 DEF ListClosed
<1>5. ListedMerged(all)
  BY <1>1 DEF Closed, RepoNames, MeasuringIInv, MergesListed
<1>6. ListedMerged(list)
  <2>1. all \in Seq(Pulls) /\ \A i \in 1..Len(all) : merged[all[i]] # 0
    BY <1>5 DEF ListedMerged
  <2>2. ListCap \in Nat \ {0} /\ Len(all) \in Nat
    BY <2>1, RewritesAssumption
  <2>3. ASSUME Len(all) > ListCap
        PROVE  /\ SubSeq(all, 1, ListCap) \in Seq(Pulls) /\ Len(SubSeq(all, 1, ListCap)) = ListCap
               /\ \A i \in 1..ListCap : SubSeq(all, 1, ListCap)[i] = all[i]
    BY <2>1, <2>2, <2>3
  <2>4. CASE Len(all) <= ListCap
    BY <2>4, <1>2, <1>5
  <2>5. CASE Len(all) > ListCap
    <3>1. list = SubSeq(all, 1, ListCap)
      BY <2>5, <2>2, <1>2
    <3>2. list \in Seq(Pulls) /\ Len(list) = ListCap /\ \A i \in 1..ListCap : list[i] = all[i]
      BY <3>1, <2>3, <2>5
    <3>3. \A i \in 1..Len(list) : merged[list[i]] # 0
      BY <3>2, <2>1, <2>2, <2>5
    <3> QED BY <3>2, <3>3 DEF ListedMerged
  <2> QED BY <2>2, <2>4, <2>5
<1>7. Shaped(poll, PollFields) /\ poll.pc = "measure" /\ poll.at = 1 /\ poll.list = list
  BY <1>3 DEF Idle, Shaped, PollFields
<1>8. WritesOwn(poll)
  BY <1>6, <1>7 DEF WritesOwn
<1> QED BY <1>4, <1>8, PollKeepsMeasuring

(* A poll at its place in the listing works on a merged pull request. *)
LEMMA CurrentIsMerged ==
  ASSUME MeasuringIInv, NEW p \in Measurers, NEW pc, Working(p, pc)
  PROVE  Current(p) \in Pulls /\ merged[Current(p)] # 0
<1>1. /\ measuring[p].at \in Nat \ {0} /\ measuring[p].list \in Seq(Pulls)
      /\ \A i \in 1..Len(measuring[p].list) : merged[measuring[p].list[i]] # 0
      /\ measuring[p].at <= Len(measuring[p].list)
  BY DEF MeasuringIInv, PollsWriteOwn, WritesOwn, ListedMerged, Working
<1>2. measuring[p].at \in 1..Len(measuring[p].list)
  BY <1>1
<1> QED BY <1>1, <1>2 DEF Current

LEMMA ReadKeepsMeasuring ==
  ASSUME MeasuringIInv, NEW p \in Measurers, ReadRow(p)
  PROVE  MeasuringIInv'
<1>1. WritesOwn(measuring[p])
  BY DEF MeasuringIInv, PollsWriteOwn
<1>2. UNCHANGED <<merged, updated, runRows>>
  BY DEF ReadRow
<1>3. \/ measuring' = [measuring EXCEPT ![p] = MovedOn(measuring[p])]
      \/ \E r \in RunForMerged(Current(p)) :
           measuring' = [measuring EXCEPT ![p] = [measuring[p] EXCEPT !.pc = "write", !.row = r]]
  BY DEF ReadRow
<1>4. CASE measuring' = [measuring EXCEPT ![p] = MovedOn(measuring[p])]
  BY <1>1, <1>2, <1>4, MovedOnWrites, PollKeepsMeasuring
<1>5. ASSUME NEW r \in RunForMerged(Current(p)),
             measuring' = [measuring EXCEPT ![p] = [measuring[p] EXCEPT !.pc = "write", !.row = r]]
      PROVE  MeasuringIInv'
  <2>1. PICK poll : poll = [measuring[p] EXCEPT !.pc = "write", !.row = r]
    OBVIOUS
  <2>2. Current(p) \in Pulls
    BY CurrentIsMerged DEF ReadRow
  <2>3. r \in Runs /\ Current(p) \in OwnPulls(r)
    BY <1>5, <2>2, NamedRunIsTheOpener DEF MeasuringIInv
  <2>4. Shaped(measuring[p], PollFields) /\ measuring[p].at \in Nat \ {0} /\ ListedMerged(measuring[p].list)
    BY <1>1 DEF WritesOwn
  <2>5. /\ Shaped(poll, PollFields) /\ poll.row = r
        /\ poll.at = measuring[p].at /\ poll.list = measuring[p].list
    BY <2>1, <2>4 DEF Shaped, PollFields
  <2>6. WritesOwn(poll)
    BY <2>3, <2>4, <2>5 DEF WritesOwn, Current
  <2> QED BY <1>2, <1>5, <2>1, <2>6, PollKeepsMeasuring
<1> QED BY <1>3, <1>4, <1>5

LEMMA RecordKeepsMeasuring ==
  ASSUME MeasuringIInv, NEW p \in Measurers, Record(p)
  PROVE  MeasuringIInv'
<1>1. PICK r, x, old, row : /\ r = measuring[p].row /\ x = Current(p) /\ old = runRows[r]
                            /\ row = [old EXCEPT !.measured = merged[x], !.number = About[x].number,
                                                 !.reverted = FALSE]
  OBVIOUS
<1>2. /\ Working(p, "write") /\ UNCHANGED <<merged, updated>>
      /\ runRows' = [runRows EXCEPT ![r] = row]
      /\ measuring' = [measuring EXCEPT ![p] = MovedOn(measuring[p])]
  BY <1>1 DEF Record
<1>3. WritesOwn(measuring[p])
  BY DEF MeasuringIInv, PollsWriteOwn
<1>4. r \in Runs /\ x \in OwnPulls(r)
  BY <1>1, <1>2, <1>3 DEF WritesOwn, Working, Current
<1>5. merged[x] # 0 /\ x \in Pulls
  BY <1>1, <1>2, CurrentIsMerged
<1>6. NamesOwn(r, old)
  BY <1>1, <1>4 DEF MeasuringIInv, RowsNameOwn
<1>7. Shaped(old, RunFields)
  BY <1>6 DEF NamesOwn
<1>8. /\ Shaped(row, RunFields) /\ row.opened = old.opened /\ row.branch = old.branch
      /\ row.branches = old.branches /\ row.page = old.page /\ row.superseded = old.superseded
      /\ row.repo = old.repo /\ row.number = About[x].number
      /\ row.measured = merged[x] /\ row.reverted = FALSE
  BY <1>1, <1>7 DEF Shaped, RunFields
<1>9. NamesOwn(r, row)
  BY <1>4, <1>6, <1>8 DEF NamesOwn
<1>10. MeasuredOwn(r, row)
  BY <1>4, <1>5, <1>8 DEF MeasuredOwn
<1>11. Shaped(runRows', Runs) /\ \A q \in Runs : runRows'[q] = IF q = r THEN row ELSE runRows[q]
  BY <1>2 DEF MeasuringIInv, RowsNameOwn, Shaped
<1>12. \A q \in Runs : NamesOwn(q, runRows[q]) /\ MeasuredOwn(q, runRows[q])
  BY MeasuredByRow DEF MeasuringIInv, RowsNameOwn
<1>13. RowsNameOwn'
  BY <1>9, <1>11, <1>12 DEF RowsNameOwn, NamesOwn
<1>14. \A q \in Runs : MeasuredOwn(q, runRows[q])'
  BY <1>2, <1>10, <1>11, <1>12 DEF MeasuredOwn
<1>15. MeasuredOnOwnRow'
  BY <1>14 DEF MeasuredOwn, MeasuredOnOwnRow
<1>16. MergesListed' /\ MergesKept
  BY <1>2 DEF MeasuringIInv, MergesListed, ListedMerged, MergesKept
<1>17. PollsWriteOwn'
  <2>1. PICK poll : poll = MovedOn(measuring[p])
    OBVIOUS
  <2>2. WritesOwn(poll)
    BY <2>1, <1>3, MovedOnWrites
  <2>3. WritesOwn(poll)'
    BY <2>2, <1>2 DEF WritesOwn, ListedMerged
  <2> QED BY <1>2, <1>16, <2>1, <2>3, PollGoesOn DEF MeasuringIInv
<1> QED BY <1>13, <1>15, <1>16, <1>17 DEF MeasuringIInv

LEMMA FlagKeepsMeasuring ==
  ASSUME MeasuringIInv, NEW p \in Measurers, FlagReverted(p)
  PROVE  MeasuringIInv'
<1> DEFINE x == Current(p)
           originals == {y \in Pulls : /\ About[y].repo = About[x].repo
                                       /\ About[y].number = revertedPR(x, measuring[p].list)
                                       /\ merged[y] # 0 /\ merged[y] < merged[x]
                                       /\ About[y].head \in Branches}
           named == UNION {RunForMerged(y) : y \in originals}
           next  == [measuring[p] EXCEPT !.at = measuring[p].at + 1]
<1>1. /\ UNCHANGED <<merged, updated>> /\ Working(p, "flag")
      /\ runRows' = [r \in Runs |-> IF r \in named THEN [runRows[r] EXCEPT !.reverted = TRUE] ELSE runRows[r]]
      /\ measuring' = [measuring EXCEPT ![p] = next]
  BY DEF FlagReverted
<1>2. \A r \in named : \E y \in OwnPulls(r) : merged[y] # 0
  BY NamedRunIsTheOpener DEF MeasuringIInv
<1> HIDE DEF named, next, x, originals
<1>3. \A r \in Runs : NamesOwn(r, runRows[r]) /\ MeasuredOwn(r, runRows[r])
  BY MeasuredByRow DEF MeasuringIInv, RowsNameOwn
<1>4. ASSUME NEW r \in Runs
      PROVE  NamesOwn(r, runRows'[r]) /\ MeasuredOwn(r, runRows'[r])
  <2>1. CASE r \notin named
    BY <1>1, <1>3, <2>1
  <2>2. CASE r \in named
    <3>1. PICK old, row : old = runRows[r] /\ row = [old EXCEPT !.reverted = TRUE]
      OBVIOUS
    <3>2. Shaped(old, RunFields) /\ NamesOwn(r, old) /\ MeasuredOwn(r, old)
      BY <1>3, <3>1 DEF NamesOwn
    <3>3. /\ Shaped(row, RunFields) /\ row.opened = old.opened /\ row.branch = old.branch
          /\ row.branches = old.branches /\ row.page = old.page /\ row.superseded = old.superseded
          /\ row.repo = old.repo /\ row.number = old.number /\ row.measured = old.measured
      BY <3>1, <3>2 DEF Shaped, RunFields
    <3>4. NamesOwn(r, row)
      BY <3>2, <3>3 DEF NamesOwn
    <3>5. MeasuredOwn(r, row)
      BY <1>2, <2>2, <3>2, <3>3 DEF MeasuredOwn
    <3>6. runRows'[r] = row
      BY <1>1, <2>2, <3>1
    <3> QED BY <3>4, <3>5, <3>6
  <2> QED BY <2>1, <2>2
<1>5. Shaped(runRows', Runs)
  BY <1>1 DEF Shaped
<1>6. RowsNameOwn'
  BY <1>4, <1>5 DEF RowsNameOwn, NamesOwn
<1>7. \A r \in Runs : MeasuredOwn(r, runRows[r])'
  BY <1>1, <1>4 DEF MeasuredOwn
<1>8. MeasuredOnOwnRow'
  BY <1>7 DEF MeasuredOwn, MeasuredOnOwnRow
<1>9. MergesListed' /\ MergesKept
  BY <1>1 DEF MeasuringIInv, MergesListed, ListedMerged, MergesKept
<1>10. PollsWriteOwn'
  <2>1. WritesOwn(measuring[p])
    BY DEF MeasuringIInv, PollsWriteOwn
  <2>2. Shaped(measuring[p], PollFields) /\ measuring[p].at \in Nat \ {0} /\ ListedMerged(measuring[p].list)
        /\ measuring[p].pc = "flag"
    BY <1>1, <2>1 DEF WritesOwn, Working
  <2>3. PICK poll : poll = next
    OBVIOUS
  <2>4. /\ Shaped(poll, PollFields) /\ poll.pc = "flag" /\ poll.at = measuring[p].at + 1
        /\ poll.list = measuring[p].list
    BY <2>2, <2>3 DEF next, Shaped, PollFields
  <2>5. WritesOwn(poll)
    BY <2>2, <2>4 DEF WritesOwn
  <2>6. WritesOwn(poll)'
    BY <2>5, <1>1 DEF WritesOwn, ListedMerged
  <2> QED BY <1>1, <1>9, <2>3, <2>6, PollGoesOn DEF MeasuringIInv
<1> QED BY <1>6, <1>8, <1>9, <1>10 DEF MeasuringIInv

LEMMA MeasuringStep ==
  ASSUME MeasuringIInv, [RewritesNext]_rewriteVars
  PROVE  MeasuringIInv'
<1>0. \A p \in Measurers : WritesOwn(measuring[p])
  BY DEF MeasuringIInv, PollsWriteOwn
<1>1. ASSUME NEW r \in Runs, OpenPR(r) PROVE MeasuringIInv'
  BY <1>1, OpenKeepsMeasuring
<1>2. ASSUME NEW x \in Pulls, MergePR(x) PROVE MeasuringIInv'
  BY <1>2, MergeKeepsMeasuring
<1>3. ASSUME NEW p \in Measurers, NEW repo \in DOMAIN Repos, ListClosed(p, repo) PROVE MeasuringIInv'
  BY <1>3, ListKeepsMeasuring
<1>4. ASSUME NEW p \in Measurers, NEW repo \in DOMAIN Repos, ListingFails(p, repo) PROVE MeasuringIInv'
  BY <1>4, AfterWrites, PollKeepsMeasuring DEF ListingFails
<1>5. ASSUME NEW p \in Measurers, ReadRow(p) PROVE MeasuringIInv'
  BY <1>5, ReadKeepsMeasuring
<1>6. ASSUME NEW p \in Measurers, Record(p) PROVE MeasuringIInv'
  BY <1>6, RecordKeepsMeasuring
<1>7. ASSUME NEW p \in Measurers, MeasureFails(p) PROVE MeasuringIInv'
  BY <1>0, <1>7, MovedOnWrites, PollKeepsMeasuring DEF MeasureFails
<1>8. ASSUME NEW p \in Measurers, MeasuresDone(p) PROVE MeasuringIInv'
  <2>1. PICK poll : poll = [measuring[p] EXCEPT !.pc = "flag", !.at = 1]
    OBVIOUS
  <2>2. Shaped(measuring[p], PollFields) /\ ListedMerged(measuring[p].list)
    BY <1>0 DEF WritesOwn
  <2>3. Shaped(poll, PollFields) /\ poll.pc = "flag" /\ poll.at = 1 /\ poll.list = measuring[p].list
    BY <2>1, <2>2 DEF Shaped, PollFields
  <2>4. WritesOwn(poll)
    BY <2>2, <2>3 DEF WritesOwn
  <2> QED BY <1>8, <2>1, <2>4, PollKeepsMeasuring DEF MeasuresDone
<1>9. ASSUME NEW p \in Measurers, FlagReverted(p) PROVE MeasuringIInv'
  BY <1>9, FlagKeepsMeasuring
<1>10. ASSUME NEW p \in Measurers, RepoDone(p) PROVE MeasuringIInv'
  BY <1>10, AfterWrites, PollKeepsMeasuring DEF RepoDone
<1>11. ASSUME NEW p \in Measurers, FlagFails(p) PROVE MeasuringIInv'
  <2>1. PICK poll : poll = [measuring[p] EXCEPT !.at = measuring[p].at + 1]
    OBVIOUS
  <2>2. /\ Shaped(measuring[p], PollFields) /\ measuring[p].at \in Nat \ {0} /\ ListedMerged(measuring[p].list)
        /\ measuring[p].pc = "flag"
    BY <1>0, <1>11 DEF WritesOwn, FlagFails, Working
  <2>3. Shaped(poll, PollFields) /\ poll.pc = "flag" /\ poll.at = measuring[p].at + 1 /\ poll.list = measuring[p].list
    BY <2>1, <2>2 DEF Shaped, PollFields
  <2>4. WritesOwn(poll)
    BY <2>2, <2>3 DEF WritesOwn
  <2> QED BY <1>11, <2>1, <2>4, PollKeepsMeasuring DEF FlagFails
<1>12. ASSUME UNCHANGED rewriteVars PROVE MeasuringIInv'
  <2>1. UNCHANGED <<merged, updated, runRows, measuring>>
    BY <1>12 DEF rewriteVars
  <2>2. MergesListed' /\ PollsWriteOwn'
    BY <2>1 DEF MeasuringIInv, MergesListed, PollsWriteOwn, WritesOwn, ListedMerged
  <2>3. RowsNameOwn' /\ MeasuredOnOwnRow'
    BY <2>1 DEF MeasuringIInv, RowsNameOwn, NamesOwn, MeasuredOnOwnRow
  <2> QED BY <2>2, <2>3 DEF MeasuringIInv
<1> QED BY <1>1, <1>2, <1>3, <1>4, <1>5, <1>6, <1>7, <1>8, <1>9, <1>10, <1>11, <1>12
        DEF RewritesNext, PollStep

(* A row is only ever measured from, and flagged for, a merged pull        *)
(* request its own run opened, whatever polls overlap between the read of  *)
(* a row and the write of its measurement, and however numbers repeat      *)
(* between repositories (RunForMerged, measureMerged, flagReverted).       *)
THEOREM RowsMeasureTheirOwn == RewritesSpec => []MeasuredOnOwnRow
<1>1. MeasuringIInv => MeasuredOnOwnRow
  BY DEF MeasuringIInv
<1> QED BY <1>1, InitMeasuring, MeasuringStep, PTL DEF RewritesSpec

-----------------------------------------------------------------------------
(* What is measured *)

(* A commit's lines are counted under the owner and one label, or under    *)
(* the agent.                                                              *)
LEMMA LinesOfType ==
  ASSUME NEW c, c.additions \in Nat, c.deletions \in Nat
  PROVE  LinesOf(c) \in MergeLines
<1> DEFINE kinds == IF c.login = "runner" THEN {"agent"}
                    ELSE {"owner", CASE reworkOf(c) = "review-found" -> "reviewFound"
                                     [] reworkOf(c) = "owner-change" -> "ownerChange"
                                     [] OTHER -> "unlabelled"}
           n == c.additions + c.deletions
<1>1. LinesOf(c) = [k \in LineKinds |-> CASE k \in kinds -> n
                                          [] k = "unmeasured" -> IF c.unmeasured THEN 1 ELSE 0
                                          [] OTHER -> 0]
  BY DEF LinesOf
<1>2. \/ kinds = {"agent"} \/ kinds = {"owner", "reviewFound"} \/ kinds = {"owner", "ownerChange"}
      \/ kinds = {"owner", "unlabelled"}
  OBVIOUS
<1>3. n \in Nat
  OBVIOUS
<1> HIDE DEF kinds, n
<1>4. LinesOf(c) \in [LineKinds -> Nat]
  BY <1>1, <1>2, <1>3 DEF LineKinds
<1>5. LinesOf(c).owner = LinesOf(c).reviewFound + LinesOf(c).ownerChange + LinesOf(c).unlabelled
  BY <1>1, <1>2, <1>3 DEF LineKinds
<1> QED BY <1>4, <1>5 DEF MergeLines

(* Sums of lines are lines. *)
LEMMA SumsOfLines ==
  ASSUME NEW S, IsFiniteSet(S), NEW f, \A i \in S : f[i] \in MergeLines
  PROVE  [k \in LineKinds |-> SumFunction([i \in S |-> f[i][k]])] \in MergeLines
<1> DEFINE col(k) == [i \in S |-> f[i][k]]
           l == [k \in LineKinds |-> SumFunction(col(k))]
<1>1. \A k \in LineKinds : SumFunction(col(k)) = SumFunctionOnSet(col(k), S)
  BY DEF SumFunction
<1>2. \A k \in LineKinds, i \in S : col(k)[i] \in Nat
  BY DEF MergeLines
<1>3. ASSUME NEW k \in LineKinds PROVE SumFunction(col(k)) \in Nat
  <2> HIDE DEF col
  <2> QED BY <1>1, <1>2, SumType
<1>4. l \in [LineKinds -> Nat]
  BY <1>3
<1>5. \A i \in S : col("owner")[i] = col("reviewFound")[i] + col("ownerChange")[i] + col("unlabelled")[i]
  BY DEF MergeLines
<1>6. {"owner", "reviewFound", "ownerChange", "unlabelled"} \subseteq LineKinds
  BY DEF LineKinds
<1>7. SumFunctionOnSet(col("owner"), S) = SumFunctionOnSet(col("reviewFound"), S)
        + SumFunctionOnSet(col("ownerChange"), S) + SumFunctionOnSet(col("unlabelled"), S)
  <2> HIDE DEF col
  <2> QED BY <1>2, <1>5, <1>6, SumOfThree
<1>8. l.owner = l.reviewFound + l.ownerChange + l.unlabelled
  <2> HIDE DEF col
  <2> QED BY <1>1, <1>6, <1>7
<1> QED BY <1>4, <1>8 DEF MergeLines

LEMMA LinesAtType ==
  ASSUME NEW s \in Seq(Merges), NEW I \in SUBSET DOMAIN s
  PROVE  IsFiniteSet(I) /\ LinesAt(s, I) \in MergeLines
<1>1. IsFiniteSet(I)
  <2>1. DOMAIN s = 1..Len(s) /\ Len(s) \in Nat
    OBVIOUS
  <2>2. IsFiniteSet(DOMAIN s)
    BY <2>1, FS_Interval
  <2> QED BY <2>2, FS_Subset
<1> DEFINE f == [i \in I |-> s[i].lines]
<1>2. \A i \in I : f[i] \in MergeLines
  <2>1. \A i \in I : s[i] \in Merges
    OBVIOUS
  <2>2. \A x \in Merges : x.lines \in MergeLines
    BY DEF Merges
  <2> QED BY <2>1, <2>2
<1>3. [k \in LineKinds |-> SumFunction([i \in I |-> f[i][k]])] \in MergeLines
  <2> HIDE DEF f
  <2> QED BY <1>1, <1>2, SumsOfLines
<1>4. \A k \in LineKinds : [i \in I |-> f[i][k]] = [i \in I |-> s[i].lines[k]]
  OBVIOUS
<1>5. LinesAt(s, I) = [k \in LineKinds |-> SumFunction([i \in I |-> f[i][k]])]
  BY <1>4 DEF LinesAt
<1> QED BY <1>1, <1>3, <1>5

LEMMA MeasuredType ==
  ASSUME NEW mm \in Measurements
  PROVE  RewriteOf(Commits(mm.commits, mm.capped)) \in MergeLines
<1> DEFINE none == [login |-> "none", trailer |-> "none", additions |-> 0, deletions |-> 0, unmeasured |-> TRUE]
           read == [i \in DOMAIN mm.commits |-> IF mm.commits[i].unmeasured THEN Uncounted(mm.commits[i]) ELSE mm.commits[i]]
           cs == Commits(mm.commits, mm.capped)
<1>1. mm.commits \in Seq(CommitRows)
  BY FiguresAssumption
<1>2. read \in Seq(CommitRows)
  <2>1. \A i \in DOMAIN mm.commits : mm.commits[i] \in CommitRows
    BY <1>1
  <2>2. \A c \in CommitRows : Uncounted(c) \in CommitRows
    BY DEF Uncounted, CommitRows
  <2>3. \A i \in DOMAIN mm.commits : read[i] \in CommitRows
    BY <2>1, <2>2
  <2>4. DOMAIN mm.commits = 1..Len(mm.commits) /\ Len(mm.commits) \in Nat
    BY <1>1
  <2>5. read \in [1..Len(mm.commits) -> CommitRows]
    BY <2>3, <2>4
  <2> HIDE DEF read
  <2> QED BY <2>4, <2>5, SeqDef
<1>3. cs \in Seq(CommitRows)
  <2>1. none \in CommitRows
    BY DEF CommitRows
  <2>2. cs = read \o IF mm.capped THEN <<none>> ELSE <<>>
    BY DEF Commits
  <2> HIDE DEF none, read, cs
  <2>3. <<none>> \in Seq(CommitRows)
    BY <2>1
  <2> QED BY <1>2, <2>2, <2>3
<1>4. IsFiniteSet(DOMAIN cs) /\ \A i \in DOMAIN cs : cs[i].additions \in Nat /\ cs[i].deletions \in Nat
  <2> HIDE DEF cs
  <2>1. DOMAIN cs = 1..Len(cs) /\ Len(cs) \in Nat /\ \A i \in DOMAIN cs : cs[i] \in CommitRows
    BY <1>3
  <2>2. IsFiniteSet(DOMAIN cs)
    BY <2>1, FS_Interval
  <2> QED BY <2>1, <2>2 DEF CommitRows
<1> HIDE DEF cs
<1> DEFINE f == [i \in DOMAIN cs |-> LinesOf(cs[i])]
<1>5. \A i \in DOMAIN cs : f[i] \in MergeLines
  BY <1>4, LinesOfType
<1>6. [k \in LineKinds |-> SumFunction([i \in DOMAIN cs |-> f[i][k]])] \in MergeLines
  <2> HIDE DEF f
  <2> QED BY <1>4, <1>5, SumsOfLines
<1>7. \A k \in LineKinds : [i \in DOMAIN cs |-> f[i][k]] = [i \in DOMAIN cs |-> LinesOf(cs[i])[k]]
  OBVIOUS
<1>8. RewriteOf(cs) = [k \in LineKinds |-> SumFunction([i \in DOMAIN cs |-> f[i][k]])]
  BY <1>7 DEF RewriteOf
<1> QED BY <1>6, <1>8 DEF cs

LEMMA FiguresTypeStep ==
  ASSUME FiguresTypeOK, [FiguresNext]_figureVars
  PROVE  FiguresTypeOK'
<1>1. ASSUME NEW mm \in Measurements, Measure(mm) PROVE FiguresTypeOK'
  <2> DEFINE x == [pr |-> Len(samples) + 1, repo |-> mm.repo, size |-> mm.size, models |-> ModelsOf(mm),
                   lines |-> RewriteOf(Commits(mm.commits, mm.capped)), auto |-> mm.auto,
                   reverted |-> FALSE]
  <2>1. x \in Merges
    <3>1. Len(samples) + 1 \in Nat
      BY DEF FiguresTypeOK
    <3> QED BY <3>1, MeasuredType DEF Merges
  <2>2. samples' = <<x>> \o samples /\ switch' = switch
    BY <1>1 DEF Measure
  <2> HIDE DEF x
  <2> QED BY <2>1, <2>2 DEF FiguresTypeOK
<1>2. ASSUME NEW i \in DOMAIN samples, Flag(i) PROVE FiguresTypeOK'
  <2>1. samples[i] \in Merges
    BY DEF FiguresTypeOK
  <2>2. [samples[i] EXCEPT !.reverted = TRUE] \in Merges
    BY <2>1 DEF Merges
  <2>3. samples' = [samples EXCEPT ![i] = [samples[i] EXCEPT !.reverted = TRUE]] /\ switch' = switch
    BY <1>2 DEF Flag
  <2> QED BY <2>2, <2>3 DEF FiguresTypeOK
<1>3. ASSUME NEW on \in BOOLEAN, setAutoMerge(on) \/ autoMergeCommand(on) PROVE FiguresTypeOK'
  BY <1>3 DEF FiguresTypeOK, setAutoMerge, autoMergeCommand, Set
<1>4. CASE UNCHANGED figureVars
  BY <1>4 DEF FiguresTypeOK, figureVars
<1> QED BY <1>1, <1>2, <1>3, <1>4 DEF FiguresNext

-----------------------------------------------------------------------------
(* Windows *)

LEMMA MinOfTwo ==
  ASSUME NEW m \in Nat, NEW n \in Nat
  PROVE  Min({m, n}) = IF m <= n THEN m ELSE n
BY DEF Min

LEMMA FirstFewIs ==
  ASSUME NEW T, NEW s \in Seq(T), NEW n \in Nat
  PROVE  /\ FirstFew(s, n) \in Seq(T)
         /\ Len(FirstFew(s, n)) = IF n <= Len(s) THEN n ELSE Len(s)
         /\ n <= Len(s) => FirstFew(s, n) = SubSeq(s, 1, n)
         /\ n >= Len(s) => FirstFew(s, n) = s
<1>1. Len(s) \in Nat
  OBVIOUS
<1>2. Min({n, Len(s)}) = IF n <= Len(s) THEN n ELSE Len(s)
  BY <1>1, MinOfTwo
<1>3. SubSeq(s, 1, Len(s)) = s
  BY SubSeqFull
<1>4. CASE n <= Len(s)
  <2>1. FirstFew(s, n) = SubSeq(s, 1, n)
    BY <1>1, <1>2, <1>4 DEF FirstFew
  <2>2. \A i \in 1..n : s[i] \in T
    BY <1>1, <1>4
  <2>3. SubSeq(s, 1, n) \in Seq(T) /\ Len(SubSeq(s, 1, n)) = n
    BY <2>2, SubSeqProperties
  <2>4. n >= Len(s) => n = Len(s)
    BY <1>1, <1>4
  <2>5. n >= Len(s) => SubSeq(s, 1, n) = s
    BY <1>3, <2>4
  <2> QED BY <1>4, <2>1, <2>3, <2>5
<1>5. CASE ~(n <= Len(s))
  BY <1>1, <1>2, <1>3, <1>5 DEF FirstFew
<1> QED BY <1>4, <1>5

(* The window of n merges that the merge at i begins. *)
LEMMA WindowIs ==
  ASSUME NEW T, NEW s \in Seq(T), NEW n \in Nat \ {0}, NEW i \in 1..Len(s), i + n - 1 <= Len(s)
  PROVE  /\ FirstFew(SubSeq(s, i, Len(s)), n) = SubSeq(s, i, i + n - 1)
         /\ SubSeq(s, i, i + n - 1) \in Seq(T)
<1>1. Len(s) \in Nat
  OBVIOUS
<1>2. PICK r : r = SubSeq(s, i, Len(s))
  OBVIOUS
<1>3. r \in Seq(T) /\ Len(r) = Len(s) - i + 1
  BY <1>1, <1>2, SubSeqProperties
<1>4. FirstFew(r, n) = SubSeq(r, 1, n)
  BY <1>1, <1>3, FirstFewIs
<1>5. SubSeq(r, 1, n) = SubSeq(s, i, i + n - 1)
  <2>1. SubSeq(s, i, i + n - 1) \in Seq(T) /\ Len(SubSeq(s, i, i + n - 1)) = n
    BY <1>1
  <2>2. SubSeq(r, 1, n) \in Seq(T) /\ Len(SubSeq(r, 1, n)) = n
    BY <1>1, <1>3
  <2>3. \A j \in 1..n : SubSeq(s, i, i + n - 1)[j] = s[i + j - 1]
    BY <1>1
  <2>4. \A j \in 1..n : SubSeq(r, 1, n)[j] = r[j] /\ r[j] = s[i + j - 1]
    BY <1>1, <1>2, <1>3
  <2> QED BY <2>1, <2>2, <2>3, <2>4, SeqEqual
<1>6. SubSeq(s, i, i + n - 1) \in Seq(T)
  BY <1>1
<1> QED BY <1>2, <1>4, <1>5, <1>6

(* The page's list of merges: the newest, as many as it reads. *)
LEMMA ShownIs ==
  ASSUME FiguresTypeOK
  PROVE  /\ Shown \in Seq(Merges) /\ Len(Shown) \in Nat /\ Len(samples) \in Nat
         /\ DOMAIN Shown = 1..Len(Shown)
         /\ Len(Shown) < TrailingPRs <=> Len(samples) < TrailingPRs
         /\ FirstFew(Shown, TrailingPRs) = FirstFew(samples, TrailingPRs)
<1>1. samples \in Seq(Merges) /\ Len(samples) \in Nat
  BY DEF FiguresTypeOK
<1>2. TrailingPRs \in Nat /\ MeasuredShown \in Nat /\ TrailingPRs <= MeasuredShown
  BY FiguresAssumption
<1>3. /\ Shown \in Seq(Merges)
      /\ Len(Shown) = IF MeasuredShown <= Len(samples) THEN MeasuredShown ELSE Len(samples)
      /\ MeasuredShown <= Len(samples) => Shown = SubSeq(samples, 1, MeasuredShown)
      /\ MeasuredShown >= Len(samples) => Shown = samples
  BY <1>1, <1>2, FirstFewIs DEF Shown
<1>4. Len(Shown) \in Nat /\ DOMAIN Shown = 1..Len(Shown)
  BY <1>3
<1>5. FirstFew(Shown, TrailingPRs) = FirstFew(samples, TrailingPRs)
  <2>1. CASE MeasuredShown >= Len(samples)
    BY <1>3, <2>1
  <2>2. CASE MeasuredShown < Len(samples)
    <3>1. FirstFew(samples, TrailingPRs) = SubSeq(samples, 1, TrailingPRs)
      BY <1>1, <1>2, <2>2, FirstFewIs
    <3>2. FirstFew(Shown, TrailingPRs) = SubSeq(Shown, 1, TrailingPRs)
      BY <1>1, <1>2, <1>3, <2>2, FirstFewIs
    <3>3. SubSeq(Shown, 1, TrailingPRs) \in Seq(Merges) /\ Len(SubSeq(Shown, 1, TrailingPRs)) = TrailingPRs
      BY <1>1, <1>2, <1>3, <2>2
    <3>4. SubSeq(samples, 1, TrailingPRs) \in Seq(Merges) /\ Len(SubSeq(samples, 1, TrailingPRs)) = TrailingPRs
      BY <1>1, <1>2, <2>2
    <3>5. \A j \in 1..TrailingPRs : SubSeq(Shown, 1, TrailingPRs)[j] = SubSeq(samples, 1, TrailingPRs)[j]
      BY <1>1, <1>2, <1>3, <2>2
    <3>6. SubSeq(Shown, 1, TrailingPRs) = SubSeq(samples, 1, TrailingPRs)
      BY <3>3, <3>4, <3>5, SeqEqual
    <3> QED BY <3>1, <3>2, <3>6
  <2> QED BY <1>1, <1>2, <2>1, <2>2
<1> QED BY <1>1, <1>2, <1>3, <1>4, <1>5

(* The series: how many points, and the window each is the rate of. *)
SeriesLen(s) == IF Len(s) < TrailingPRs THEN 0 ELSE Min({SeriesPoints, Len(s) - TrailingPRs + 1})
WindowAt(s, i) == SubSeq(s, i, i + TrailingPRs - 1)

LEMMA SeriesIs ==
  ASSUME NEW s \in Seq(Merges)
  PROVE  LET series == RollingSeries(s, TrailingPRs, SeriesPoints)
         IN /\ SeriesLen(s) \in Nat /\ (SeriesLen(s) = 0 <=> Len(s) < TrailingPRs)
            /\ DOMAIN series = 1..SeriesLen(s)
            /\ \A k \in 1..SeriesLen(s) :
                 /\ k \in 1..Len(s) /\ k + TrailingPRs - 1 <= Len(s)
                 /\ SeriesLen(s) - k + 1 \in 1..SeriesLen(s)
                 /\ series[SeriesLen(s) - k + 1].agent = Lines(WindowAt(s, k)).agent
                 /\ series[SeriesLen(s) - k + 1].rate = Rate(Lines(WindowAt(s, k)))
<1> DEFINE n == SeriesLen(s)
           at(i) == LET w == WindowRate(SubSeq(s, i, Len(s)), TrailingPRs)
                    IN [repo |-> s[i].repo, pr |-> s[i].pr, agent |-> w.lines.agent, rate |-> w.rate]
           series == RollingSeries(s, TrailingPRs, SeriesPoints)
<1>1. Len(s) \in Nat /\ TrailingPRs \in Nat \ {0} /\ SeriesPoints \in Nat \ {0}
  <2>1. Len(s) \in Nat
    OBVIOUS
  <2>2. {TrailingPRs, SeriesPoints} \subseteq Nat \ {0}
    BY FiguresAssumption
  <2> QED BY <2>1, <2>2
<1>2. n \in Nat /\ (n = 0 <=> Len(s) < TrailingPRs) /\ (n > 0 => n <= Len(s) - TrailingPRs + 1)
  <2>1. CASE Len(s) < TrailingPRs
    BY <1>1, <2>1 DEF SeriesLen
  <2>2. CASE ~(Len(s) < TrailingPRs)
    <3>0. Len(s) - TrailingPRs + 1 \in Nat /\ Len(s) - TrailingPRs + 1 > 0
      BY <1>1, <2>2
    <3>1. PICK m \in Nat : m = Len(s) - TrailingPRs + 1 /\ m > 0
      BY <3>0
    <3>2. Min({SeriesPoints, m}) = IF SeriesPoints <= m THEN SeriesPoints ELSE m
      BY <1>1, <3>1, MinOfTwo
    <3> QED BY <1>1, <2>2, <3>1, <3>2 DEF SeriesLen
  <2> QED BY <2>1, <2>2
<1>3. series = [j \in 1..n |-> at(n - j + 1)]
  BY DEF RollingSeries, SeriesLen
<1>4. ASSUME NEW k \in 1..n
      PROVE  /\ k \in 1..Len(s) /\ k + TrailingPRs - 1 <= Len(s) /\ n - k + 1 \in 1..n
             /\ series[n - k + 1].agent = Lines(WindowAt(s, k)).agent
             /\ series[n - k + 1].rate = Rate(Lines(WindowAt(s, k)))
  <2>1. k \in 1..Len(s) /\ k + TrailingPRs - 1 <= Len(s) /\ n - k + 1 \in 1..n /\ n - (n - k + 1) + 1 = k
    <3> HIDE DEF n
    <3> QED BY <1>1, <1>2
  <2>2. FirstFew(SubSeq(s, k, Len(s)), TrailingPRs) = WindowAt(s, k)
    BY <1>1, <2>1, WindowIs DEF WindowAt
  <2>3. WindowRate(SubSeq(s, k, Len(s)), TrailingPRs).lines = Lines(WindowAt(s, k))
    BY <2>2 DEF WindowRate
  <2>4. WindowRate(SubSeq(s, k, Len(s)), TrailingPRs).rate = Rate(Lines(WindowAt(s, k)))
    BY <2>2 DEF WindowRate
  <2>5. at(k).agent = Lines(WindowAt(s, k)).agent /\ at(k).rate = Rate(Lines(WindowAt(s, k)))
    BY <2>3, <2>4
  <2>6. series[n - k + 1] = at(k)
    <3> HIDE DEF at, n, series
    <3> QED BY <1>3, <2>1
  <2> QED BY <2>1, <2>5, <2>6
<1> QED BY <1>2, <1>3, <1>4

(* The first tile: the newest merges, as many as the trailing window has. *)
LEMMA TrailingTileIs ==
  ASSUME NEW s \in Seq(Merges)
  PROVE  LET l == Lines(FirstFew(s, TrailingPRs))
         IN /\ renderTiles(Tiles(s))[1].rate = linesRateText(l.agent, Rate(l))
            /\ renderTiles(Tiles(s))[1].agent = l.agent
            /\ renderTiles(Tiles(s))[1].owner = l.owner
<1> DEFINE l == Lines(FirstFew(s, TrailingPRs))
<1>1. SubSeq(s, 1, Len(s)) = s
  BY SubSeqFull
<1>2. Tiles(s)[1] = trendedWindow(s, TrailingPRs) /\ 1 \in DOMAIN Tiles(s)
  BY DEF Tiles
<1>3. trendedWindow(s, TrailingPRs).window = WindowRate(s, TrailingPRs)
  <2> DEFINE w == [i \in 0..2 |-> WindowRate(SubSeq(s, i + 1, Len(s)), TrailingPRs)]
             shown == Len(s) >= TrailingPRs + 2 /\ \A i \in 0..2 : w[i].lines.agent > 0
  <2>1. trendedWindow(s, TrailingPRs) =
          [window |-> w[0], hasPrevious |-> shown, previous |-> w[1].rate,
           trend |-> IF shown THEN trendOf(w[0].rate, w[1].rate, w[2].rate) ELSE "flat"]
    BY Zenon DEF trendedWindow
  <2>2. w[0] = WindowRate(SubSeq(s, 0 + 1, Len(s)), TrailingPRs)
    OBVIOUS
  <2> HIDE DEF w, shown
  <2>3. 0 + 1 = 1
    OBVIOUS
  <2>4. w[0] = WindowRate(s, TrailingPRs)
    BY <1>1, <2>2, <2>3, Zenon
  <2> QED BY <2>1, <2>4
<1>4. WindowRate(s, TrailingPRs).lines = l /\ WindowRate(s, TrailingPRs).rate = Rate(l)
  BY DEF WindowRate
<1>5. renderTiles(Tiles(s))[1] = renderTile(trendedWindow(s, TrailingPRs))
  BY <1>2 DEF renderTiles
<1> QED BY <1>3, <1>4, <1>5 DEF renderTile

-----------------------------------------------------------------------------
(* One page *)

LEMMA PageParts ==
  ASSUME NEW s, NEW repo, NEW sw
  PROVE  /\ renderAutonomy(s, repo, sw).autoMerge = renderAutoMerge(s, sw)
         /\ repo = "" => renderAutonomy(s, repo, sw).rewrite = renderRewrite(s)
         /\ repo # "" => renderAutonomy(s, repo, sw).rewrite = renderRewrite(ForRepo(s, repo))
<1>1. renderAutonomy(s, repo, sw).autoMerge = renderAutoMerge(s, sw)
  BY DEF renderAutonomy
<1>2. ASSUME repo = "" PROVE renderAutonomy(s, repo, sw).rewrite = renderRewrite(s)
  BY <1>2 DEF renderAutonomy
<1>3. ASSUME repo # "" PROVE renderAutonomy(s, repo, sw).rewrite = renderRewrite(ForRepo(s, repo))
  BY <1>3 DEF renderAutonomy
<1> QED BY <1>1, <1>2, <1>3

LEMMA RewriteParts ==
  ASSUME NEW s
  PROVE  /\ renderRewrite(s).tiles = renderTiles(Tiles(s))
         /\ renderRewrite(s).series = renderSeries(RollingSeries(s, TrailingPRs, SeriesPoints))
         /\ renderRewrite(s).prs = renderPRs(s)
         /\ renderRewrite(s).bySize = renderSizes(BySize(s))
         /\ renderRewrite(s).byModel = renderModels(ByModel(s))
         /\ renderRewrite(s).byRepo = renderRepos(ByRepo(s))
<1>1. renderRewrite(s).tiles = renderTiles(Tiles(s))
  BY DEF renderRewrite
<1>2. renderRewrite(s).series = renderSeries(RollingSeries(s, TrailingPRs, SeriesPoints))
  BY DEF renderRewrite
<1>3. renderRewrite(s).prs = renderPRs(s)
  BY DEF renderRewrite
<1>4. renderRewrite(s).bySize = renderSizes(BySize(s))
  BY DEF renderRewrite
<1>5. renderRewrite(s).byModel = renderModels(ByModel(s))
  BY DEF renderRewrite
<1>6. renderRewrite(s).byRepo = renderRepos(ByRepo(s))
  BY DEF renderRewrite
<1> QED BY <1>1, <1>2, <1>3, <1>4, <1>5, <1>6

(* What a request that can be answered is answered with. *)
LEMMA WholePageIs ==
  /\ autonomy(<<>>, TRUE, TRUE).view.autoMerge = renderAutoMerge(Shown, autoMergeSwitch(TRUE))
  /\ autonomy(<<>>, TRUE, TRUE).view.rewrite = renderRewrite(Shown)
<1>1. scopeRepo(<<>>) = ""
  BY DEF scopeRepo
<1>2. autonomy(<<>>, TRUE, TRUE) = [status |-> 200, view |-> renderAutonomy(Shown, "", autoMergeSwitch(TRUE))]
  BY <1>1 DEF autonomy, Shown
<1>3. autonomy(<<>>, TRUE, TRUE).view = renderAutonomy(Shown, "", autoMergeSwitch(TRUE))
  <2>1. PICK x, y : x = renderAutonomy(Shown, "", autoMergeSwitch(TRUE)) /\ y = autonomy(<<>>, TRUE, TRUE)
    OBVIOUS
  <2>2. y = [status |-> 200, view |-> x]
    BY <1>2, <2>1, Zenon
  <2>3. y.view = x
    BY <2>2
  <2> QED BY <2>1, <2>3, Zenon
<1>4. renderAutonomy(Shown, "", autoMergeSwitch(TRUE)).autoMerge = renderAutoMerge(Shown, autoMergeSwitch(TRUE))
  BY PageParts, Zenon
<1>5. renderAutonomy(Shown, "", autoMergeSwitch(TRUE)).rewrite = renderRewrite(Shown)
  BY PageParts, Zenon
<1> QED BY <1>3, <1>4, <1>5, Zenon

LEMMA ScopedPageIs ==
  ASSUME NEW repo \in KnownRepos
  PROVE  /\ autonomy(<<repo>>, TRUE, TRUE).view.autoMerge = renderAutoMerge(Shown, autoMergeSwitch(TRUE))
         /\ autonomy(<<repo>>, TRUE, TRUE).view.rewrite = renderRewrite(ForRepo(Shown, repo))
<1>0. repo # "" /\ repo # "refused"
  BY FiguresAssumption
<1>1. scopeRepo(<<repo>>) = repo
  BY DEF scopeRepo
<1>2. autonomy(<<repo>>, TRUE, TRUE) = [status |-> 200, view |-> renderAutonomy(Shown, repo, autoMergeSwitch(TRUE))]
  BY <1>0, <1>1 DEF autonomy, Shown
<1>3. autonomy(<<repo>>, TRUE, TRUE).view = renderAutonomy(Shown, repo, autoMergeSwitch(TRUE))
  <2>1. PICK x, y : x = renderAutonomy(Shown, repo, autoMergeSwitch(TRUE)) /\ y = autonomy(<<repo>>, TRUE, TRUE)
    OBVIOUS
  <2>2. y = [status |-> 200, view |-> x]
    BY <1>2, <2>1, Zenon
  <2>3. y.view = x
    BY <2>2
  <2> QED BY <2>1, <2>3, Zenon
<1>4. renderAutonomy(Shown, repo, autoMergeSwitch(TRUE)).autoMerge = renderAutoMerge(Shown, autoMergeSwitch(TRUE))
  BY PageParts, Zenon
<1>5. renderAutonomy(Shown, repo, autoMergeSwitch(TRUE)).rewrite = renderRewrite(ForRepo(Shown, repo))
  BY <1>0, PageParts, Zenon
<1> QED BY <1>3, <1>4, <1>5, Zenon

LEMMA TextOfInf == rateText(Inf) = "none"
BY Zenon DEF rateText

LEMMA TextOfLines ==
  ASSUME NEW agent \in Nat, NEW rate
  PROVE  linesRateText(agent, rate) = IF agent = 0 THEN "none" ELSE rateText(rate)
BY DEF linesRateText

(* The verdict prints the trailing rate, as the first tile does, or is not *)
(* over a whole window of measured merges.                                 *)
LEMMA VerdictIs ==
  ASSUME NEW s \in Seq(Merges)
  PROVE  LET l == Lines(FirstFew(s, TrailingPRs))
         IN \/ verdictText(AutoMergeOn(s)) = linesRateText(l.agent, Rate(l))
            \/ AutoMergeOn(s).reason = "too-few-measured" /\ l.agent = 0 /\ l.owner = 0
<1> DEFINE w == FirstFew(s, TrailingPRs)
           l == Lines(w)
           short == ~allMeasured(w) \/ Len(w) < TrailingPRs
           reason == IF short THEN "too-few-measured" ELSE IF l.agent <= 0 THEN "no-agent-lines"
                     ELSE IF 100 * l.owner > BarPercent * l.agent THEN "rate-above-bar"
                     ELSE IF Reverts(w) > 0 THEN "reverted" ELSE "on"
           d == AutoMergeOn(s)
<1> SUFFICES \/ verdictText(d) = linesRateText(l.agent, Rate(l))
             \/ d.reason = "too-few-measured" /\ l.agent = 0 /\ l.owner = 0
  OBVIOUS
<1>1. w \in Seq(Merges)
  <2>1. TrailingPRs \in Nat
    BY FiguresAssumption
  <2> QED BY <2>1, FirstFewIs
<1>2. l \in MergeLines
  BY <1>1, LinesAtType DEF Lines
<1>3. l.agent \in Nat /\ l.owner \in Nat
  BY <1>2 DEF MergeLines, LineKinds
<1>4. d.rate = Rate(l) /\ d.reason = reason
  <2>1. d = [withinBar |-> reason = "on", reason |-> reason, prs |-> Len(w), rate |-> Rate(l), reverted |-> Reverts(w)]
    BY Zenon DEF AutoMergeOn
  <2> HIDE DEF reason, w, l
  <2> QED BY <2>1
<1>5. verdictText(d) = IF d.reason = "no-agent-lines" THEN "none" ELSE rateText(d.rate)
  BY DEF verdictText
<1> HIDE DEF w, l, short, d
<1> DEFINE over == 100 * l.owner > BarPercent * l.agent
           back == Reverts(w) > 0
<1>11. reason = IF short THEN "too-few-measured" ELSE IF l.agent <= 0 THEN "no-agent-lines"
                ELSE IF over THEN "rate-above-bar" ELSE IF back THEN "reverted" ELSE "on"
  BY Zenon
<1> HIDE DEF over, back, reason
<1>12. short => reason # "no-agent-lines"
  BY <1>11
<1>13. l.agent # 0 => reason # "no-agent-lines"
  BY <1>3, <1>11
<1>14. l.agent = 0 /\ reason # "no-agent-lines" => reason = "too-few-measured"
  BY <1>3, <1>11
<1>6. linesRateText(l.agent, Rate(l)) = IF l.agent = 0 THEN "none" ELSE rateText(Rate(l))
  BY <1>3, TextOfLines
<1>7. CASE l.agent # 0
  BY <1>4, <1>5, <1>6, <1>7, <1>13
<1>8. CASE l.agent = 0 /\ l.owner # 0
  <2>1. Rate(l) = Inf
    BY <1>3, <1>8 DEF Rate
  <2> QED BY <1>4, <1>5, <1>6, <1>8, <2>1, TextOfInf
<1>9. CASE l.agent = 0 /\ l.owner = 0
  BY <1>4, <1>5, <1>6, <1>9, <1>14
<1> QED BY <1>7, <1>8, <1>9

(* A page that is of the types agrees with itself. *)
LEMMA PageAgrees == FiguresTypeOK => FiguresAgree
<1> SUFFICES ASSUME FiguresTypeOK PROVE FiguresAgree
  OBVIOUS
<1> DEFINE page == autonomy(<<>>, TRUE, TRUE).view
           v == page.rewrite
           series == RollingSeries(Shown, TrailingPRs, SeriesPoints)
           n == SeriesLen(Shown)
<1>1. Shown \in Seq(Merges) /\ DOMAIN Shown = 1..Len(Shown) /\ Len(Shown) \in Nat
  BY ShownIs
<1>2. page.autoMerge = renderAutoMerge(Shown, autoMergeSwitch(TRUE)) /\ v = renderRewrite(Shown)
  BY WholePageIs
<1>3. v.series = renderSeries(series) /\ v.prs = renderPRs(Shown) /\ v.tiles = renderTiles(Tiles(Shown))
      /\ v.byRepo = renderRepos(ByRepo(Shown))
  BY <1>2, RewriteParts
<1>4. n \in Nat /\ (n = 0 <=> Len(Shown) < TrailingPRs) /\ DOMAIN series = 1..n
  BY <1>1, SeriesIs
<1>5. ASSUME NEW k \in 1..n
      PROVE  /\ k \in 1..Len(Shown) /\ k + TrailingPRs - 1 <= Len(Shown)
             /\ n - k + 1 \in 1..n
             /\ series[n - k + 1].agent = Lines(WindowAt(Shown, k)).agent
             /\ series[n - k + 1].rate = Rate(Lines(WindowAt(Shown, k)))
  BY <1>1, SeriesIs
<1> HIDE DEF series, n, v, page
<1>6. Len(v.series) = n /\ \A j \in 1..n : v.series[j].rate = linesRateText(series[j].agent, series[j].rate)
  <2>1. renderSeries(series) = [i \in 1..n |-> [repo |-> series[i].repo, pr |-> series[i].pr,
                                  rate |-> linesRateText(series[i].agent, series[i].rate)]]
    BY <1>4 DEF renderSeries
  <2> QED BY <1>3, <1>4, <2>1
<1>7. ASSUME NEW k \in 1..n
      PROVE  v.series[n - k + 1].rate = linesRateText(Lines(WindowAt(Shown, k)).agent, Rate(Lines(WindowAt(Shown, k))))
  BY <1>5, <1>6
<1>8. ASSUME NEW k \in 1..n PROVE v.prs[k].trailing = <<v.series[n - k + 1].rate>>
  <2>1. k \in DOMAIN Shown /\ k + TrailingPRs - 1 <= Len(Shown)
    BY <1>1, <1>5
  <2>2. renderPRs(Shown)[k].trailing =
          <<linesRateText(Lines(WindowAt(Shown, k)).agent, Rate(Lines(WindowAt(Shown, k))))>>
    BY <2>1 DEF renderPRs, WindowAt
  <2> QED BY <1>3, <1>7, <2>2
<1>9. n > 0 => v.series[n].rate = v.tiles[1].rate
  <2> SUFFICES ASSUME n > 0 PROVE v.series[n].rate = v.tiles[1].rate
    OBVIOUS
  <2>1. 1 \in 1..n /\ n - 1 + 1 = n
    BY <1>4
  <2>2. v.series[n].rate = linesRateText(Lines(WindowAt(Shown, 1)).agent, Rate(Lines(WindowAt(Shown, 1))))
    BY <1>7, <2>1
  <2>0. TrailingPRs \in Nat
    BY FiguresAssumption
  <2>3. TrailingPRs \in Nat /\ TrailingPRs <= Len(Shown)
    BY <1>1, <1>4, <2>0
  <2>4. WindowAt(Shown, 1) = FirstFew(Shown, TrailingPRs)
    BY <1>1, <2>3, FirstFewIs DEF WindowAt
  <2> QED BY <1>1, <1>3, <2>2, <2>4, TrailingTileIs
<1>10. n = 0 <=> Len(samples) < TrailingPRs
  BY <1>4, ShownIs
<1>11. \/ page.autoMerge.rateValue = v.tiles[1].rate
       \/ AutoMergeOn(samples).reason = "too-few-measured" /\ v.tiles[1].agent = 0 /\ v.tiles[1].owner = 0
  <2>1. page.autoMerge.rateValue = verdictText(AutoMergeOn(Shown))
    BY <1>2 DEF renderAutoMerge
  <2>2. AutoMergeOn(samples).reason = AutoMergeOn(Shown).reason
    BY ShownIs DEF AutoMergeOn
  <2> QED BY <1>1, <1>3, <2>1, <2>2, VerdictIs, TrailingTileIs
<1>12. ASSUME NEW repo \in DOMAIN v.byRepo \cap KnownRepos
       PROVE  /\ autonomy(<<repo>>, TRUE, TRUE).view.autoMerge = page.autoMerge
              /\ (\A other \in DOMAIN v.byRepo : Fold[other] = Fold[repo] => other = repo) =>
                   /\ autonomy(<<repo>>, TRUE, TRUE).view.rewrite.tiles = v.byRepo[repo].tiles
                   /\ autonomy(<<repo>>, TRUE, TRUE).view.rewrite.series = v.byRepo[repo].series
  <2>1. DOMAIN v.byRepo = ReposOf(Shown)
    BY <1>3 DEF renderRepos, ByRepo
  <2>2. autonomy(<<repo>>, TRUE, TRUE).view.autoMerge = page.autoMerge
    BY <1>2, ScopedPageIs
  <2>3. autonomy(<<repo>>, TRUE, TRUE).view.rewrite = renderRewrite(ForRepo(Shown, repo))
    BY ScopedPageIs
  <2>4. ASSUME \A other \in DOMAIN v.byRepo : Fold[other] = Fold[repo] => other = repo
        PROVE  ForRepo(Shown, repo) = OfRepos(Shown, {repo})
    <3>1. {r \in ReposOf(Shown) : Fold[r] = Fold[repo]} = {repo}
      BY <1>12, <2>1, <2>4
    <3> QED BY <3>1 DEF ForRepo
  <2>5. /\ v.byRepo[repo].tiles = renderTiles(Tiles(OfRepos(Shown, {repo})))
        /\ v.byRepo[repo].series =
             renderSeries(RollingSeries(OfRepos(Shown, {repo}), TrailingPRs, SeriesPoints))
    <3>1. repo \in ReposOf(Shown)
      BY <1>12, <2>1
    <3>2. /\ ByRepo(Shown)[repo].tiles = Tiles(OfRepos(Shown, {repo}))
          /\ ByRepo(Shown)[repo].series = RollingSeries(OfRepos(Shown, {repo}), TrailingPRs, SeriesPoints)
      BY <3>1 DEF ByRepo
    <3>3. DOMAIN ByRepo(Shown) = ReposOf(Shown)
      BY DEF ByRepo
    <3> QED BY <1>3, <3>1, <3>2, <3>3 DEF renderRepos
  <2> QED BY <2>2, <2>3, <2>4, <2>5, RewriteParts
<1>13. OneRate(page)
  BY <1>6, <1>8, <1>9, <1>10, <1>11 DEF OneRate, v
<1>14. ASSUME NEW repo \in DOMAIN v.byRepo \cap KnownRepos
       PROVE  EntryAgrees(page, repo, autonomy(<<repo>>, TRUE, TRUE).view)
  BY <1>12, <1>14 DEF EntryAgrees, v
<1> QED BY <1>13, <1>14 DEF FiguresAgree, v, page

(* Every page the surface draws agrees with itself, however many merges    *)
(* were measured and whatever they were measured as (renderAutonomy).      *)
THEOREM PagesAgree == FiguresSpec => []FiguresAgree
<1>1. FiguresInit => FiguresTypeOK
  BY DEF FiguresInit, FiguresTypeOK
<1> QED BY <1>1, FiguresTypeStep, PageAgrees, PTL DEF FiguresSpec

-----------------------------------------------------------------------------
(* Splits *)

(* The parts of a set are as many elements as it has. *)
LEMMA CountsAddUp ==
  ASSUME NEW I, IsFiniteSet(I), NEW N, IsFiniteSet(N), NEW key, \A x \in I : key[x] \in N
  PROVE  SumFunction([g \in N |-> Cardinality(Part(key, I, g))]) = Cardinality(I)
<1> DEFINE ones == [x \in I |-> 1]
           counts == [g \in N |-> Cardinality(Part(key, I, g))]
<1>1. \A x \in I : ones[x] \in Nat /\ ones[x] = 1
  OBVIOUS
<1> HIDE DEF ones
<1>2. SumFunctionOnSet(Parts(ones, key, I, N), N) = SumFunctionOnSet(ones, I)
  BY <1>1, SumOfParts
<1>3. SumFunctionOnSet(ones, I) = Cardinality(I)
  BY <1>1, SumOfOnes
<1>4. ASSUME NEW g \in N PROVE counts[g] = Parts(ones, key, I, N)[g]
  <2>1. PICK P : P = Part(key, I, g)
    OBVIOUS
  <2>2. IsFiniteSet(P) /\ \A x \in P : ones[x] = 1
    BY <1>1, <2>1, FS_Subset DEF Part
  <2>3. SumFunctionOnSet(ones, P) = Cardinality(P)
    BY <2>2, SumOfOnes
  <2> QED BY <2>1, <2>3 DEF Parts
<1>5. SumFunction(counts) = SumFunctionOnSet(counts, N)
  BY DEF SumFunction
<1> HIDE DEF counts
<1>6. SumFunctionOnSet(counts, N) = SumFunctionOnSet(Parts(ones, key, I, N), N)
  BY <1>4, SumsAgree
<1>7. SumFunction(counts) = Cardinality(I)
  BY <1>2, <1>3, <1>5, <1>6
<1> QED BY <1>7 DEF counts

(* The lines of a list's parts are the lines of the list. *)
LEMMA LinesAddUp ==
  ASSUME NEW s \in Seq(Merges), NEW I \in SUBSET DOMAIN s, NEW N, IsFiniteSet(N), NEW key,
         \A x \in I : key[x] \in N, NEW k \in LineKinds
  PROVE  SumFunction([g \in N |-> LinesAt(s, Part(key, I, g))[k]]) = LinesAt(s, I)[k]
<1> DEFINE f == [i \in DOMAIN s |-> s[i].lines[k]]
           sums == [g \in N |-> LinesAt(s, Part(key, I, g))[k]]
<1>1. \A i \in DOMAIN s : f[i] \in Nat
  <2>1. \A i \in DOMAIN s : s[i] \in Merges
    OBVIOUS
  <2>2. \A x \in Merges : x.lines \in MergeLines
    BY DEF Merges
  <2>3. \A i \in DOMAIN s : s[i].lines[k] \in Nat
    BY <2>1, <2>2 DEF MergeLines
  <2> QED BY <2>3
<1>2. IsFiniteSet(I)
  BY LinesAtType
<1>3. ASSUME NEW J \in SUBSET DOMAIN s
      PROVE  LinesAt(s, J)[k] = SumFunctionOnSet(f, J)
  <2> DEFINE h == [i \in J |-> s[i].lines[k]]
  <2>1. LinesAt(s, J)[k] = SumFunctionOnSet(h, J)
    BY DEF LinesAt, SumFunction
  <2>2. \A i \in J : h[i] = f[i]
    OBVIOUS
  <2>3. IsFiniteSet(J)
    BY LinesAtType
  <2> HIDE DEF h, f
  <2> QED BY <2>1, <2>2, <2>3, SumsAgree
<1> HIDE DEF f
<1>4. SumFunctionOnSet(Parts(f, key, I, N), N) = SumFunctionOnSet(f, I)
  <2>1. \A x \in I : f[x] \in Nat
    BY <1>1
  <2> QED BY <1>2, <2>1, SumOfParts
<1>5. \A g \in N : sums[g] = Parts(f, key, I, N)[g]
  <2>1. \A g \in N : Part(key, I, g) \in SUBSET DOMAIN s
    BY DEF Part
  <2> QED BY <1>3, <2>1 DEF Parts
<1>6. SumFunction(sums) = SumFunctionOnSet(sums, N)
  BY DEF SumFunction
<1> HIDE DEF sums
<1>7. SumFunctionOnSet(sums, N) = SumFunctionOnSet(Parts(f, key, I, N), N)
  BY <1>5, SumsAgree
<1>8. SumFunction(sums) = LinesAt(s, I)[k]
  BY <1>3, <1>4, <1>6, <1>7
<1> QED BY <1>8 DEF sums

(* The merges of a group without lines of the agent's. *)
NoAgent(s, I) == {i \in I : s[i].lines.agent <= 0}

LEMMA GroupCounts ==
  ASSUME NEW s, NEW I
  PROVE  /\ renderGroup(GroupOf(s, I)).prs = Cardinality(I)
         /\ renderGroup(GroupOf(s, I)).lines = LinesAt(s, I)
         /\ renderGroup(GroupOf(s, I)).noAgentPRs = Cardinality(NoAgent(s, I))
         /\ renderGroup(GroupOf(s, I)).noAgentOwner = LinesAt(s, NoAgent(s, I)).owner
<1>1. PICK g : g = GroupOf(s, I)
  OBVIOUS
<1>2. g.prs = Cardinality(I)
  BY <1>1 DEF GroupOf
<1>3. g.lines = LinesAt(s, I)
  BY <1>1 DEF GroupOf
<1>4. g.noAgentPRs = Cardinality(NoAgent(s, I))
  BY <1>1 DEF GroupOf, NoAgent
<1>5. g.noAgentOwner = LinesAt(s, NoAgent(s, I)).owner
  BY <1>1 DEF GroupOf, NoAgent
<1>6. renderGroup(g).prs = g.prs
  BY DEF renderGroup
<1>7. renderGroup(g).lines = g.lines
  BY DEF renderGroup
<1>8. renderGroup(g).noAgentPRs = g.noAgentPRs
  BY DEF renderGroup
<1>9. renderGroup(g).noAgentOwner = g.noAgentOwner
  BY DEF renderGroup
<1> QED BY <1>1, <1>2, <1>3, <1>4, <1>5, <1>6, <1>7, <1>8, <1>9

(* Groups by a name that every merge of the list has add up to the list. *)
LEMMA GroupsAddUp ==
  ASSUME NEW s \in Seq(Merges), NEW N, IsFiniteSet(N), NEW key, \A i \in DOMAIN s : key[i] \in N,
         NEW groups, DOMAIN groups = N, \A g \in N : groups[g] = renderGroup(GroupsBy(s, key, N)[g])
  PROVE  AddUp(groups, renderGroup(GroupOf(s, DOMAIN s)))
<1> DEFINE D == DOMAIN s
           none == NoAgent(s, D)
<1>1. ASSUME NEW g \in N
      PROVE  /\ groups[g] = renderGroup(GroupOf(s, Part(key, D, g)))
             /\ NoAgent(s, Part(key, D, g)) = Part(key, none, g)
  BY <1>1 DEF GroupsBy, Part, NoAgent
<1>2. none \in SUBSET DOMAIN s /\ D \in SUBSET DOMAIN s
  BY DEF NoAgent
<1>3. IsFiniteSet(D) /\ IsFiniteSet(none)
  BY <1>2, LinesAtType
<1> DEFINE whole == renderGroup(GroupOf(s, DOMAIN s))
<1>4. whole.prs = Cardinality(D)
  BY GroupCounts
<1>5. whole.lines = LinesAt(s, D)
  BY GroupCounts
<1>6. whole.noAgentPRs = Cardinality(none)
  BY GroupCounts
<1>7. whole.noAgentOwner = LinesAt(s, none).owner
  BY GroupCounts
<1>8. \A g \in N : groups[g].prs = Cardinality(Part(key, D, g))
  BY <1>1, GroupCounts
<1>9. \A g \in N : groups[g].lines = LinesAt(s, Part(key, D, g))
  BY <1>1, GroupCounts
<1>10. \A g \in N : groups[g].noAgentPRs = Cardinality(Part(key, none, g))
  BY <1>1, GroupCounts
<1>11. \A g \in N : groups[g].noAgentOwner = LinesAt(s, Part(key, none, g)).owner
  BY <1>1, GroupCounts
<1>12. (\A x \in D : key[x] \in N) /\ (\A x \in none : key[x] \in N)
  BY <1>2
<1> HIDE DEF D, none, whole
<1>13. SumFunction([g \in DOMAIN groups |-> groups[g].prs]) = whole.prs
  <2>1. [g \in DOMAIN groups |-> groups[g].prs] = [g \in N |-> Cardinality(Part(key, D, g))]
    BY <1>8
  <2>2. SumFunction([g \in N |-> Cardinality(Part(key, D, g))]) = Cardinality(D)
    BY <1>3, <1>12, CountsAddUp
  <2> QED BY <1>4, <2>1, <2>2
<1>14. SumFunction([g \in DOMAIN groups |-> groups[g].noAgentPRs]) = whole.noAgentPRs
  <2>1. [g \in DOMAIN groups |-> groups[g].noAgentPRs] = [g \in N |-> Cardinality(Part(key, none, g))]
    BY <1>10
  <2>2. SumFunction([g \in N |-> Cardinality(Part(key, none, g))]) = Cardinality(none)
    BY <1>3, <1>12, CountsAddUp
  <2> QED BY <1>6, <2>1, <2>2
<1>15. SumFunction([g \in DOMAIN groups |-> groups[g].noAgentOwner]) = whole.noAgentOwner
  <2>1. PICK k \in LineKinds : k = "owner"
    BY DEF LineKinds
  <2>2. [g \in DOMAIN groups |-> groups[g].noAgentOwner] = [g \in N |-> LinesAt(s, Part(key, none, g))[k]]
    BY <1>11, <2>1
  <2>3. SumFunction([g \in N |-> LinesAt(s, Part(key, none, g))[k]]) = LinesAt(s, none)[k]
    BY <1>2, <1>12, LinesAddUp
  <2> QED BY <1>7, <2>1, <2>2, <2>3
<1>16. ASSUME NEW k \in LineKinds
       PROVE  SumFunction([g \in DOMAIN groups |-> groups[g].lines[k]]) = whole.lines[k]
  <2>1. [g \in DOMAIN groups |-> groups[g].lines[k]] = [g \in N |-> LinesAt(s, Part(key, D, g))[k]]
    BY <1>9
  <2>2. SumFunction([g \in N |-> LinesAt(s, Part(key, D, g))[k]]) = LinesAt(s, D)[k]
    BY <1>2, <1>12, LinesAddUp
  <2> QED BY <1>5, <2>1, <2>2
<1> QED BY <1>13, <1>14, <1>15, <1>16 DEF AddUp, whole

(* The names of a list's merges are finitely many. *)
LEMMA NamesFinite ==
  ASSUME NEW s \in Seq(Merges), NEW key, DOMAIN key = DOMAIN s
  PROVE  IsFiniteSet({key[i] : i \in DOMAIN s})
<1> DEFINE names == {key[i] : i \in DOMAIN s}
<1>1. IsFiniteSet(DOMAIN s)
  BY LinesAtType
<1> DEFINE f == [i \in DOMAIN s |-> key[i]]
<1>2. f \in Surjection(DOMAIN s, names)
  BY DEF Surjection
<1> HIDE DEF names, f
<1> QED BY <1>1, <1>2, FS_Surjection DEF names

LEMMA PageAddsUp == FiguresTypeOK => SplitsAddUp
<1> SUFFICES ASSUME FiguresTypeOK PROVE SplitsAddUp
  OBVIOUS
<1> DEFINE s == Shown
           v == autonomy(<<>>, TRUE, TRUE).view.rewrite
           whole == renderGroup(GroupOf(s, DOMAIN s))
<1>1. s \in Seq(Merges)
  BY ShownIs
<1>2. v = renderRewrite(s)
  BY WholePageIs
<1> HIDE DEF v, s
<1>3. v.bySize = renderSizes(BySize(s)) /\ v.byModel = renderModels(ByModel(s)) /\ v.byRepo = renderRepos(ByRepo(s))
  BY <1>2, RewriteParts
<1>4. AddUp(v.bySize, whole)
  <2> DEFINE N == {"S", "M", "L", "unsized"}
             key == [i \in DOMAIN s |-> SizeBucket(s[i].size)]
  <2>1. IsFiniteSet(N)
    <3>1. IsFiniteSet({"S"})
      BY FS_Singleton
    <3>2. IsFiniteSet({"S"} \cup {"M"})
      BY <3>1, FS_AddElement
    <3>3. IsFiniteSet(({"S"} \cup {"M"}) \cup {"L"})
      BY <3>2, FS_AddElement
    <3>4. IsFiniteSet((({"S"} \cup {"M"}) \cup {"L"}) \cup {"unsized"})
      BY <3>3, FS_AddElement
    <3>5. N = (({"S"} \cup {"M"}) \cup {"L"}) \cup {"unsized"}
      OBVIOUS
    <3> QED BY <3>4, <3>5
  <2>2. \A i \in DOMAIN s : key[i] \in N
    BY DEF SizeBucket
  <2>3. BySize(s) = GroupsBy(s, key, N)
    BY DEF BySize
  <2>4. DOMAIN GroupsBy(s, key, N) = N
    BY DEF GroupsBy
  <2>5. DOMAIN v.bySize = N /\ \A g \in N : v.bySize[g] = renderGroup(GroupsBy(s, key, N)[g])
    BY <1>3, <2>3, <2>4 DEF renderSizes
  <2> HIDE DEF N, key
  <2> QED BY <1>1, <2>1, <2>2, <2>5, GroupsAddUp
<1>5. ASSUME NEW phase \in DOMAIN v.byModel PROVE AddUp(v.byModel[phase], whole)
  <2> DEFINE key == [i \in DOMAIN s |-> modelOrUnknown(s[i].models[phase])]
             N == {key[i] : i \in DOMAIN s}
  <2>1. phase \in {"plan", "build", "review"} /\ DOMAIN ByModel(s) = {"plan", "build", "review"}
    BY <1>3 DEF renderModels, ByModel
  <2>2. ByModel(s)[phase] = GroupsBy(s, key, N)
    BY <2>1 DEF ByModel, groupByModel
  <2>3. v.byModel[phase] = renderModelRows(GroupsBy(s, key, N))
    BY <1>3, <2>1, <2>2 DEF renderModels
  <2>4. DOMAIN key = DOMAIN s /\ \A i \in DOMAIN s : key[i] \in N
    OBVIOUS
  <2>5. IsFiniteSet(N)
    <3> HIDE DEF key
    <3> QED BY <1>1, <2>4, NamesFinite
  <2> HIDE DEF key, N
  <2>6. DOMAIN GroupsBy(s, key, N) = N
    BY DEF GroupsBy
  <2>7. DOMAIN v.byModel[phase] = N /\ \A g \in N : v.byModel[phase][g] = renderGroup(GroupsBy(s, key, N)[g])
    BY <2>3, <2>6 DEF renderModelRows
  <2> QED BY <1>1, <2>4, <2>5, <2>7, GroupsAddUp
<1>6. AddUp([repo \in DOMAIN v.byRepo |-> v.byRepo[repo].average], whole)
  <2> DEFINE key == [i \in DOMAIN s |-> s[i].repo]
             N == {key[i] : i \in DOMAIN s}
             groups == [repo \in DOMAIN v.byRepo |-> v.byRepo[repo].average]
  <2>1. DOMAIN key = DOMAIN s /\ \A i \in DOMAIN s : key[i] \in N
    OBVIOUS
  <2>2. ReposOf(s) = N
    BY DEF ReposOf
  <2>3. IsFiniteSet(N)
    <3> HIDE DEF key
    <3> QED BY <1>1, <2>1, NamesFinite
  <2>4. DOMAIN ByRepo(s) = N
    BY <2>2 DEF ByRepo
  <2>5. \A repo \in N : ByRepo(s)[repo].average = GroupsBy(s, key, N)[repo]
    BY <2>2 DEF ByRepo
  <2> HIDE DEF key, N
  <2>6. DOMAIN v.byRepo = N
    BY <1>3, <2>4 DEF renderRepos
  <2>7. \A repo \in N : v.byRepo[repo].average = renderGroup(ByRepo(s)[repo].average)
    BY <1>3, <2>4 DEF renderRepos
  <2>8. DOMAIN groups = N /\ \A g \in N : groups[g] = renderGroup(GroupsBy(s, key, N)[g])
    BY <2>5, <2>6, <2>7
  <2> HIDE DEF groups
  <2>9. AddUp(groups, whole)
    BY <1>1, <2>1, <2>3, <2>8, GroupsAddUp
  <2> QED BY <2>9 DEF groups
<1>7. whole.lines.owner = whole.lines.reviewFound + whole.lines.ownerChange + whole.lines.unlabelled
  <2>1. whole.lines = LinesAt(s, DOMAIN s)
    BY GroupCounts
  <2>2. LinesAt(s, DOMAIN s) \in MergeLines
    BY <1>1, LinesAtType
  <2> HIDE DEF whole
  <2> QED BY <2>1, <2>2 DEF MergeLines
<1> HIDE DEF whole
<1> QED BY <1>4, <1>5, <1>6, <1>7 DEF SplitsAddUp, s, v, whole

-----------------------------------------------------------------------------
(* Spreads *)

(* A rate over some of the agent's lines. *)
Fractions == [n : Nat, d : Nat \ {0}]

LEMMA TimesGrows == ASSUME NEW a \in Nat, NEW b \in Nat, NEW c \in Nat, a <= b PROVE a * c <= b * c
<1>1. PICK e \in Nat : b = a + e
  <2>1. b - a \in Nat /\ b = a + (b - a)
    OBVIOUS
  <2> QED BY <2>1
<1>2. b * c = a * c + e * c /\ a * c \in Nat /\ e * c \in Nat
  BY <1>1
<1> QED BY <1>2

LEMMA TimesCancels == ASSUME NEW a \in Nat, NEW b \in Nat, NEW c \in Nat \ {0}, a * c <= b * c PROVE a <= b
<1> SUFFICES ASSUME b + 1 <= a PROVE FALSE
  OBVIOUS
<1>1. (b + 1) * c <= a * c
  <2>1. b + 1 \in Nat /\ c \in Nat
    OBVIOUS
  <2> QED BY <2>1, TimesGrows
<1>2. (b + 1) * c = b * c + c /\ b * c \in Nat /\ a * c \in Nat
  OBVIOUS
<1> QED BY <1>1, <1>2

LEMMA NotOverIs ==
  ASSUME NEW x \in Fractions, NEW y \in Fractions
  PROVE  /\ {x.n, y.n} \subseteq Nat /\ {x.d, y.d} \subseteq Nat \ {0}
         /\ NotOver(x, y) <=> x.n * y.d <= y.n * x.d
         /\ NotOver(x, y) \/ NotOver(y, x)
<1>1. {x.n, y.n} \subseteq Nat /\ {x.d, y.d} \subseteq Nat \ {0}
  BY DEF Fractions
<1>2. PICK a \in Nat, b \in Nat : a = x.n * y.d /\ b = y.n * x.d
  BY <1>1
<1>3. NotOver(x, y) <=> ~(b < a)
  BY <1>2 DEF NotOver, Less
<1>4. NotOver(y, x) <=> ~(a < b)
  BY <1>2 DEF NotOver, Less
<1> QED BY <1>1, <1>2, <1>3, <1>4

LEMMA NotOverChain ==
  ASSUME NEW x \in Fractions, NEW y \in Fractions, NEW z \in Fractions, NotOver(x, y), NotOver(y, z)
  PROVE  NotOver(x, z)
<1>1. PICK a \in Nat, b \in Nat \ {0} : a = x.n /\ b = x.d
  BY NotOverIs
<1>2. PICK c \in Nat, e \in Nat \ {0} : c = y.n /\ e = y.d
  BY NotOverIs
<1>3. PICK g \in Nat, f \in Nat \ {0} : g = z.n /\ f = z.d
  BY NotOverIs
<1>4. a * e <= c * b
  BY <1>1, <1>2, NotOverIs
<1>5. c * f <= g * e
  BY <1>2, <1>3, NotOverIs
<1>6. /\ {a * e, c * b, c * f, g * e, a * f, g * b} \subseteq Nat
      /\ {(a * e) * f, (c * b) * f, (c * f) * b, (g * e) * b} \subseteq Nat
  OBVIOUS
<1>7. (a * e) * f <= (c * b) * f
  BY <1>4, <1>6, TimesGrows
<1>8. (c * f) * b <= (g * e) * b
  BY <1>5, <1>6, TimesGrows
<1>9. (a * e) * f = (a * f) * e /\ (c * b) * f = (c * f) * b /\ (g * e) * b = (g * b) * e
  OBVIOUS
<1>10. (a * f) * e <= (g * b) * e
  BY <1>6, <1>7, <1>8, <1>9
<1>11. a * f <= g * b
  BY <1>6, <1>10, TimesCancels
<1> QED BY <1>1, <1>3, <1>11, NotOverIs

LEMMA MeanBetween ==
  ASSUME NEW x \in Fractions, NEW y \in Fractions, NotOver(x, y)
  PROVE  Mean(x, y) \in Fractions /\ NotOver(x, Mean(x, y)) /\ NotOver(Mean(x, y), y)
<1>1. PICK a \in Nat, b \in Nat \ {0} : a = x.n /\ b = x.d
  BY NotOverIs
<1>2. PICK c \in Nat, e \in Nat \ {0} : c = y.n /\ e = y.d
  BY NotOverIs
<1>3. a * e <= c * b
  BY <1>1, <1>2, NotOverIs
<1>4. PICK u \in Nat, v \in Nat, w \in Nat \ {0} : u = a * e /\ v = c * b /\ w = b * e
  OBVIOUS
<1>5. Mean(x, y) = [n |-> u + v, d |-> 2 * w]
  <2>1. 2 * x.d * y.d = 2 * w
    BY <1>1, <1>2, <1>4
  <2> QED BY <1>1, <1>2, <1>4, <2>1 DEF Mean
<1>6. Mean(x, y) \in Fractions
  <2>1. u + v \in Nat /\ 2 * w \in Nat \ {0}
    OBVIOUS
  <2> QED BY <1>5, <2>1 DEF Fractions
<1>7. Mean(x, y).n = u + v /\ Mean(x, y).d = 2 * w
  BY <1>5
<1>8. a * (2 * w) = (u + u) * b /\ c * (2 * w) = (v + v) * e
  BY <1>4
<1>9. u <= v
  BY <1>3, <1>4
<1>10. (u + u) * b <= (u + v) * b
  <2>1. u + u <= u + v /\ u + u \in Nat /\ u + v \in Nat
    BY <1>9
  <2> QED BY <2>1, TimesGrows
<1>11. (u + v) * e <= (v + v) * e
  <2>1. u + v <= v + v /\ v + v \in Nat /\ u + v \in Nat
    BY <1>9
  <2> QED BY <2>1, TimesGrows
<1>12. a * (2 * w) <= (u + v) * b
  BY <1>8, <1>10
<1>13. (u + v) * e <= c * (2 * w)
  BY <1>8, <1>11
<1>14. NotOver(x, Mean(x, y))
  BY <1>1, <1>6, <1>7, <1>12, NotOverIs
<1>15. NotOver(Mean(x, y), y)
  BY <1>2, <1>6, <1>7, <1>13, NotOverIs
<1> QED BY <1>6, <1>14, <1>15

(* The merges of a group with lines of the agent's, and what is read of    *)
(* them.                                                                   *)
Measured(s, I) == {i \in I : s[i].lines.agent > 0}

LEMMA MeasuredRate ==
  ASSUME NEW s \in Seq(Merges), NEW I \in SUBSET DOMAIN s, NEW i \in Measured(s, I)
  PROVE  /\ s[i].lines.owner \in Nat /\ s[i].lines.agent \in Nat \ {0}
         /\ RateAt(s, i) \in Fractions
         /\ RateAt(s, i).n = s[i].lines.owner /\ RateAt(s, i).d = s[i].lines.agent
<1>1. i \in DOMAIN s /\ s[i].lines.agent > 0
  BY DEF Measured
<1>2. s[i] \in Merges
  BY <1>1
<1>3. s[i].lines \in MergeLines
  BY <1>2 DEF Merges
<1>4. s[i].lines.owner \in Nat /\ s[i].lines.agent \in Nat
  BY <1>3 DEF MergeLines, LineKinds
<1>5. RateAt(s, i) = [n |-> s[i].lines.owner, d |-> s[i].lines.agent]
  BY <1>1 DEF RateAt, Rate
<1> QED BY <1>1, <1>4, <1>5 DEF Fractions

(* Ranked goes through the measured merges once each, their rates ascending. *)
LEMMA RankedIs ==
  ASSUME NEW s \in Seq(Merges), NEW I \in SUBSET DOMAIN s
  PROVE  LET M == Measured(s, I)
             n == Cardinality(M)
             p == Ranked(s, M)
         IN /\ IsFiniteSet(M) /\ n \in Nat
            /\ p \in [1..n -> M]
            /\ \A j, k \in 1..n : j < k => NotOver(RateAt(s, p[j]), RateAt(s, p[k]))
            /\ \A i \in M : \E k \in 1..n : p[k] = i
<1> DEFINE M == Measured(s, I)
           n == Cardinality(M)
           R == {x \in M \X M : NotOver(RateAt(s, x[1]), RateAt(s, x[2]))}
           good(q) == \A j, k \in DOMAIN q : j < k => q[j] # q[k] /\ ~Less(RateAt(s, q[k]), RateAt(s, q[j]))
           p == Ranked(s, M)
<1>1. IsFiniteSet(M) /\ n \in Nat
  <2>1. M \in SUBSET DOMAIN s
    BY DEF Measured
  <2> HIDE DEF M
  <2> QED BY <2>1, LinesAtType, FS_CardinalityType
<1>2. \A i \in M : RateAt(s, i) \in Fractions
  BY MeasuredRate
<1> HIDE DEF M
<1>3. \A x, y \in M : <<x, y>> \in R <=> NotOver(RateAt(s, x), RateAt(s, y))
  OBVIOUS
<1> HIDE DEF R
<1>4. Orders(R, M)
  <2>1. ASSUME NEW x \in M, NEW y \in M PROVE <<x, y>> \in R \/ <<y, x>> \in R
    BY <1>2, <1>3, NotOverIs
  <2>2. ASSUME NEW x \in M, NEW y \in M, NEW z \in M, <<x, y>> \in R, <<y, z>> \in R PROVE <<x, z>> \in R
    <3>1. NotOver(RateAt(s, x), RateAt(s, z))
      BY <1>2, <1>3, <2>2, NotOverChain
    <3> QED BY <1>3, <3>1
  <2> QED BY <2>1, <2>2 DEF Orders
<1>5. PICK q : InOrder(q, R, M)
  BY <1>1, <1>4, InOrderExists
<1>6. q \in [1..n -> M] /\ good(q)
  <2>1. q \in [1..n -> M] /\ \A j, k \in 1..n : j < k => q[j] # q[k] /\ <<q[j], q[k]>> \in R
    BY <1>5 DEF InOrder
  <2>2. \A j, k \in 1..n : j < k => q[j] # q[k] /\ ~Less(RateAt(s, q[k]), RateAt(s, q[j]))
    BY <1>3, <2>1 DEF NotOver
  <2> QED BY <2>1, <2>2
<1>7. p = CHOOSE r \in [1..n -> M] : good(r)
  BY Zenon DEF Ranked
<1>8. p \in [1..n -> M] /\ good(p)
  <2> HIDE DEF good, p
  <2> QED BY <1>6, <1>7
<1> HIDE DEF p
<1>9. \A j, k \in 1..n : j < k => p[j] # p[k] /\ NotOver(RateAt(s, p[j]), RateAt(s, p[k]))
  BY <1>8 DEF NotOver
<1>10. InOrder(p, R, M)
  BY <1>3, <1>8, <1>9 DEF InOrder
<1>11. \A i \in M : \E k \in 1..n : p[k] = i
  BY <1>1, <1>10, InOrderCovers
<1> QED BY <1>1, <1>8, <1>9, <1>11 DEF M, p

LEMMA RatesAre ==
  ASSUME NEW s \in Seq(Merges), NEW I \in SUBSET DOMAIN s
  PROVE  LET M == Measured(s, I)
             n == Cardinality(M)
             rates == measuredRates(s, I)
         IN /\ n \in Nat /\ Len(rates) = n /\ rates \in [1..n -> Fractions] /\ (n = 0 => rates = <<>>)
            /\ \A j, k \in 1..n : j <= k => NotOver(rates[j], rates[k])
            /\ \A i \in M : \E k \in 1..n : rates[k] = RateAt(s, i)
<1> DEFINE M == Measured(s, I)
           n == Cardinality(M)
           p == Ranked(s, M)
           rates == measuredRates(s, I)
<1>1. n \in Nat /\ p \in [1..n -> M]
  BY RankedIs
<1>2. \A j, k \in 1..n : j < k => NotOver(RateAt(s, p[j]), RateAt(s, p[k]))
  BY RankedIs
<1>3. \A i \in M : \E k \in 1..n : p[k] = i
  BY RankedIs
<1>4. rates = [j \in DOMAIN p |-> RateAt(s, p[j])]
  BY Zenon DEF measuredRates, Measured
<1>5. \A i \in M : RateAt(s, i) \in Fractions
  BY MeasuredRate
<1> HIDE DEF p, rates, M
<1>6. rates = [j \in 1..n |-> RateAt(s, p[j])]
  BY <1>1, <1>4
<1>7. rates \in [1..n -> Fractions]
  BY <1>1, <1>5, <1>6
<1>8. rates \in Seq(Fractions) /\ Len(rates) = n
  <2> HIDE DEF n
  <2>1. rates \in Seq(Fractions)
    BY <1>1, <1>7, SeqDef
  <2> QED BY <1>1, <1>7, <2>1, LenProperties
<1>9. n = 0 => rates = <<>>
  BY <1>8, EmptySeq
<1>10. ASSUME NEW j \in 1..n, NEW k \in 1..n, j <= k PROVE NotOver(rates[j], rates[k])
  <2>1. rates[j] = RateAt(s, p[j]) /\ rates[k] = RateAt(s, p[k])
    BY <1>6
  <2>2. CASE j < k
    BY <1>2, <2>1, <2>2
  <2>3. CASE j = k
    BY <1>7, <2>3, NotOverIs
  <2> QED BY <1>1, <1>10, <2>2, <2>3
<1>11. ASSUME NEW i \in M PROVE \E k \in 1..n : rates[k] = RateAt(s, i)
  BY <1>3, <1>6
<1> QED BY <1>1, <1>7, <1>8, <1>9, <1>10, <1>11 DEF M, rates

(* The median and the p90 of ascending rates. *)
LEMMA SpreadOfRates ==
  ASSUME NEW n \in Nat \ {0}, NEW rates \in [1..n -> Fractions], Len(rates) = n,
         \A j, k \in 1..n : j <= k => NotOver(rates[j], rates[k])
  PROVE  /\ NotOver(rates[1], medianOf(rates)) /\ NotOver(medianOf(rates), nearestRank(rates))
         /\ NotOver(nearestRank(rates), rates[n])
<1>1. PICK h \in Nat : h = n \div 2 /\ (n = 2 * h \/ n = 2 * h + 1) /\ (n % 2 = 1 <=> n = 2 * h + 1)
  OBVIOUS
<1>2. PICK r \in Nat : r = (9 * n + 9) \div 10 /\ 10 * r <= 9 * n + 9 /\ 9 * n + 9 < 10 * r + 10
  OBVIOUS
<1>3. h + 1 <= r \/ (n = 1 /\ r = 1 /\ h = 0)
  BY <1>1, <1>2
<1>4. r \in 1..n /\ 1 \in 1..n /\ n \in 1..n /\ nearestRank(rates) = rates[r]
  BY <1>1, <1>2 DEF nearestRank
<1>5. NotOver(nearestRank(rates), rates[n])
  BY <1>4
<1>6. CASE n = 2 * h + 1
  <2>1. medianOf(rates) = rates[h + 1]
    BY <1>1, <1>6 DEF medianOf
  <2>2. h + 1 \in 1..n /\ 1 <= h + 1 /\ h + 1 <= r
    BY <1>3, <1>6
  <2> QED BY <1>4, <1>5, <2>1, <2>2
<1>7. CASE n = 2 * h
  <2>1. h \in 1..n /\ h + 1 \in 1..n /\ 1 <= h /\ h <= h + 1 /\ h + 1 <= r
    BY <1>3, <1>7
  <2>2. medianOf(rates) = Mean(rates[h], rates[h + 1])
    BY <1>1, <1>7 DEF medianOf
  <2>3. rates[h] \in Fractions /\ rates[h + 1] \in Fractions /\ rates[1] \in Fractions /\ rates[r] \in Fractions
    BY <1>4, <2>1
  <2>4. NotOver(rates[h], rates[h + 1]) /\ NotOver(rates[1], rates[h]) /\ NotOver(rates[h + 1], rates[r])
    BY <1>4, <2>1
  <2>5. PICK m : m = Mean(rates[h], rates[h + 1])
    OBVIOUS
  <2>6. m \in Fractions /\ NotOver(rates[h], m) /\ NotOver(m, rates[h + 1])
    BY <2>3, <2>4, <2>5, MeanBetween
  <2>7. NotOver(rates[1], m)
    BY <2>3, <2>4, <2>6, NotOverChain
  <2>8. NotOver(m, rates[r])
    BY <2>3, <2>4, <2>6, NotOverChain
  <2> QED BY <1>4, <1>5, <2>2, <2>5, <2>7, <2>8
<1> QED BY <1>1, <1>6, <1>7

(* The lines of measured merges pool to a rate between any that is not     *)
(* over and any that is not under each of theirs.                          *)
LEMMA PooledBetween ==
  ASSUME NEW s \in Seq(Merges), NEW I \in SUBSET DOMAIN s, I # {}, Measured(s, I) = I,
         NEW x \in Fractions, NEW y \in Fractions,
         \A i \in I : NotOver(x, RateAt(s, i)) /\ NotOver(RateAt(s, i), y)
  PROVE  NotOver(x, Rate(LinesAt(s, I))) /\ NotOver(Rate(LinesAt(s, I)), y)
<1> DEFINE agents == [i \in I |-> s[i].lines["agent"]]
           owners == [i \in I |-> s[i].lines["owner"]]
           l == LinesAt(s, I)
<1>1. IsFiniteSet(I)
  BY LinesAtType
<1>2. \A i \in I : agents[i] \in Nat \ {0} /\ owners[i] \in Nat /\ RateAt(s, i) \in Fractions
                   /\ RateAt(s, i).n = owners[i] /\ RateAt(s, i).d = agents[i]
  BY MeasuredRate
<1>3. l.agent = SumFunctionOnSet(agents, I) /\ l.owner = SumFunctionOnSet(owners, I)
  BY DEF LinesAt, SumFunction, LineKinds
<1> HIDE DEF agents, owners, l
<1>4. \A i \in I : agents[i] \in Nat /\ owners[i] \in Nat
  BY <1>2
<1>5. l.owner \in Nat
  BY <1>1, <1>3, <1>4, SumType
<1>6. l.agent \in Nat \ {0}
  <2>1. PICK i : i \in I
    OBVIOUS
  <2>2. SumFunctionOnSet(agents, I) = agents[i] + SumFunctionOnSet(agents, I \ {i})
    BY <1>1, <1>4, <2>1, SumTakesOut
  <2>3. PICK J : J = I \ {i}
    OBVIOUS
  <2>4. IsFiniteSet(J) /\ \A j \in J : agents[j] \in Nat
    BY <1>1, <1>4, <2>3, FS_Subset
  <2>5. SumFunctionOnSet(agents, J) \in Nat
    BY <2>4, SumType
  <2>6. agents[i] \in Nat \ {0}
    BY <1>2, <2>1
  <2> QED BY <1>3, <2>2, <2>3, <2>5, <2>6
<1>7. Rate(l) \in Fractions /\ Rate(l).n = l.owner /\ Rate(l).d = l.agent
  <2>1. Rate(l) = [n |-> l.owner, d |-> l.agent]
    BY <1>6 DEF Rate
  <2> QED BY <1>5, <1>6, <2>1 DEF Fractions
<1>8. PICK a \in Nat, b \in Nat : a = x.n /\ b = x.d
  BY NotOverIs
<1>9. PICK c \in Nat, e \in Nat : c = y.n /\ e = y.d
  BY NotOverIs
<1>10. \A i \in I : agents[i] \in Nat /\ owners[i] \in Nat /\ a * agents[i] <= b * owners[i]
  <2> TAKE i \in I
  <2>1. agents[i] \in Nat /\ owners[i] \in Nat
    BY <1>4
  <2>2. x.n * RateAt(s, i).d <= RateAt(s, i).n * x.d
    BY <1>2, NotOverIs
  <2>3. a * agents[i] <= owners[i] * b
    BY <1>2, <1>8, <2>2
  <2>4. owners[i] * b = b * owners[i]
    BY <2>1
  <2> QED BY <2>1, <2>3, <2>4
<1>11. \A i \in I : owners[i] \in Nat /\ agents[i] \in Nat /\ e * owners[i] <= c * agents[i]
  <2> TAKE i \in I
  <2>1. agents[i] \in Nat /\ owners[i] \in Nat
    BY <1>4
  <2>2. RateAt(s, i).n * y.d <= y.n * RateAt(s, i).d
    BY <1>2, NotOverIs
  <2>3. owners[i] * e <= c * agents[i]
    BY <1>2, <1>9, <2>2
  <2>4. owners[i] * e = e * owners[i]
    BY <2>1
  <2> QED BY <2>1, <2>3, <2>4
<1>12. a * l.agent <= b * l.owner
  BY <1>1, <1>3, <1>10, SumsCompare
<1>13. e * l.owner <= c * l.agent
  BY <1>1, <1>3, <1>11, SumsCompare
<1>14. b * l.owner = l.owner * b /\ e * l.owner = l.owner * e
  BY <1>5
<1>15. NotOver(x, Rate(l))
  BY <1>7, <1>8, <1>12, <1>14, NotOverIs
<1>16. NotOver(Rate(l), y)
  BY <1>7, <1>9, <1>13, <1>14, NotOverIs
<1> QED BY <1>15, <1>16 DEF l

LEMMA SpreadOrdered == FiguresTypeOK => SpreadIsOrdered
<1> SUFFICES ASSUME FiguresTypeOK, NEW I \in SUBSET DOMAIN Shown, GroupOf(Shown, I).spread
             PROVE  LET g == GroupOf(Shown, I)
                        rates == measuredRates(Shown, I)
                    IN /\ NotOver(rates[1], g.median) /\ NotOver(g.median, g.p90)
                       /\ NotOver(g.p90, rates[Len(rates)])
                       /\ g.noAgentPRs = 0 => NotOver(rates[1], g.rate) /\ NotOver(g.rate, rates[Len(rates)])
  BY DEF SpreadIsOrdered
<1> DEFINE g == GroupOf(Shown, I)
           rates == measuredRates(Shown, I)
           spread == Cardinality(I) >= MinPRsForSpread /\ rates # <<>>
           M == Measured(Shown, I)
           n == Cardinality(M)
<1>1. Shown \in Seq(Merges)
  BY ShownIs
<1>2. g = [prs |-> Cardinality(I), lines |-> LinesAt(Shown, I), rate |-> Rate(LinesAt(Shown, I)),
           spread |-> spread,
           median |-> IF spread THEN medianOf(rates) ELSE Inf,
           p90 |-> IF spread THEN nearestRank(rates) ELSE Inf,
           noAgentPRs |-> Cardinality(NoAgent(Shown, I)), noAgentOwner |-> LinesAt(Shown, NoAgent(Shown, I)).owner]
  BY Zenon DEF GroupOf, NoAgent
<1>3. g.spread
  OBVIOUS
<1>4. /\ n \in Nat /\ Len(rates) = n /\ rates \in [1..n -> Fractions] /\ (n = 0 => rates = <<>>)
      /\ \A j, k \in 1..n : j <= k => NotOver(rates[j], rates[k])
      /\ \A i \in M : \E k \in 1..n : rates[k] = RateAt(Shown, i)
  BY <1>1, RatesAre
<1> HIDE DEF g, rates, spread, M
<1>5. spread
  BY <1>2, <1>3
<1>6. g.median = medianOf(rates) /\ g.p90 = nearestRank(rates) /\ g.rate = Rate(LinesAt(Shown, I))
      /\ g.noAgentPRs = Cardinality(NoAgent(Shown, I))
  BY <1>2, <1>5
<1>7. n \in Nat \ {0}
  BY <1>4, <1>5 DEF spread
<1>8. /\ NotOver(rates[1], g.median) /\ NotOver(g.median, g.p90) /\ NotOver(g.p90, rates[n])
  <2> HIDE DEF n
  <2> QED BY <1>4, <1>6, <1>7, SpreadOfRates
<1>9. ASSUME g.noAgentPRs = 0 PROVE NotOver(rates[1], g.rate) /\ NotOver(g.rate, rates[n])
  <2>1. NoAgent(Shown, I) = {}
    <3>1. NoAgent(Shown, I) \in SUBSET DOMAIN Shown
      BY DEF NoAgent
    <3>2. IsFiniteSet(NoAgent(Shown, I))
      BY <1>1, <3>1, LinesAtType
    <3> QED BY <1>6, <1>9, <3>2, FS_EmptySet
  <2>2. ASSUME NEW i \in I PROVE i \in M
    <3>1. Shown[i] \in Merges
      BY <1>1
    <3>2. Shown[i].lines \in MergeLines
      BY <3>1 DEF Merges
    <3>3. Shown[i].lines.agent \in Nat
      BY <3>2 DEF MergeLines, LineKinds
    <3>4. ~(Shown[i].lines.agent <= 0)
      BY <2>1 DEF NoAgent
    <3> QED BY <3>3, <3>4 DEF M, Measured
  <2>3. M = I /\ Measured(Shown, I) = I
    BY <2>2 DEF M, Measured
  <2>4. I # {}
    BY <1>7, <2>3, FS_EmptySet
  <2>5. 1 \in 1..n /\ n \in 1..n /\ \A k \in 1..n : 1 <= k /\ k <= n
    BY <1>7
  <2>6. rates[1] \in Fractions /\ rates[n] \in Fractions
    BY <1>4, <2>5
  <2>7. \A i \in I : NotOver(rates[1], RateAt(Shown, i)) /\ NotOver(RateAt(Shown, i), rates[n])
    <3> HIDE DEF n
    <3> QED BY <1>4, <2>3, <2>5
  <2> HIDE DEF n
  <2> QED BY <1>1, <1>6, <2>3, <2>4, <2>6, <2>7, PooledBetween
<1>10. rates[Len(rates)] = rates[n]
  BY <1>4
<1> QED BY <1>8, <1>9, <1>10 DEF g, rates

(* Every page the surface draws accounts for each merge and each line once *)
(* in each split, and no spread of a group is out of order, however many   *)
(* merges were measured and whatever they were measured as                 *)
(* (renderRewrite, GroupOf).                                               *)
THEOREM GroupsSound == FiguresSpec => []GroupsAreSound
<1>1. FiguresInit => FiguresTypeOK
  BY DEF FiguresInit, FiguresTypeOK
<1>2. FiguresTypeOK => GroupsAreSound
  BY PageAddsUp, SpreadOrdered DEF GroupsAreSound
<1> QED BY <1>1, <1>2, FiguresTypeStep, PTL DEF FiguresSpec

=============================================================================
