--------------------------- MODULE PollRulesProofs ---------------------------
(***************************************************************************)
(* Proofs about two of the rules a poll follows: RunsAtOnce, for every set *)
(* of runs, every cap and every number of stable runs, and Decisions, for  *)
(* any number of polls, decisions, replies and sessions.                   *)
(***************************************************************************)
EXTENDS RunsAtOnce, Decisions, Aggregates, FiniteSetTheorems, TLAPS

-----------------------------------------------------------------------------
(* How many runs go at once *)

(* The caps leave room for one run at least. *)
LEMMA TopIsPositive == RunsAtOnceMax \in Nat \ {0}
BY RunsAtOnceAssumption DEF RunsAtOnceMax

(* Half of a number of runs, held to one. *)
LEMMA HalvedType ==
  ASSUME NEW k \in Nat \ {0}
  PROVE  Halved(k) \in 1..k
BY DEF Halved

(* A nonempty set of times has a latest. *)
LEMMA LatestExists ==
  ASSUME NEW S \in SUBSET (0..MaxTime), S # {}
  PROVE  \E t \in S : \A s \in S : s <= t
<1> DEFINE Back == {MaxTime - t : t \in S}
<1>1. Back \subseteq Nat /\ Back # {}
  <2>1. ASSUME NEW t \in S PROVE MaxTime - t \in Nat
    BY RunsAtOnceAssumption
  <2>2. Back \subseteq Nat
    BY <2>1
  <2> QED
    BY <2>2
<1>2. PICK b \in Back : \A c \in Back : b <= c
  <2> HIDE DEF Back
  <2>1. PICK b \in Back : \A c \in Back : ~(<<c, b>> \in OpToRel(<, Nat))
    BY <1>1, NatLessThanWellFounded, WFMin, Zenon
  <2>2. \A c \in Back : ~(c < b)
    BY <1>1, <2>1 DEF OpToRel
  <2> QED
    BY <1>1, <2>2
<1>3. PICK t \in S : b = MaxTime - t
  BY <1>2
<1>4. ASSUME NEW s \in S
      PROVE  s <= t
  <2>1. MaxTime - t <= MaxTime - s
    BY <1>2, <1>3
  <2>2. s \in Int /\ t \in Int /\ MaxTime \in Int
    BY RunsAtOnceAssumption
  <2> QED
    BY <2>1, <2>2
<1> QED
  BY <1>4

(* The marker of a change of N is a time no claim in flight is later than. *)
LEMMA MarkerIsLatest ==
  ASSUME TypeOK
  PROVE  /\ Marker \in 0..MaxTime
         /\ changedAfter <= Marker
         /\ \A r \in InFlight : claims[r].at <= Marker
<1> DEFINE times == {changedAfter} \cup {claims[r].at : r \in InFlight}
<1>1. times \in SUBSET (0..MaxTime) /\ times # {}
  BY DEF TypeOK, InFlight
<1>2. \E t \in times : \A s \in times : s <= t
  BY <1>1, LatestExists
<1>3. Marker = CHOOSE t \in times : \A s \in times : s <= t
  BY DEF Marker, LatestClaim
<1>4. Marker \in times /\ \A s \in times : s <= Marker
  BY <1>2, <1>3
<1> QED
  BY <1>1, <1>4
(***************************************************************************)
(* Type correctness                                                        *)
(***************************************************************************)

Advice == [n: 0..RunsAtOnceMax, stable: 0..StableRuns, basis: Bases]

(* What the rule makes of one observation at N. *)
LEMMA RecommendIs ==
  ASSUME NEW prev \in Advice, NEW k \in 1..RunsAtOnceMax, NEW sign \in Signs
  PROVE  /\ Recommend(prev, k, sign) \in Advice
         /\ sign = "none" => Recommend(prev, k, sign) = prev
         /\ sign = "between" => Recommend(prev, k, sign) = [n |-> k, stable |-> 0, basis |-> "steady"]
         /\ sign \in {"slow", "rate-limited"} =>
              \/ Recommend(prev, k, sign) = [n |-> Halved(k), stable |-> 0, basis |-> sign]
              \/ Recommend(prev, k, sign) = [n |-> k, stable |-> 0, basis |-> "steady"]
         /\ sign = "stable" =>
              \/ /\ prev.stable + 1 >= StableRuns
                 /\ Recommend(prev, k, sign) = [n |-> k + 1, stable |-> StableRuns, basis |-> "rise"]
              \/ Recommend(prev, k, sign) = [n |-> k, stable |-> 0, basis |-> "steady"]
              \/ /\ prev.stable + 1 < StableRuns
                 /\ Recommend(prev, k, sign) =
                      [n |-> k, stable |-> prev.stable + 1, basis |-> "steady"]
<1>1. /\ RunsAtOnceMax \in Nat \ {0} /\ StableRuns \in Nat \ {0} /\ k \in Nat \ {0}
      /\ prev.stable \in 0..StableRuns /\ k <= RunsAtOnceMax
  BY TopIsPositive, RunsAtOnceAssumption DEF Advice
<1>2. Halved(k) \in 1..k
  BY <1>1, HalvedType
<1>3. Least(k, RunsAtOnceMax) = k
  BY <1>1 DEF Least
<1>4. CASE sign = "none"
  BY <1>4 DEF Recommend
<1>5. CASE sign = "between"
  <2>1. NextConcurrency(k, prev.stable, sign) = [n |-> k, stable |-> 0]
    BY <1>3, <1>5 DEF NextConcurrency, Restart
  <2>2. Recommend(prev, k, sign) = [n |-> k, stable |-> 0, basis |-> "steady"]
    BY <1>1, <1>5, <2>1 DEF Recommend
  <2> QED
    BY <1>1, <1>5, <2>2 DEF Advice, Bases
<1>6. CASE sign \in {"slow", "rate-limited"}
  <2>1. NextConcurrency(k, prev.stable, sign) = [n |-> Halved(k), stable |-> 0]
    BY <1>3, <1>6 DEF NextConcurrency
  <2>2. CASE Halved(k) < k
    <3>1. Recommend(prev, k, sign) = [n |-> Halved(k), stable |-> 0, basis |-> sign]
      BY <1>1, <1>2, <1>6, <2>1, <2>2 DEF Recommend
    <3> QED
      BY <1>1, <1>2, <1>6, <3>1 DEF Advice, Bases
  <2>3. CASE Halved(k) = k
    <3>1. Recommend(prev, k, sign) = [n |-> k, stable |-> 0, basis |-> "steady"]
      BY <1>1, <1>6, <2>1, <2>3 DEF Recommend
    <3> QED
      BY <1>1, <1>6, <3>1 DEF Advice, Bases
  <2> QED
    BY <1>1, <1>2, <2>2, <2>3
<1>7. CASE sign = "stable" /\ prev.stable + 1 >= StableRuns
  <2>1. NextConcurrency(k, prev.stable, sign) = [n |-> Least(k + 1, RunsAtOnceMax), stable |-> 0]
    BY <1>1, <1>3, <1>7 DEF NextConcurrency
  <2>2. CASE k < RunsAtOnceMax
    <3>1. Least(k + 1, RunsAtOnceMax) = k + 1
      BY <1>1, <2>2 DEF Least
    <3>2. Recommend(prev, k, sign) = [n |-> k + 1, stable |-> StableRuns, basis |-> "rise"]
      BY <1>1, <1>7, <2>1, <3>1 DEF Recommend
    <3> QED
      BY <1>1, <1>7, <2>2, <3>2 DEF Advice, Bases
  <2>3. CASE k = RunsAtOnceMax
    <3>1. Least(k + 1, RunsAtOnceMax) = k
      BY <1>1, <2>3 DEF Least
    <3>2. Recommend(prev, k, sign) = [n |-> k, stable |-> 0, basis |-> "steady"]
      BY <1>1, <1>7, <2>1, <3>1 DEF Recommend
    <3> QED
      BY <1>1, <1>7, <3>2 DEF Advice, Bases
  <2> QED
    BY <1>1, <2>2, <2>3
<1>8. CASE sign = "stable" /\ prev.stable + 1 < StableRuns
  <2>1. NextConcurrency(k, prev.stable, sign) = [n |-> k, stable |-> prev.stable + 1]
    BY <1>1, <1>3, <1>8 DEF NextConcurrency
  <2>2. Recommend(prev, k, sign) = [n |-> k, stable |-> prev.stable + 1, basis |-> "steady"]
    BY <1>1, <1>8, <2>1 DEF Recommend
  <2> QED
    BY <1>1, <1>8, <2>2 DEF Advice, Bases
<1> QED
  BY <1>1, <1>4, <1>5, <1>6, <1>7, <1>8 DEF Signs

(* N is a number of runs the caps allow, once a poll has set it or not. *)
LEMMA NType ==
  ASSUME TypeOK
  PROVE  N \in 1..RunsAtOnceMax
BY TopIsPositive DEF TypeOK, N

(* An observation has one of the signs. *)
LEMMA SignType == ASSUME NEW obs PROVE Sign(obs) \in Signs
BY DEF Sign, Signs

(* Every step keeps the ranges. *)
LEMMA TypeInductive ==
  ASSUME TypeOK, [Next]_vars
  PROVE  TypeOK'
<1> USE RunsAtOnceAssumption, TopIsPositive
<1>1. ASSUME NEW k \in 1..RunsAtOnceMax, AdoptRunsAtOnce(k)
      PROVE  TypeOK'
  BY <1>1, MarkerIsLatest DEF AdoptRunsAtOnce, TypeOK, Restarted, NoAdvice, Bases, Signs
<1>2. ASSUME NEW r \in Runs, TryClaim(r)
      PROVE  TypeOK'
  <2>1. PICK at \in 1..now :
          claims' = [claims EXCEPT ![r] =
                       [at |-> at, concurrency |-> Cardinality(InFlight) + 1, epoch |-> epoch]]
    BY <1>2 DEF TryClaim
  <2>2. Cardinality(InFlight) \in Nat
    BY FS_Subset, FS_CardinalityType DEF InFlight
  <2>3. n' \in 0..RunsAtOnceMax
    BY <1>2, NType DEF TryClaim
  <2> QED
    BY <1>2, <2>1, <2>2, <2>3 DEF TryClaim, TypeOK
<1>3. ASSUME NEW r \in Runs, Drop(r)
      PROVE  TypeOK'
  BY <1>3 DEF Drop, TypeOK, NoClaim
<1>4. ASSUME NEW r \in Runs, Settle(r)
      PROVE  TypeOK'
  <2>1. PICK obs \in Observations(r) : rec' = Recommend(rec, N, Sign(obs)) /\ evidence' = Told(Sign(obs))
    BY <1>4 DEF Settle
  <2>2. rec' \in Advice
    BY <2>1, NType, SignType, RecommendIs DEF TypeOK, Advice
  <2>3. evidence' \in [sign: Signs, streak: 0..StableRuns]
    BY <2>1, SignType DEF Told, TypeOK
  <2> QED
    BY <1>4, <2>2, <2>3 DEF Settle, TypeOK, NoClaim, Advice
<1>5. CASE Tick
  BY <1>5 DEF Tick, TypeOK
<1>6. CASE UNCHANGED vars
  BY <1>6 DEF vars, TypeOK
<1> QED
  BY <1>1, <1>2, <1>3, <1>4, <1>5, <1>6 DEF Next

(* N and the recommendation never leave the bounds the owner and the       *)
(* platform set.                                                           *)
THEOREM TypeCorrect == Spec => []TypeOK
<1>1. Init => TypeOK
  BY RunsAtOnceAssumption, TopIsPositive DEF Init, TypeOK, NoAdvice, NoClaim, Bases, Signs
<1> QED
  BY <1>1, TypeInductive, PTL DEF Spec

(***************************************************************************)
(* The recommendation and its evidence                                     *)
(***************************************************************************)

(* A settled run moves the advice and the evidence together. *)
LEMMA SettleKeepsAdvice ==
  ASSUME TypeOK, AdviceMatchesEvidence, NEW r \in Runs, Settle(r)
  PROVE  AdviceMatchesEvidence'
<1>1. PICK obs \in Observations(r) :
        rec' = Recommend(rec, N, Sign(obs)) /\ evidence' = Told(Sign(obs))
  BY DEF Settle
<1>2. n' = n
  BY DEF Settle
<1>3. N' = N
  BY <1>2 DEF N
<1> DEFINE s == Sign(obs)
<1>4. s \in Signs
  BY SignType
<1>5. /\ rec \in Advice /\ N \in 1..RunsAtOnceMax
      /\ StableRuns \in Nat \ {0}
      /\ evidence \in [sign: Signs, streak: 0..StableRuns]
  BY NType, RunsAtOnceAssumption DEF TypeOK, Advice
<1>6. rec.stable \in Nat /\ evidence.streak \in 0..StableRuns /\ rec.stable <= evidence.streak
  BY <1>5 DEF Advice, AdviceMatchesEvidence
<1> HIDE DEF s
<1>7. rec' = Recommend(rec, N, s) /\ evidence' = Told(s)
  BY <1>1 DEF s
<1>8. CASE s = "none"
  <2>1. rec' = rec /\ evidence' = evidence
    BY <1>4, <1>5, <1>7, <1>8, RecommendIs DEF Told
  <2>2. Halved(N)' = Halved(N)
    BY <1>3 DEF Halved
  <2> QED
    BY <1>3, <2>1, <2>2 DEF AdviceMatchesEvidence
<1>9. CASE s \in {"slow", "rate-limited"}
  <2>1. evidence' = [sign |-> s, streak |-> 0]
    BY <1>7, <1>9 DEF Told
  <2>2. \/ rec' = [n |-> Halved(N), stable |-> 0, basis |-> s]
        \/ rec' = [n |-> N, stable |-> 0, basis |-> "steady"]
    BY <1>4, <1>5, <1>7, <1>9, RecommendIs
  <2>3. Halved(N)' = Halved(N)
    BY <1>3 DEF Halved
  <2> QED
    BY <1>3, <1>9, <2>1, <2>2, <2>3 DEF AdviceMatchesEvidence
<1>10. CASE s = "between"
  <2>1. evidence' = [sign |-> s, streak |-> 0]
    BY <1>7, <1>10 DEF Told
  <2>2. rec' = [n |-> N, stable |-> 0, basis |-> "steady"]
    BY <1>4, <1>5, <1>7, <1>10, RecommendIs
  <2> QED
    BY <1>3, <1>10, <2>1, <2>2 DEF AdviceMatchesEvidence
<1>11. CASE s = "stable"
  <2>1. evidence' = [sign |-> s, streak |-> IF evidence.streak < StableRuns
                                            THEN evidence.streak + 1 ELSE StableRuns]
    BY <1>7, <1>11 DEF Told
  <2>2. \/ /\ rec.stable + 1 >= StableRuns
           /\ rec' = [n |-> N + 1, stable |-> StableRuns, basis |-> "rise"]
        \/ rec' = [n |-> N, stable |-> 0, basis |-> "steady"]
        \/ /\ rec.stable + 1 < StableRuns
           /\ rec' = [n |-> N, stable |-> rec.stable + 1, basis |-> "steady"]
    BY <1>4, <1>5, <1>7, <1>11, RecommendIs
  <2>3. /\ evidence'.sign = "stable" /\ evidence'.streak \in Nat
        /\ evidence'.streak = StableRuns \/ evidence'.streak = evidence.streak + 1
    BY <1>5, <1>6, <1>11, <2>1
  <2>4. rec.stable + 1 >= StableRuns => evidence'.streak >= StableRuns
    BY <1>5, <1>6, <2>3
  <2>5. rec'.stable <= evidence'.streak
    BY <1>5, <1>6, <2>2, <2>3, <2>4
  <2> QED
    BY <1>3, <2>2, <2>3, <2>4, <2>5 DEF AdviceMatchesEvidence
<1> QED
  BY <1>4, <1>8, <1>9, <1>10, <1>11 DEF Signs

(* The recommendation says what the runs at this N said: a rise only after *)
(* StableRuns stable ones in a row since N was set, a halving only after a *)
(* slow or refused one.                                                    *)
THEOREM AdviceIsEarned == Spec => []AdviceMatchesEvidence
<1>1. Init => AdviceMatchesEvidence
  BY DEF Init, AdviceMatchesEvidence, NoAdvice
<1>2. ASSUME TypeOK, AdviceMatchesEvidence, [Next]_vars
      PROVE  AdviceMatchesEvidence'
  <2>1. ASSUME NEW k \in 1..RunsAtOnceMax, AdoptRunsAtOnce(k)
        PROVE  AdviceMatchesEvidence'
    BY <2>1 DEF AdoptRunsAtOnce, Restarted, NoAdvice, AdviceMatchesEvidence
  <2>2. ASSUME NEW r \in Runs, Settle(r)
        PROVE  AdviceMatchesEvidence'
    BY <1>2, <2>2, SettleKeepsAdvice
  <2>3. ASSUME UNCHANGED <<N, rec, evidence>>
        PROVE  AdviceMatchesEvidence'
    BY <1>2, <2>3 DEF AdviceMatchesEvidence, Halved
  <2>4. ASSUME NEW r \in Runs, TryClaim(r)
        PROVE  AdviceMatchesEvidence'
    <3>1. n' = N /\ UNCHANGED <<rec, evidence>>
      BY <2>4 DEF TryClaim
    <3>2. N' = N
      BY <1>2, <3>1, NType, TopIsPositive DEF N
    <3> QED
      BY <2>3, <3>1, <3>2
  <2>5. ASSUME UNCHANGED <<n, rec, evidence>>
        PROVE  AdviceMatchesEvidence'
    <3>1. N' = N
      BY <2>5 DEF N
    <3> QED
      BY <2>3, <2>5, <3>1
  <2> QED
    BY <1>2, <2>1, <2>2, <2>4, <2>5 DEF Next, Drop, Tick, vars
<1> QED
  BY <1>1, <1>2, TypeCorrect, PTL DEF Spec

(***************************************************************************)
(* Runs claimed under an earlier N                                         *)
(***************************************************************************)

(* Every change of N leaves a marker no earlier claim is later than. *)
LEMMA MarkedInductive ==
  ASSUME TypeOK, OldClaimsAreMarked, [Next]_vars
  PROVE  OldClaimsAreMarked'
<1>1. ASSUME NEW k \in 1..RunsAtOnceMax, AdoptRunsAtOnce(k)
      PROVE  OldClaimsAreMarked'
  <2>1. claims' = claims /\ changedAfter' = Marker
    BY <1>1 DEF AdoptRunsAtOnce
  <2> QED
    BY <2>1, MarkerIsLatest DEF OldClaimsAreMarked, InFlight, Claimed
<1>2. ASSUME NEW r \in Runs, TryClaim(r)
      PROVE  OldClaimsAreMarked'
  <2>1. PICK at \in 1..now :
          claims' = [claims EXCEPT ![r] =
                       [at |-> at, concurrency |-> Cardinality(InFlight) + 1, epoch |-> epoch]]
    BY <1>2 DEF TryClaim
  <2>2. epoch' = epoch /\ changedAfter' = changedAfter
    BY <1>2 DEF TryClaim
  <2>3. claims'[r].epoch = epoch /\ \A q \in Runs \ {r} : claims'[q] = claims[q]
    BY <2>1 DEF TypeOK
  <2> QED
    BY <2>2, <2>3 DEF OldClaimsAreMarked, Claimed
<1>3. ASSUME NEW r \in Runs, Drop(r) \/ Settle(r)
      PROVE  OldClaimsAreMarked'
  <2>1. /\ claims' = [claims EXCEPT ![r] = NoClaim]
        /\ epoch' = epoch /\ changedAfter' = changedAfter
    BY <1>3 DEF Drop, Settle
  <2>2. claims'[r] = NoClaim /\ \A q \in Runs \ {r} : claims'[q] = claims[q]
    BY <2>1 DEF TypeOK
  <2> QED
    BY <2>1, <2>2 DEF OldClaimsAreMarked, Claimed
<1>4. ASSUME UNCHANGED <<claims, epoch, changedAfter>>
      PROVE  OldClaimsAreMarked'
  BY <1>4 DEF OldClaimsAreMarked, Claimed
<1> QED
  BY <1>1, <1>2, <1>3, <1>4 DEF Next, Tick, vars

(* A run claimed under an earlier N settles without moving the             *)
(* recommendation, whatever order the polls read their clocks in.          *)
THEOREM OldClaimsAreSilent == Spec => OldClaimsSayNothing
<1>1. Init => OldClaimsAreMarked
  BY DEF Init, OldClaimsAreMarked, Claimed
<1>2. ASSUME TypeOK, OldClaimsAreMarked, NEW r \in Runs, Settle(r), claims[r].epoch # epoch
      PROVE  rec' = rec
  <2>1. Observations(r) = {Nothing}
    BY <1>2 DEF Settle, OldClaimsAreMarked, Observations
  <2>2. Sign(Nothing) = "none"
    BY DEF Sign, Nothing
  <2>3. rec' = Recommend(rec, N, "none")
    BY <1>2, <2>1, <2>2 DEF Settle
  <2> QED
    BY <2>3 DEF Recommend
<1>3. TypeOK /\ OldClaimsAreMarked =>
        [\A r \in Runs : Settle(r) /\ claims[r].epoch # epoch => rec' = rec]_vars
  BY <1>2
<1> QED
  BY <1>1, <1>3, MarkedInductive, TypeCorrect, PTL DEF Spec, OldClaimsSayNothing

-----------------------------------------------------------------------------
(* A run's decisions *)

(* The largest and the smallest of a set are of it, unless they are 0.      *)
LEMMA LatestIsOfIt ==
  ASSUME NEW S, Latest(S) # 0
  PROVE  Latest(S) \in S
  BY DEF Latest

LEMMA EarliestIsOfIt ==
  ASSUME NEW S, Earliest(S) # 0
  PROVE  Earliest(S) \in S
  BY DEF Earliest

(* An index these name is one of the row's.                                 *)
LEMMA IndexesAreOfTheRow ==
  /\ lastUnanswered # 0 => lastUnanswered \in DOMAIN decisions /\ decisions[lastUnanswered].answer = "none"
  /\ unconfirmedPosted # 0 => unconfirmedPosted \in DOMAIN decisions
  /\ firstUnpostedProvisional(decisions) # 0 => firstUnpostedProvisional(decisions) \in DOMAIN decisions
  /\ repliedProvisional(decisions) # 0 => repliedProvisional(decisions) \in DOMAIN decisions
  BY LatestIsOfIt, EarliestIsOfIt
     DEF lastUnanswered, unconfirmedPosted, firstUnpostedProvisional, repliedProvisional

(* Changing one entry of the row to another leaves a row.                   *)
LEMMA OneEntryChanged ==
  ASSUME NEW ds \in Seq(DecisionEntry), NEW i \in DOMAIN ds, NEW e \in DecisionEntry
  PROVE  /\ [ds EXCEPT ![i] = e] \in Seq(DecisionEntry)
         /\ Len([ds EXCEPT ![i] = e]) = Len(ds)
         /\ DOMAIN [ds EXCEPT ![i] = e] = DOMAIN ds
         /\ \A j \in DOMAIN ds : [ds EXCEPT ![i] = e][j] = IF j = i THEN e ELSE ds[j]
  OBVIOUS

LEMMA NoActTyped == NoAct \in Act /\ NoAct.step = "off"
  <1>1. NewEntry("none", FALSE) \in DecisionEntry
    BY DecisionsAssumption DEF NewEntry, DecisionEntry
  <1>2. /\ 0 \in 0..MaxDecisions /\ 0 \in 0..(MaxReplies + 1) /\ 0 \in 0..MaxSessions
        /\ "off" \in ActSteps /\ FALSE \in BOOLEAN
    BY DecisionsAssumption DEF ActSteps
  <1> HIDE DEF NewEntry, DecisionEntry
  <1> QED  BY <1>1, <1>2 DEF NoAct, Act

LEMMA InitHolds == DecisionsInit => DecisionsIInv
  <1> SUFFICES ASSUME DecisionsInit PROVE DecisionsIInv  OBVIOUS
  <1>1. run \in RunRow  BY DEF DecisionsInit, RunRow
  <1>2. acts \in [Deciders -> Act]  BY NoActTyped DEF DecisionsInit
  <1>3. DecisionsTypeOK
    <2>1. decisions \in Seq(DecisionEntry) /\ Len(decisions) = 0  BY DEF DecisionsInit
    <2>2. quiet \in BOOLEAN  BY DEF DecisionsInit
    <2>3. /\ bound \in 0..MaxSessions /\ time \in 1..(MaxReplies + 1)
          /\ requeues \in 0..MaxRequeues /\ faults \in 0..MaxFaults /\ Len(decisions) <= MaxDecisions
      BY <2>1, DecisionsAssumption DEF DecisionsInit
    <2> QED  BY <1>1, <1>2, <2>1, <2>2, <2>3 DEF DecisionsTypeOK
  <1>4. TakenHasAnswer /\ RepliesArePast  BY DEF DecisionsInit, TakenHasAnswer, RepliesArePast
  <1>5. CopiesAgree  BY NoActTyped DEF DecisionsInit, CopiesAgree
  <1> QED  BY <1>3, <1>4, <1>5 DEF DecisionsIInv

-----------------------------------------------------------------------------
(* The polls *)

(* No poll takes a copy to settle by in this step. *)
NoNewCopy == \A q \in Deciders : acts'[q].step = "settle" => acts'[q] = acts[q]

LEMMA MovesOn ==
  ASSUME acts \in [Deciders -> Act], NEW p \in Deciders, NEW step \in ActSteps \ {"settle"},
         Goes(p, step) \/ Continues(p, step)
  PROVE  acts' \in [Deciders -> Act] /\ NoNewCopy
  <1>1. CASE Goes(p, step)
    <2>1. [NoAct EXCEPT !.step = step, !.clock = acts[p].clock] \in Act
      BY NoActTyped DEF Act
    <2>2. [NoAct EXCEPT !.step = step, !.clock = acts[p].clock].step = step
      BY NoActTyped DEF Act
    <2> QED  BY <1>1, <2>1, <2>2 DEF Goes, NoNewCopy
  <1>2. CASE Continues(p, step)
    <2>1. [acts[p] EXCEPT !.step = step] \in Act /\ [acts[p] EXCEPT !.step = step].step = step
      BY DEF Act
    <2> QED  BY <1>2, <2>1 DEF Continues, NoNewCopy
  <1> QED  BY <1>1, <1>2

LEMMA PollEndsHere ==
  ASSUME acts \in [Deciders -> Act], NEW p \in Deciders, PollDone(p)
  PROVE  acts' \in [Deciders -> Act] /\ NoNewCopy
  BY NoActTyped DEF PollDone, NoNewCopy

-----------------------------------------------------------------------------
(* The row *)

(* What the copies say stays true while the decisions do. *)
LEMMA RowUntouched ==
  ASSUME DecisionsIInv, UNCHANGED <<decisions, time>>, NoNewCopy
  PROVE  TakenHasAnswer' /\ RepliesArePast' /\ CopiesAgree'
  <1>1. TakenHasAnswer' /\ RepliesArePast'  BY DEF DecisionsIInv, TakenHasAnswer, RepliesArePast
  <1>2. CopiesAgree'  BY DEF DecisionsIInv, CopiesAgree, CopyAgrees, NoNewCopy
  <1> QED  BY <1>1, <1>2

(* An entry that keeps its reply, and its answer while provisional. *)
LEMMA EntryRewritten ==
  ASSUME DecisionsIInv, time' = time, NoNewCopy,
         NEW i \in DOMAIN decisions, NEW e \in DecisionEntry, decisions' = [decisions EXCEPT ![i] = e],
         e.reply = decisions[i].reply, e.replied = decisions[i].replied,
         e.provisional => decisions[i].provisional /\ e.answer = decisions[i].answer
  PROVE  /\ decisions' \in Seq(DecisionEntry) /\ Len(decisions') <= MaxDecisions
         /\ TakenHasAnswer' /\ RepliesArePast' /\ CopiesAgree'
  <1>0. decisions \in Seq(DecisionEntry) /\ Len(decisions) <= MaxDecisions
    BY DEF DecisionsIInv, DecisionsTypeOK
  <1>1. /\ decisions' \in Seq(DecisionEntry) /\ Len(decisions') = Len(decisions)
        /\ DOMAIN decisions' = DOMAIN decisions
        /\ \A j \in DOMAIN decisions : decisions'[j] = IF j = i THEN e ELSE decisions[j]
    BY <1>0, OneEntryChanged
  <1>2. TakenHasAnswer'  BY <1>1 DEF DecisionsIInv, TakenHasAnswer
  <1>3. RepliesArePast'  BY <1>1 DEF DecisionsIInv, RepliesArePast
  <1>4. CopiesAgree'  BY <1>1 DEF DecisionsIInv, CopiesAgree, CopyAgrees, NoNewCopy
  <1> QED  BY <1>0, <1>1, <1>2, <1>3, <1>4

(* A decision more. *)
LEMMA EntryAppended ==
  ASSUME DecisionsIInv, time' = time, acts' = acts, Len(decisions) < MaxDecisions,
         NEW e \in DecisionEntry, decisions' = Append(decisions, e),
         e.replied = 0, e.provisional => e.answer # "none"
  PROVE  /\ decisions' \in Seq(DecisionEntry) /\ Len(decisions') <= MaxDecisions
         /\ TakenHasAnswer' /\ RepliesArePast' /\ CopiesAgree'
  <1>0. decisions \in Seq(DecisionEntry) /\ time \in Nat
    BY DecisionsAssumption DEF DecisionsIInv, DecisionsTypeOK
  <1>1. /\ decisions' \in Seq(DecisionEntry) /\ Len(decisions') = Len(decisions) + 1
        /\ \A j \in DOMAIN decisions : j \in DOMAIN decisions' /\ decisions'[j] = decisions[j]
        /\ \A j \in DOMAIN decisions' : j \in DOMAIN decisions \/ decisions'[j] = e
    BY <1>0
  <1>2. TakenHasAnswer'  BY <1>1 DEF DecisionsIInv, TakenHasAnswer
  <1>3. RepliesArePast'  BY <1>0, <1>1 DEF DecisionsIInv, RepliesArePast
  <1>4. CopiesAgree'  BY <1>1 DEF DecisionsIInv, CopiesAgree, CopyAgrees
  <1>5. Len(decisions') <= MaxDecisions  BY <1>0, <1>1, DecisionsAssumption
  <1> QED  BY <1>1, <1>2, <1>3, <1>4, <1>5

-----------------------------------------------------------------------------
(* Every step keeps the invariant *)

LEMMA RunKeeps ==
  ASSUME DecisionsIInv, ClaimRun \/ RunEnds \/ AbandonRun \/ RequeueRun \/ Delegate \/ TimePasses
  PROVE  DecisionsIInv'
  <1> USE DEF DecisionsIInv, DecisionsTypeOK
  <1>1. CASE ClaimRun \/ RunEnds \/ AbandonRun \/ RequeueRun \/ Delegate
    <2>1. UNCHANGED <<decisions, time, quiet, faults, acts>>
      BY <1>1 DEF ClaimRun, RunEnds, AbandonRun, RequeueRun, Delegate, rest
    <2>2. run' \in RunRow
      BY <1>1 DEF ClaimRun, RunEnds, AbandonRun, RequeueRun, Requeued, Delegate, RunRow
    <2>3. bound' \in 0..MaxSessions /\ requeues' \in 0..MaxRequeues
      BY <1>1, DecisionsAssumption DEF ClaimRun, RunEnds, AbandonRun, RequeueRun, Delegate, rest
    <2>4. NoNewCopy  BY <2>1 DEF NoNewCopy
    <2> QED  BY <2>1, <2>2, <2>3, <2>4, RowUntouched
  <1>2. CASE TimePasses
    <2>1. UNCHANGED <<decisions, run, bound, time, requeues, faults>> /\ quiet' \in BOOLEAN
      BY <1>2 DEF TimePasses, rest
    <2>2. acts' \in [Deciders -> Act] /\ NoNewCopy  BY <1>2, NoActTyped DEF TimePasses, NoNewCopy
    <2> QED  BY <2>1, <2>2, RowUntouched
  <1> QED  BY <1>1, <1>2

LEMMA AsksKeep ==
  ASSUME DecisionsIInv, TakeRecommendation \/ Suspend
  PROVE  DecisionsIInv'
  <1> USE DEF DecisionsIInv, DecisionsTypeOK
  <1>1. PICK answer \in Labels \cup {"none"}, provisional \in BOOLEAN :
          /\ decisions' = Append(decisions, NewEntry(answer, provisional))
          /\ provisional => answer # "none"
    BY DecisionsAssumption DEF TakeRecommendation, Suspend
  <1>2. /\ NewEntry(answer, provisional) \in DecisionEntry
        /\ NewEntry(answer, provisional).replied = 0
        /\ NewEntry(answer, provisional).provisional = provisional
        /\ NewEntry(answer, provisional).answer = answer
    BY <1>1, DecisionsAssumption DEF NewEntry, DecisionEntry
  <1>3. Len(decisions) < MaxDecisions /\ UNCHANGED <<bound, time, requeues, faults, acts>> /\ quiet' \in BOOLEAN
    BY DEF TakeRecommendation, Suspend, rest
  <1>4. run' \in RunRow  BY DEF TakeRecommendation, Suspend, RunRow
  <1> QED  BY <1>1, <1>2, <1>3, <1>4, EntryAppended

(* A reply's time is later than that of any copy, so no copy names it.      *)
LEMMA ReplyKeeps ==
  ASSUME DecisionsIInv, NEW s \in 1..MaxSessions, NEW text \in Texts, ReplyTo(s, text)
  PROVE  DecisionsIInv'
  <1> DEFINE i == ReplyIndex
             e == [decisions[i] EXCEPT !.reply = text, !.replied = time + 1]
  <1>0. decisions \in Seq(DecisionEntry) /\ time \in 1..(MaxReplies + 1) /\ acts \in [Deciders -> Act]
    BY DEF DecisionsIInv, DecisionsTypeOK
  <1>1. i \in DOMAIN decisions
    BY IndexesAreOfTheRow DEF ReplyTo, ReplyIndex
  <1>2. /\ decisions' = [decisions EXCEPT ![i] = e] /\ time' = time + 1 /\ time <= MaxReplies
        /\ UNCHANGED <<bound, requeues, faults, acts>> /\ quiet' \in BOOLEAN
    BY DEF ReplyTo
  <1>3. decisions[i] \in DecisionEntry  BY <1>0, <1>1
  <1>4. time + 1 \in 0..(MaxReplies + 1) /\ time' \in 1..(MaxReplies + 1)
    BY <1>0, <1>2, DecisionsAssumption
  <1>5. /\ e \in DecisionEntry /\ e.replied = time + 1
        /\ e.provisional = decisions[i].provisional /\ e.answer = decisions[i].answer
    BY <1>3, <1>4 DEF DecisionEntry
  <1> HIDE DEF i, e
  <1>6. /\ decisions' \in Seq(DecisionEntry) /\ Len(decisions') = Len(decisions)
        /\ DOMAIN decisions' = DOMAIN decisions
        /\ \A j \in DOMAIN decisions : decisions'[j] = IF j = i THEN e ELSE decisions[j]
    BY <1>0, <1>1, <1>2, <1>5, OneEntryChanged
  <1>7. run' \in RunRow  BY DEF ReplyTo, RunRow, DecisionsIInv, DecisionsTypeOK
  <1>8. DecisionsTypeOK'  BY <1>2, <1>4, <1>6, <1>7 DEF DecisionsIInv, DecisionsTypeOK
  <1>9. TakenHasAnswer'  BY <1>5, <1>6 DEF DecisionsIInv, TakenHasAnswer
  <1>10. \A j \in DOMAIN decisions : decisions[j].replied \in Nat
    <2> TAKE j \in DOMAIN decisions
    <2>1. decisions[j] \in DecisionEntry  BY <1>0
    <2> QED  BY <2>1, DecisionsAssumption DEF DecisionEntry
  <1>11. RepliesArePast'  BY <1>0, <1>2, <1>5, <1>6, <1>10 DEF DecisionsIInv, RepliesArePast
  <1>12. CopiesAgree'
    <2> SUFFICES ASSUME NEW p \in Deciders, acts[p].step = "settle"
                 PROVE  CopyAgrees(acts[p])'
      BY <1>2 DEF CopiesAgree
    <2>1. CopyAgrees(acts[p])  BY DEF DecisionsIInv, CopiesAgree
    <2>2. acts[p].entry.replied \in Nat
      BY <1>0, DecisionsAssumption DEF Act, DecisionEntry
    <2> QED  BY <1>0, <1>2, <1>5, <1>6, <2>1, <2>2 DEF CopyAgrees
  <1> QED  BY <1>8, <1>9, <1>11, <1>12 DEF DecisionsIInv

(* The steps of a poll that touch no more than its own place.               *)
LEMMA LooksKeep ==
  ASSUME DecisionsIInv, NEW p \in Deciders,
         ListWaiting(p) \/ ReadClock(p) \/ FindSession(p) \/ Elicit(p) \/ ElicitRefused(p)
         \/ RaiseWaiting(p) \/ NothingDue(p) \/ ListUnposted(p) \/ ElicitProvisional(p)
         \/ CutOff(p) \/ CallFails(p)
  PROVE  DecisionsIInv'
  <1>0. /\ acts \in [Deciders -> Act] /\ decisions \in Seq(DecisionEntry) /\ Len(decisions) <= MaxDecisions
        /\ time \in 1..(MaxReplies + 1) /\ bound \in 0..MaxSessions /\ quiet \in BOOLEAN
        /\ faults \in 0..MaxFaults
    BY DEF DecisionsIInv, DecisionsTypeOK
  <1>1. UNCHANGED <<decisions, run, bound, time, quiet, requeues>> /\ faults' \in 0..MaxFaults
    BY <1>0, DecisionsAssumption DEF ListWaiting, ReadClock, FindSession, Elicit, ElicitRefused, RaiseWaiting,
       NothingDue, ListUnposted, ElicitProvisional, CutOff, CallFails, Faulty, rest
  <1>2. \A i \in DOMAIN decisions : i \in 0..MaxDecisions /\ decisions[i] \in DecisionEntry
    BY <1>0, DecisionsAssumption
  <1>3. acts' \in [Deciders -> Act] /\ NoNewCopy
    <2>1. CASE ListWaiting(p)
      <3>1. PICK a \in Act : a.step = "waiting" /\ acts' = [acts EXCEPT ![p] = a]
        <4>1. CASE Waits
          <5> DEFINE a == [NoAct EXCEPT !.step = "waiting", !.index = lastUnanswered,
                                        !.entry = decisions[lastUnanswered], !.due = quiet]
          <5>1. lastUnanswered \in 0..MaxDecisions /\ decisions[lastUnanswered] \in DecisionEntry
            BY <4>1, <1>2, IndexesAreOfTheRow DEF Waits
          <5>2. a \in Act /\ a.step = "waiting"
            BY <5>1, <1>0, NoActTyped DEF Act, ActSteps
          <5>3. acts' = [acts EXCEPT ![p] = a]  BY <2>1, <4>1 DEF ListWaiting
          <5> QED  BY <5>2, <5>3
        <4>2. CASE ~Waits
          <5>1. [NoAct EXCEPT !.step = "waiting"] \in Act /\ [NoAct EXCEPT !.step = "waiting"].step = "waiting"
            BY NoActTyped DEF Act, ActSteps
          <5>2. acts' = [acts EXCEPT ![p] = [NoAct EXCEPT !.step = "waiting"]]  BY <2>1, <4>2 DEF ListWaiting
          <5> QED  BY <5>1, <5>2
        <4> QED  BY <4>1, <4>2
      <3> QED  BY <1>0, <3>1 DEF NoNewCopy
    <2>2. CASE ReadClock(p)
      <3>1. PICK step \in {"unposted", "decide"} :
              acts' = [acts EXCEPT ![p] = [acts[p] EXCEPT !.clock = time, !.step = step]]
        BY <2>2, <1>0 DEF ReadClock
      <3>2. time \in 0..(MaxReplies + 1)  BY <1>0, DecisionsAssumption
      <3>3. /\ [acts[p] EXCEPT !.clock = time, !.step = step] \in Act
            /\ [acts[p] EXCEPT !.clock = time, !.step = step].step = step
        BY <1>0, <3>1, <3>2 DEF Act, ActSteps
      <3> QED  BY <1>0, <3>1, <3>3 DEF NoNewCopy
    <2>3. CASE FindSession(p)
      <3>1. CASE Goes(p, "unposted")  BY <1>0, <3>1, MovesOn DEF ActSteps
      <3>2. CASE acts' = [acts EXCEPT ![p] = [acts[p] EXCEPT !.step = "ask", !.session = bound]]
        <4>1. /\ [acts[p] EXCEPT !.step = "ask", !.session = bound] \in Act
              /\ [acts[p] EXCEPT !.step = "ask", !.session = bound].step = "ask"
          BY <1>0 DEF Act, ActSteps
        <4> QED  BY <1>0, <3>2, <4>1 DEF NoNewCopy
      <3> QED  BY <2>3, <3>1, <3>2, <1>0 DEF FindSession
    <2>4. CASE Elicit(p) \/ ElicitRefused(p) \/ RaiseWaiting(p) \/ NothingDue(p) \/ ElicitProvisional(p)
               \/ CallFails(p)
      <3>1. PICK step \in ActSteps \ {"settle"} : Goes(p, step) \/ Continues(p, step)
        BY <2>4 DEF Elicit, ElicitRefused, RaiseWaiting, NothingDue, ElicitProvisional, CallFails, ActSteps
      <3> QED  BY <1>0, <3>1, MovesOn
    <2>5. CASE ListUnposted(p)
      <3> DEFINE i == firstUnpostedProvisional(decisions)
      <3>1. CASE Goes(p, "replied")  BY <1>0, <3>1, MovesOn DEF ActSteps
      <3>2. CASE /\ i # 0
                 /\ acts' = [acts EXCEPT ![p] = [acts[p] EXCEPT !.step = "askProvisional", !.index = i, !.session = bound]]
        <4>1. i \in 0..MaxDecisions  BY <3>2, <1>2, IndexesAreOfTheRow
        <4> HIDE DEF i
        <4>2. /\ [acts[p] EXCEPT !.step = "askProvisional", !.index = i, !.session = bound] \in Act
              /\ [acts[p] EXCEPT !.step = "askProvisional", !.index = i, !.session = bound].step = "askProvisional"
          BY <1>0, <4>1 DEF Act, ActSteps
        <4> QED  BY <1>0, <3>2, <4>2 DEF NoNewCopy
      <3> QED  BY <2>5, <3>1, <3>2, <1>0 DEF ListUnposted
    <2>6. CASE CutOff(p)  BY <2>6, <1>0, PollEndsHere DEF CutOff
    <2> QED  BY <2>1, <2>2, <2>3, <2>4, <2>5, <2>6
  <1>4. DecisionsTypeOK'  BY <1>0, <1>1, <1>3 DEF DecisionsIInv, DecisionsTypeOK
  <1> QED  BY <1>1, <1>3, <1>4, RowUntouched DEF DecisionsIInv

(* The first copy of a decision a poll settles by is the decision itself.   *)
LEMMA ListRepliedKeeps ==
  ASSUME DecisionsIInv, NEW p \in Deciders, ListReplied(p)
  PROVE  DecisionsIInv'
  <1> DEFINE i == repliedProvisional(decisions)
             a == [NoAct EXCEPT !.step = "settle", !.index = i, !.entry = decisions[i]]
  <1>0. /\ acts \in [Deciders -> Act] /\ decisions \in Seq(DecisionEntry) /\ Len(decisions) <= MaxDecisions
        /\ UNCHANGED <<decisions, run, bound, time, quiet, requeues, faults>>
    BY DEF DecisionsIInv, DecisionsTypeOK, ListReplied, rest
  <1>1. CASE acts' = [acts EXCEPT ![p] = NoAct]
    <2>1. acts' \in [Deciders -> Act] /\ NoNewCopy  BY <1>0, <1>1, PollEndsHere DEF PollDone
    <2> QED  BY <1>0, <2>1, RowUntouched DEF DecisionsIInv, DecisionsTypeOK
  <1>2. CASE i # 0 /\ acts' = [acts EXCEPT ![p] = a]
    <2>1. i \in DOMAIN decisions /\ i \in 0..MaxDecisions /\ decisions[i] \in DecisionEntry
      BY <1>0, <1>2, IndexesAreOfTheRow, DecisionsAssumption
    <2> HIDE DEF i
    <2>2. a \in Act /\ a.index = i /\ a.entry = decisions[i]
      BY <2>1, NoActTyped DEF Act, ActSteps
    <2> HIDE DEF a
    <2>3. DecisionsTypeOK' /\ TakenHasAnswer' /\ RepliesArePast'
      BY <1>0, <1>2, <2>2 DEF DecisionsIInv, DecisionsTypeOK, TakenHasAnswer, RepliesArePast
    <2>4. CopiesAgree'
      <3> SUFFICES ASSUME NEW q \in Deciders, acts'[q].step = "settle"
                   PROVE  CopyAgrees(acts[q])'
        BY DEF CopiesAgree
      <3>1. CASE q = p
        <4>1. acts'[q] = a  BY <1>0, <1>2, <3>1
        <4> QED  BY <1>0, <2>1, <2>2, <4>1 DEF CopyAgrees, DecisionsIInv, RepliesArePast
      <3>2. CASE q # p
        <4>1. acts'[q] = acts[q]  BY <1>0, <1>2, <3>2
        <4> QED  BY <1>0, <4>1 DEF CopyAgrees, DecisionsIInv, CopiesAgree
      <3> QED  BY <3>1, <3>2
    <2> QED  BY <2>3, <2>4 DEF DecisionsIInv
  <1> QED  BY <1>1, <1>2 DEF ListReplied

(* The writes on an entry: the answer, the two stamps, and what settles     *)
(* auto-pilot's decision.                                                   *)
LEMMA EntryWritesKeep ==
  ASSUME DecisionsIInv, NEW p \in Deciders,
         Answer(p) \/ PostedDecision(p) \/ PostedProvisional(p) \/ ConfirmProvisional(p) \/ Supersede(p)
  PROVE  DecisionsIInv'
  <1>0. /\ acts \in [Deciders -> Act] /\ decisions \in Seq(DecisionEntry) /\ Len(decisions) <= MaxDecisions
        /\ run \in RunRow /\ quiet \in BOOLEAN
    BY DEF DecisionsIInv, DecisionsTypeOK
  <1>1. UNCHANGED <<bound, time, requeues, faults>> /\ quiet' \in BOOLEAN
    BY <1>0 DEF Answer, PostedDecision, PostedProvisional, ConfirmProvisional, Supersede, rest
  <1>2. run' \in RunRow
    BY <1>0 DEF Answer, PostedDecision, PostedProvisional, ConfirmProvisional, Supersede, Requeued, RunRow
  <1>3. acts' \in [Deciders -> Act] /\ NoNewCopy
    <2>1. CASE PollDone(p)  BY <1>0, <2>1, PollEndsHere
    <2>2. CASE \E step \in ActSteps \ {"settle"} : Goes(p, step) \/ Continues(p, step)
      BY <1>0, <2>2, MovesOn
    <2> QED  BY <2>1, <2>2
             DEF Answer, PostedDecision, PostedProvisional, ConfirmProvisional, Supersede, ActSteps
  <1>4. \A i \in DOMAIN decisions : decisions[i] \in DecisionEntry  BY <1>0
  <1>5. acts[p] \in Act /\ acts[p].entry \in DecisionEntry  BY <1>0 DEF Act
  <1>6. \/ UNCHANGED decisions
        \/ \E i \in DOMAIN decisions, e \in DecisionEntry :
             /\ decisions' = [decisions EXCEPT ![i] = e]
             /\ e.reply = decisions[i].reply /\ e.replied = decisions[i].replied
             /\ e.provisional => decisions[i].provisional /\ e.answer = decisions[i].answer
    <2>1. CASE Answer(p)
      <3> DEFINE i == lastUnanswered
                 e == [decisions[i] EXCEPT !.answer = acts[p].entry.reply]
      <3>1. CASE Waits
        <4>1. i \in DOMAIN decisions /\ decisions[i].answer = "none"
          BY <3>1, IndexesAreOfTheRow DEF Waits
        <4>2. ~decisions[i].provisional  BY <4>1 DEF DecisionsIInv, TakenHasAnswer
        <4>3. decisions' = [decisions EXCEPT ![i] = e] /\ acts[p].entry.reply \in Labels
          BY <2>1, <3>1 DEF Answer, Matches
        <4> HIDE DEF i
        <4>4. e \in DecisionEntry /\ e.reply = decisions[i].reply /\ e.replied = decisions[i].replied
              /\ e.provisional = decisions[i].provisional
          BY <1>4, <4>1, <4>3 DEF DecisionEntry
        <4> QED  BY <4>1, <4>2, <4>3, <4>4
      <3>2. CASE ~Waits  BY <2>1, <3>2 DEF Answer
      <3> QED  BY <3>1, <3>2
    <2>2. CASE PostedDecision(p) \/ PostedProvisional(p)
      <3> SUFFICES ASSUME NEW i \in DOMAIN decisions,
                          decisions' = [decisions EXCEPT ![i] =
                            [decisions[i] EXCEPT !.session = acts[p].session, !.posted = acts[p].clock]]
                   PROVE  \E e \in DecisionEntry :
                            /\ decisions' = [decisions EXCEPT ![i] = e]
                            /\ e.reply = decisions[i].reply /\ e.replied = decisions[i].replied
                            /\ e.provisional => decisions[i].provisional /\ e.answer = decisions[i].answer
        BY <2>2, IndexesAreOfTheRow DEF PostedDecision, PostedProvisional
      <3> DEFINE e == [decisions[i] EXCEPT !.session = acts[p].session, !.posted = acts[p].clock]
      <3>1. e \in DecisionEntry /\ e.reply = decisions[i].reply /\ e.replied = decisions[i].replied
            /\ e.provisional = decisions[i].provisional /\ e.answer = decisions[i].answer
        BY <1>4, <1>5 DEF DecisionEntry, Act
      <3> QED  BY <3>1
    <2>3. CASE ConfirmProvisional(p)
      <3> DEFINE i == acts[p].index
                 e == [decisions[i] EXCEPT !.confirmed = TRUE]
      <3>1. i \in DOMAIN decisions
        BY <2>3 DEF ConfirmProvisional, DecisionsIInv, CopiesAgree, CopyAgrees
      <3>2. UNCHANGED decisions \/ decisions' = [decisions EXCEPT ![i] = e]
        BY <2>3 DEF ConfirmProvisional
      <3> HIDE DEF i
      <3>3. e \in DecisionEntry /\ e.reply = decisions[i].reply /\ e.replied = decisions[i].replied
            /\ e.provisional = decisions[i].provisional /\ e.answer = decisions[i].answer
        BY <1>4, <3>1 DEF DecisionEntry
      <3> QED  BY <3>1, <3>2, <3>3
    <2>4. CASE Supersede(p)
      <3> DEFINE i == acts[p].index
                 e == [decisions[i] EXCEPT !.answer = acts[p].entry.reply, !.provisional = FALSE]
      <3>1. i \in DOMAIN decisions /\ acts[p].entry.reply \in Labels
        BY <2>4 DEF Supersede, Matches, DecisionsIInv, CopiesAgree, CopyAgrees
      <3>2. UNCHANGED decisions \/ decisions' = [decisions EXCEPT ![i] = e]
        BY <2>4 DEF Supersede
      <3> HIDE DEF i
      <3>3. e \in DecisionEntry /\ e.reply = decisions[i].reply /\ e.replied = decisions[i].replied
            /\ e.provisional = FALSE
        BY <1>4, <3>1 DEF DecisionEntry
      <3> QED  BY <3>1, <3>2, <3>3
    <2> QED  BY <2>1, <2>2, <2>3, <2>4
  <1>7. /\ decisions' \in Seq(DecisionEntry) /\ Len(decisions') <= MaxDecisions
        /\ TakenHasAnswer' /\ RepliesArePast' /\ CopiesAgree'
    <2>1. CASE UNCHANGED decisions  BY <1>0, <1>1, <1>3, <2>1, RowUntouched
    <2> QED  BY <1>1, <1>3, <1>6, <2>1, EntryRewritten
  <1> QED  BY <1>1, <1>2, <1>3, <1>7 DEF DecisionsIInv, DecisionsTypeOK

(* The writes on the rest of the row.                                       *)
LEMMA RowWritesKeep ==
  ASSUME DecisionsIInv, NEW p \in Deciders, StopWaiting(p) \/ ClearProvisionalReply(p)
  PROVE  DecisionsIInv'
  <1>0. acts \in [Deciders -> Act] /\ run \in RunRow  BY DEF DecisionsIInv, DecisionsTypeOK
  <1>1. UNCHANGED <<decisions, bound, time, quiet, requeues, faults>>
    BY DEF StopWaiting, ClearProvisionalReply, rest
  <1>2. run' \in RunRow  BY <1>0 DEF StopWaiting, ClearProvisionalReply, RunRow
  <1>3. acts' \in [Deciders -> Act] /\ NoNewCopy
    BY <1>0, MovesOn, PollEndsHere DEF StopWaiting, ClearProvisionalReply, ActSteps
  <1> QED  BY <1>1, <1>2, <1>3, RowUntouched DEF DecisionsIInv, DecisionsTypeOK

LEMMA StepKeeps ==
  ASSUME DecisionsIInv, [DecisionsNext]_decisionVars
  PROVE  DecisionsIInv'
  <1>1. CASE UNCHANGED decisionVars
    BY <1>1 DEF decisionVars, DecisionsIInv, DecisionsTypeOK, TakenHasAnswer, RepliesArePast, CopiesAgree, CopyAgrees
  <1>2. CASE DecisionsNext
    BY <1>2, RunKeeps, AsksKeep, ReplyKeeps, LooksKeep, ListRepliedKeeps, EntryWritesKeep, RowWritesKeep
       DEF DecisionsNext, DecidesWaiting, DecidesProvisional
  <1> QED  BY <1>1, <1>2

(* The invariant of the decisions: the types, and that the copy a poll      *)
(* settles a reply by is of the reply it names.                             *)
THEOREM DecisionsInvariant == DecisionsSpec => []DecisionsIInv
  <1>1. DecisionsInit => DecisionsIInv  BY InitHolds
  <1>2. DecisionsIInv /\ [DecisionsNext]_decisionVars => DecisionsIInv'  BY StepKeeps
  <1> QED  BY <1>1, <1>2, PTL DEF DecisionsSpec

-----------------------------------------------------------------------------
(* The last word *)

(* A step that leaves the two marks of an entry alone settles nothing.      *)
LEMMA MarksKept ==
  ASSUME \A i \in DOMAIN decisions :
           /\ decisions'[i].confirmed = decisions[i].confirmed
           /\ decisions'[i].provisional = decisions[i].provisional
  PROVE  SettledByLastWord
  BY DEF SettledByLastWord

LEMMA OthersSettleNothing ==
  ASSUME DecisionsIInv, DecisionsNext,
         \A p \in Deciders : ~ConfirmProvisional(p) /\ ~Supersede(p)
  PROVE  SettledByLastWord
  <1>0. decisions \in Seq(DecisionEntry)  BY DEF DecisionsIInv, DecisionsTypeOK
  <1>1. CASE UNCHANGED decisions  BY <1>1, MarksKept
  <1>2. CASE TakeRecommendation \/ Suspend
    <2>1. \E e : decisions' = Append(decisions, e)  BY <1>2 DEF TakeRecommendation, Suspend
    <2>2. \A i \in DOMAIN decisions : decisions'[i] = decisions[i]  BY <1>0, <2>1
    <2> QED  BY <2>2, MarksKept
  <1>3. ASSUME NEW s, NEW text, ReplyTo(s, text)  PROVE SettledByLastWord
    <2>1. PICK i \in DOMAIN decisions :
            decisions' = [decisions EXCEPT ![i] = [decisions[i] EXCEPT !.reply = text, !.replied = time + 1]]
      BY <1>3, IndexesAreOfTheRow DEF ReplyTo, ReplyIndex
    <2>2. decisions[i] \in DecisionEntry  BY <1>0
    <2> QED  BY <1>0, <2>1, <2>2, MarksKept DEF DecisionEntry
  <1>4. ASSUME NEW p \in Deciders, Answer(p)  PROVE SettledByLastWord
    <2>1. CASE Waits
      <3>1. PICK i \in DOMAIN decisions :
              decisions' = [decisions EXCEPT ![i] = [decisions[i] EXCEPT !.answer = acts[p].entry.reply]]
        BY <1>4, <2>1, IndexesAreOfTheRow DEF Answer, Waits
      <3>2. decisions[i] \in DecisionEntry  BY <1>0
      <3> QED  BY <1>0, <3>1, <3>2, MarksKept DEF DecisionEntry
    <2>2. CASE ~Waits  BY <1>4, <2>2, <1>1 DEF Answer
    <2> QED  BY <2>1, <2>2
  <1>5. ASSUME NEW p \in Deciders, PostedDecision(p) \/ PostedProvisional(p)  PROVE SettledByLastWord
    <2>1. CASE UNCHANGED decisions  BY <2>1, <1>1
    <2>2. CASE ~UNCHANGED decisions
      <3>1. PICK i \in DOMAIN decisions :
              decisions' = [decisions EXCEPT ![i] =
                [decisions[i] EXCEPT !.session = acts[p].session, !.posted = acts[p].clock]]
        BY <1>5, <2>2, IndexesAreOfTheRow DEF PostedDecision, PostedProvisional
      <3>2. decisions[i] \in DecisionEntry  BY <1>0
      <3> QED  BY <1>0, <3>1, <3>2, MarksKept DEF DecisionEntry
    <2> QED  BY <2>1, <2>2
  <1>6. CASE ClaimRun \/ RunEnds \/ AbandonRun \/ RequeueRun \/ Delegate \/ TimePasses
    BY <1>6, <1>1 DEF ClaimRun, RunEnds, AbandonRun, RequeueRun, Delegate, TimePasses
  <1>7. ASSUME NEW p \in Deciders,
               ListWaiting(p) \/ ReadClock(p) \/ FindSession(p) \/ Elicit(p) \/ ElicitRefused(p)
               \/ RaiseWaiting(p) \/ StopWaiting(p) \/ NothingDue(p) \/ ListUnposted(p)
               \/ ElicitProvisional(p) \/ ListReplied(p) \/ ClearProvisionalReply(p)
               \/ CutOff(p) \/ CallFails(p)
        PROVE  SettledByLastWord
    BY <1>7, <1>1 DEF ListWaiting, ReadClock, FindSession, Elicit, ElicitRefused, RaiseWaiting, StopWaiting,
       NothingDue, ListUnposted, ElicitProvisional, ListReplied, ClearProvisionalReply, CutOff, CallFails
  <1> QED  BY <1>2, <1>3, <1>4, <1>5, <1>6, <1>7 DEF DecisionsNext, DecidesWaiting, DecidesProvisional

LEMMA ConfirmsTheLastWord ==
  ASSUME DecisionsIInv, NEW p \in Deciders, ConfirmProvisional(p)
  PROVE  SettledByLastWord
  <1> DEFINE i == acts[p].index
  <1>0. decisions \in Seq(DecisionEntry)  BY DEF DecisionsIInv, DecisionsTypeOK
  <1>1. CopyAgrees(acts[p]) /\ acts[p].entry.reply = acts[p].entry.answer
    BY DEF ConfirmProvisional, DecisionsIInv, CopiesAgree
  <1>2. CASE UNCHANGED decisions  BY <1>2, MarksKept
  <1>3. CASE /\ SameReply(i, acts[p].entry)
             /\ decisions' = [decisions EXCEPT ![i] = [decisions[i] EXCEPT !.confirmed = TRUE]]
    <2>1. i \in DOMAIN decisions /\ decisions[i].answer = decisions[i].reply
      BY <1>1, <1>3 DEF SameReply, CopyAgrees
    <2>2. decisions[i] \in DecisionEntry  BY <1>0, <2>1
    <2>3. decisions'[i].answer = decisions[i].answer
      BY <1>0, <1>3, <2>1, <2>2 DEF DecisionEntry
    <2>4. \A j \in DOMAIN decisions : j # i => decisions'[j] = decisions[j]  BY <1>0, <1>3
    <2> QED  BY <2>1, <2>3, <2>4 DEF SettledByLastWord
  <1> QED  BY <1>2, <1>3 DEF ConfirmProvisional

LEMMA SupersedesByTheLastWord ==
  ASSUME DecisionsIInv, NEW p \in Deciders, Supersede(p)
  PROVE  SettledByLastWord
  <1> DEFINE i == acts[p].index
  <1>0. decisions \in Seq(DecisionEntry)  BY DEF DecisionsIInv, DecisionsTypeOK
  <1>1. CopyAgrees(acts[p])  BY DEF Supersede, DecisionsIInv, CopiesAgree
  <1>2. CASE UNCHANGED decisions  BY <1>2, MarksKept
  <1>3. CASE /\ SameReply(i, acts[p].entry)
             /\ decisions' = [decisions EXCEPT ![i] =
                  [decisions[i] EXCEPT !.answer = acts[p].entry.reply, !.provisional = FALSE]]
    <2>1. i \in DOMAIN decisions /\ acts[p].entry.reply = decisions[i].reply
      BY <1>1, <1>3 DEF SameReply, CopyAgrees
    <2>2. decisions[i] \in DecisionEntry  BY <1>0, <2>1
    <2>3. decisions'[i].answer = acts[p].entry.reply
      BY <1>0, <1>3, <2>1, <2>2 DEF DecisionEntry
    <2>4. \A j \in DOMAIN decisions : j # i => decisions'[j] = decisions[j]  BY <1>0, <1>3
    <2> QED  BY <2>1, <2>3, <2>4 DEF SettledByLastWord
  <1> QED  BY <1>2, <1>3 DEF Supersede

(* Whatever polls overlap and however late they act, a decision auto-pilot  *)
(* took is confirmed or superseded only with the option the reply on the    *)
(* row names at that moment (ConfirmProvisional, Supersede).                *)
THEOREM LastWordDecides == DecisionsSpec => LastWordSettles
  <1>1. DecisionsIInv /\ [DecisionsNext]_decisionVars => [SettledByLastWord]_decisionVars
    BY OthersSettleNothing, ConfirmsTheLastWord, SupersedesByTheLastWord
  <1> QED  BY <1>1, DecisionsInvariant, PTL DEF DecisionsSpec, LastWordSettles
=============================================================================
